--------------------------- MODULE WalGroupCommit ---------------------------
(***************************************************************************)
(* Durability of commits through the write-ahead log of PowDB              *)
(* (crates/storage/src/wal.rs) as the server drives it: one statement at a *)
(* time runs under the engine write lock with its fsync deferred, takes a  *)
(* WalDurabilityTicket, releases the lock, and waits for the ticket before *)
(* it acknowledges the commit.  Waiters elect a group-commit leader with   *)
(* the sync_file mutex; in Normal mode a background flusher fsyncs instead. *)
(*                                                                         *)
(* The log is abstracted to the generations that Wal::flush_to_os          *)
(* registers: generation g is the batch of records of the g-th flush.  A   *)
(* file length is the number of the last generation below it.  What a      *)
(* power loss leaves behind is described by three sets:                    *)
(*   os      generations in the log file as the OS shows it                *)
(*   stable  generations an fsync has really put on stable storage         *)
(*   lost    generations whose pages a failed fsync dropped; the kernel    *)
(*           calls them clean, so no later fsync writes them               *)
(* and two that describe the heap files:                                   *)
(*   heap       generations whose rows fsynced heap pages contain          *)
(*   heap_lost  generations whose heap pages a failed fsync dropped; they  *)
(*              have left the dirty buffer, so no later flush writes them  *)
(***************************************************************************)
EXTENDS Naturals, FiniteSets

CONSTANTS
  Conns,             \* connection threads of the server
  NoConn,            \* no thread
  SyncMode,          \* WalSyncMode, fixed at start-up: "Full" or "Normal"
  MaxGen,            \* bound: generations ever registered
  MaxFsyncFailures,  \* bound: fsyncs of leaders and of the flusher that fail
  MaxHeapFailures,   \* bound: flushes of the heap files that fail
  RawSyncMayFail,    \* whether the sync_data of a rollback may fail too
  MaxRollbacks       \* bound: statements that fail and roll back

ASSUME ConstantsAssumption ==
  /\ NoConn \notin Conns
  /\ SyncMode \in {"Full", "Normal"}
  /\ MaxGen \in Nat /\ MaxFsyncFailures \in Nat /\ MaxRollbacks \in Nat
  /\ MaxHeapFailures \in Nat /\ RawSyncMayFail \in BOOLEAN

VARIABLES
  dirty_gen, synced_gen, sync_poisoned,  \* WalSyncShared
  sync_file,      \* holder of the sync_file mutex (the leader), or NoConn
  deferred_gen,   \* Wal::deferred_gen, 0 for None
  synced_len,     \* Wal::synced_len
  tx_start_len,   \* Catalog::tx_start_len
  engine,         \* holder of the engine write lock, or NoConn
  untrusted,      \* Catalog::sync_poisoned: abandon_untrusted_state has run
  pc, ret,        \* where each thread is, and what its flush or sync is for
  gen, cover,     \* sync_until's argument and its snapshot of dirty_gen
  flusher, flusher_d,                    \* the Normal-mode flusher thread
  os, stable, lost, heap, heap_lost,     \* the devices
  committed,      \* generations that end with a Commit record
  discarded,      \* generations a rollback cut off the log
  acked,          \* commits whose client was told Ok
  bypass,         \* an fsync outside the poison latch passed over lost pages
  failures, heap_failures, rollbacks     \* counters for the bounds

shared  == <<dirty_gen, synced_gen, sync_poisoned, sync_file>>
wal     == <<deferred_gen, synced_len, tx_start_len>>
threads == <<pc, ret, gen, cover>>
heaps   == <<heap, heap_lost>>
devices == <<os, stable, lost, heaps>>
counts  == <<heap_failures, rollbacks>>
history == <<committed, discarded, acked, bypass, failures, counts>>
flush   == <<flusher, flusher_d>>
vars    == <<shared, wal, engine, untrusted, threads, flush, devices, history>>

Gens == 1 .. MaxGen

MaxOf(a, b) == IF a >= b THEN a ELSE b

Init ==
  /\ dirty_gen = 0 /\ synced_gen = 0 /\ sync_poisoned = FALSE
  /\ sync_file = NoConn
  /\ deferred_gen = 0 /\ synced_len = 0 /\ tx_start_len = 0
  /\ engine = NoConn /\ untrusted = FALSE
  /\ pc = [c \in Conns |-> "idle"] /\ ret = [c \in Conns |-> "ack"]
  /\ gen = [c \in Conns |-> 0] /\ cover = [c \in Conns |-> 0]
  /\ flusher = (IF SyncMode = "Normal" THEN "tick" ELSE "exit")
  /\ flusher_d = 0
  /\ os = {} /\ stable = {} /\ lost = {} /\ heap = {}
  /\ heap_lost = {}
  /\ committed = {} /\ discarded = {} /\ acked = {} /\ bypass = FALSE
  /\ failures = 0 /\ heap_failures = 0 /\ rollbacks = 0

Goto(c, label) == pc' = [pc EXCEPT ![c] = label]

\* Engine::ensure_usable.
Usable == ~untrusted /\ ~sync_poisoned

\* The generation flush_to_os registers next.
NextGenSkips == dirty_gen + 2
NextGen == dirty_gen + 1

\* The bytes set_len(len) leaves in the log file.
CutNothing(len) == os
CutAt(len) == {g \in os : g <= len}

\* The rollback boundary begin_statement_transaction records.
BoundaryAtHeader == 0
RollbackBoundary == synced_len

-----------------------------------------------------------------------------
(* fsync as the operating system performs it.                              *)

\* A successful fsync of the log makes every byte it was asked to write
\* stable, except the pages an earlier failure dropped.
FsyncWrites(upto) == stable' = stable \union ({g \in os : g <= upto} \ lost)

\* A failed fsync may have dropped any of the pages it had not written yet.
FsyncDrops ==
  \E dropped \in SUBSET (os \ stable) : lost' = lost \union dropped

FsyncFails ==
  /\ failures < MaxFsyncFailures
  /\ failures' = failures + 1
  /\ FsyncDrops

\* flush_all_dirty and the sync_data of the heap files, for the rows of gs.
\* This fsync is outside the poison latch.
HeapFlush(gs) ==
  /\ heap' = heap \union (gs \ heap_lost)
  /\ bypass' = (bypass \/ gs \intersect heap_lost # {})
  /\ UNCHANGED <<heap_lost, heap_failures>>

\* The same, failing: a page whose write fails stays in the dirty buffer, one
\* that was written and whose fsync fails may be dropped.
HeapFlushFails ==
  /\ heap_failures < MaxHeapFailures
  /\ heap_failures' = heap_failures + 1
  /\ \E dropped \in SUBSET (os \ heap) : heap_lost' = heap_lost \union dropped
  /\ UNCHANGED <<heap, bypass>>

-----------------------------------------------------------------------------
(* WalSyncShared::sync_until(gen[c]), with ret[c] its caller.              *)

SyncReturnsOk(c) ==
  /\ Goto(c, CASE ret[c] = "ack"      -> "idle"
               [] ret[c] = "relief"   -> "relief"
               [] ret[c] = "truncate" -> "cut")
  /\ acked' = IF ret[c] = "ack" THEN acked \union {gen[c]} ELSE acked
  /\ UNCHANGED engine

\* An inline sync before the statement began fails the statement; one inside
\* the automatic checkpoint is only logged; a failed ticket is reported to the
\* client as CommitOutcomeUnknown.
SyncRetries(c) ==
  /\ Goto(c, "check")
  /\ UNCHANGED <<acked, engine>>
SyncReturnsErr(c) ==
  /\ Goto(c, IF ret[c] = "truncate" THEN "ticket" ELSE "idle")
  /\ engine' = IF ret[c] = "relief" THEN NoConn ELSE engine
  /\ UNCHANGED acked

SyncFastPath(c) ==
  /\ pc[c] = "check"
  /\ IF synced_gen >= gen[c]
       THEN SyncReturnsOk(c)
       ELSE Goto(c, "lock") /\ UNCHANGED <<acked, engine>>
  /\ UNCHANGED <<shared, wal, untrusted, ret, gen, cover, flush, devices,
                 committed, discarded, bypass, failures, counts>>

SyncLock(c) ==
  /\ pc[c] = "lock"
  /\ sync_file = NoConn
  /\ sync_file' = c
  /\ Goto(c, "locked")
  /\ UNCHANGED <<dirty_gen, synced_gen, sync_poisoned, wal, engine, untrusted,
                 ret, gen, cover, flush, devices, history>>

\* The sticky latch, read under the leader lock.
MayRetryFsync == TRUE
MayFsync == ~sync_poisoned

\* Under the leader lock: covered meanwhile, poisoned, or elected.
SyncElect(c) ==
  /\ pc[c] = "locked"
  /\ \/ /\ synced_gen >= gen[c]
        /\ sync_file' = NoConn /\ SyncReturnsOk(c) /\ UNCHANGED cover
     \/ /\ synced_gen < gen[c] /\ ~MayFsync
        /\ sync_file' = NoConn /\ SyncReturnsErr(c) /\ UNCHANGED cover
     \/ /\ synced_gen < gen[c] /\ MayFsync
        /\ cover' = [cover EXCEPT ![c] = dirty_gen]
        /\ Goto(c, "fsync")
        /\ UNCHANGED <<sync_file, acked, engine>>
  /\ UNCHANGED <<dirty_gen, synced_gen, sync_poisoned, wal, untrusted, ret,
                 gen, flush, devices, committed, discarded, bypass, failures,
                 counts>>

\* The leader's fsync.  The flusher fsyncs without the leader lock, so in
\* Normal mode it may just have been handed the error that dropped pages.
LeaderFsync(c) ==
  /\ pc[c] = "fsync"
  /\ \/ /\ FsyncWrites(cover[c])
        /\ bypass' = (bypass \/ (SyncMode = "Normal" /\ os \intersect lost # {}))
        /\ Goto(c, "publish")
        /\ UNCHANGED <<lost, failures>>
     \/ /\ FsyncFails
        /\ Goto(c, "poison")
        /\ UNCHANGED <<stable, bypass>>
  /\ UNCHANGED <<shared, wal, engine, untrusted, ret, gen, cover, flush, os,
                 heaps, committed, discarded, acked, counts>>

LeaderPublish(c) ==
  /\ pc[c] = "publish"
  /\ synced_gen' = MaxOf(synced_gen, cover[c])
  /\ sync_file' = NoConn
  /\ SyncReturnsOk(c)
  /\ UNCHANGED <<dirty_gen, sync_poisoned, wal, untrusted, ret, gen, cover,
                 flush, devices, committed, discarded, bypass, failures,
                 counts>>

LeaderPoison(c) ==
  /\ pc[c] = "poison"
  /\ sync_poisoned' = TRUE
  /\ sync_file' = NoConn
  /\ SyncReturnsErr(c)
  /\ UNCHANGED <<dirty_gen, synced_gen, wal, untrusted, ret, gen, cover, flush,
                 devices, committed, discarded, bypass, failures, counts>>

SyncUntil(c) ==
  \/ SyncFastPath(c)
  \/ SyncLock(c)
  \/ SyncElect(c)
  \/ LeaderFsync(c)
  \/ LeaderPublish(c)
  \/ LeaderPoison(c)

-----------------------------------------------------------------------------
(* A mutating statement under the engine write lock.                       *)

\* What sync_before_heap_flush waits for: every registered generation, not
\* only this handle's own deferred claim.
OwnClaimOnly == deferred_gen
EveryGeneration == dirty_gen

\* execute_write_deferred, run_statement, begin_statement_transaction.  When
\* earlier commits hold too many dirty pages, sync_before_heap_flush settles
\* every written generation first.
BeginStatement(c) ==
  /\ pc[c] = "idle"
  /\ engine = NoConn
  /\ dirty_gen < MaxGen
  /\ Usable
  /\ engine' = c
  /\ \/ /\ Goto(c, "exec")
        /\ tx_start_len' = RollbackBoundary
        /\ UNCHANGED <<gen, ret>>
     \/ /\ os \ heap # {}
        /\ gen' = [gen EXCEPT ![c] = EveryGeneration]
        /\ ret' = [ret EXCEPT ![c] = "relief"]
        /\ Goto(c, "check")
        /\ UNCHANGED tx_start_len
  /\ UNCHANGED <<shared, deferred_gen, synced_len, untrusted, cover, flush,
                 devices, history>>

\* flush_checkpoint_state of the pressure path, then the statement proceeds.
ReliefFlush(c) ==
  /\ pc[c] = "relief"
  /\ HeapFlush(os)
  /\ tx_start_len' = RollbackBoundary
  /\ Goto(c, "exec")
  /\ UNCHANGED <<shared, deferred_gen, synced_len, engine, untrusted, ret, gen,
                 cover, flush, os, stable, lost, committed, discarded, acked,
                 failures, rollbacks>>

\* The flush fails, and the statement with it, before it has begun.
ReliefFails(c) ==
  /\ pc[c] = "relief"
  /\ HeapFlushFails
  /\ engine' = NoConn
  /\ Goto(c, "idle")
  /\ UNCHANGED <<shared, wal, untrusted, ret, gen, cover, flush, os, stable,
                 lost, committed, discarded, acked, failures, rollbacks>>

\* flush_to_os, first half: the buffered records reach the OS file.  "part" is
\* the batch-size flush of Wal::append inside the statement, "commit" the one
\* in commit_transaction after the Commit record.
FlushToOs(c, kind) ==
  /\ pc[c] = "exec"
  /\ dirty_gen + (IF kind = "part" THEN 1 ELSE 0) < MaxGen
  /\ ~sync_poisoned
  /\ os' = os \union {NextGen}
  /\ synced_len' = NextGen
  /\ ret' = [ret EXCEPT ![c] = kind]
  /\ Goto(c, "register")
  /\ UNCHANGED <<shared, deferred_gen, tx_start_len, engine, untrusted, gen,
                 cover, flush, stable, lost, heaps, history>>

\* A poisoned WAL takes no new bytes: the statement fails, its rollback is
\* refused by ensure_usable, and poison_live_state abandons the handle.
FlushRefused(c) ==
  /\ pc[c] = "exec"
  /\ sync_poisoned
  /\ untrusted' = TRUE
  /\ deferred_gen' = 0
  /\ engine' = NoConn
  /\ Goto(c, "idle")
  /\ UNCHANGED <<shared, synced_len, tx_start_len, ret, gen, cover, flush,
                 devices, history>>

\* flush_to_os, second half, and the deferral in Wal::flush: the generation is
\* registered only after its bytes are visible to an fsync.
RegisterGen(c) ==
  /\ pc[c] = "register"
  /\ dirty_gen' = NextGen
  /\ deferred_gen' = IF SyncMode = "Full" THEN NextGen ELSE deferred_gen
  /\ IF ret[c] = "commit"
       THEN /\ committed' = committed \union (tx_start_len + 1 .. NextGen)
            /\ gen' = [gen EXCEPT ![c] = NextGen]
            /\ Goto(c, "committed")
       ELSE /\ Goto(c, "exec")
            /\ UNCHANGED <<committed, gen>>
  /\ UNCHANGED <<synced_gen, sync_poisoned, sync_file, synced_len, tx_start_len,
                 engine, untrusted, ret, cover, flush, devices, discarded,
                 acked, bypass, failures, counts>>

\* take_durability_ticket and the end of execute_write_deferred.  Without a
\* ticket (Normal mode, or a claim the checkpoint consumed) the statement is
\* acknowledged at once.
TakeTicket(c) ==
  /\ pc[c] \in {"committed", "unflushed", "ticket"}
  /\ engine' = NoConn
  /\ IF deferred_gen # 0
       THEN /\ gen' = [gen EXCEPT ![c] = deferred_gen]
            /\ ret' = [ret EXCEPT ![c] = "ack"]
            /\ Goto(c, "check")
            /\ UNCHANGED acked
       ELSE /\ acked' = acked \union {gen[c]}
            /\ Goto(c, "idle")
            /\ UNCHANGED <<gen, ret>>
  /\ deferred_gen' = 0
  /\ UNCHANGED <<shared, synced_len, tx_start_len, untrusted, cover, flush,
                 devices, committed, discarded, bypass, failures, counts>>

-----------------------------------------------------------------------------
(* checkpoint_if_wal_is_large at the end of commit_autocommit.             *)

\* Heap pages and indexes are written and fsynced, then Wal::truncate takes the
\* deferred claim, if there is one, and syncs it inline.
CheckpointFlush(c) ==
  /\ pc[c] = "committed"
  /\ HeapFlush(os)
  /\ deferred_gen' = 0
  /\ IF deferred_gen # 0
       THEN /\ gen' = [gen EXCEPT ![c] = deferred_gen]
            /\ ret' = [ret EXCEPT ![c] = "truncate"]
            /\ Goto(c, "check")
       ELSE Goto(c, "cut") /\ UNCHANGED <<gen, ret>>
  /\ UNCHANGED <<shared, synced_len, tx_start_len, engine, untrusted, cover,
                 flush, os, stable, lost, committed, discarded, acked,
                 failures, rollbacks>>

\* A failing flush ends the checkpoint: commit_autocommit logs it, and the
\* statement goes on with its claim and the log as they are.
CheckpointFails(c) ==
  /\ pc[c] = "committed"
  /\ HeapFlushFails
  /\ Goto(c, "unflushed")
  /\ UNCHANGED <<shared, wal, engine, untrusted, ret, gen, cover, flush, os,
                 stable, lost, committed, discarded, acked, failures,
                 rollbacks>>

\* The log file is truncated to its header.
TruncateLog(c) ==
  /\ pc[c] = "cut"
  /\ os' = {}
  /\ synced_len' = dirty_gen
  /\ ret' = [ret EXCEPT ![c] = "truncate"]
  /\ Goto(c, "settle")
  /\ UNCHANGED <<shared, deferred_gen, tx_start_len, engine, untrusted, gen,
                 cover, flush, stable, lost, heaps, history>>

\* WalSyncShared::replace_file: under the leader lock every registered
\* generation is declared settled.
ReplaceFile(c) ==
  /\ pc[c] = "settle"
  /\ sync_file = NoConn
  /\ synced_gen' = MaxOf(synced_gen, dirty_gen)
  /\ Goto(c, CASE ret[c] = "truncate" -> "ticket"
               [] ret[c] = "discard"  -> "resync"
               [] ret[c] = "pending"  -> "reopen")
  /\ ret' = [ret EXCEPT ![c] = IF @ = "discard" THEN "pending" ELSE @]
  /\ UNCHANGED <<dirty_gen, sync_poisoned, sync_file, wal, engine, untrusted,
                 gen, cover, flush, devices, history>>

-----------------------------------------------------------------------------
(* A failed statement: rollback_to_last_sync_inner.                        *)

\* rollback_transaction_preserving_wal_archive checks ensure_usable once.
BeginRollback(c) ==
  /\ pc[c] = "exec"
  /\ rollbacks < MaxRollbacks
  /\ rollbacks' = rollbacks + 1
  /\ IF Usable
       THEN Goto(c, "discard") /\ UNCHANGED <<engine, untrusted, deferred_gen>>
       ELSE /\ Goto(c, "idle")
            /\ engine' = NoConn
            /\ untrusted' = TRUE
            /\ deferred_gen' = 0
  /\ UNCHANGED <<shared, synced_len, tx_start_len, ret, gen, cover, flush,
                 devices, committed, discarded, acked, bypass, failures,
                 heap_failures>>

\* discard_and_truncate_to(tx_start_len): set_len drops the statement's bytes.
DiscardTail(c) ==
  /\ pc[c] = "discard"
  /\ os' = CutAt(tx_start_len)
  /\ discarded' = discarded \union {g \in os : g > tx_start_len}
  /\ ret' = [ret EXCEPT ![c] = "discard"]
  /\ Goto(c, "resync")
  /\ UNCHANGED <<shared, wal, engine, untrusted, gen, cover, flush, stable,
                 lost, heaps, committed, acked, bypass, failures, counts>>

\* The sync_data of discard_and_truncate_to (ret "discard") and, once more, of
\* discard_pending (ret "pending").  Neither reads or sets sync_poisoned; a
\* failure only abandons the catalog handle.
RawSync(c) ==
  /\ pc[c] = "resync"
  /\ deferred_gen' = 0
  /\ \/ /\ stable' = stable \union (os \ lost)
        /\ bypass' = (bypass \/ os \intersect lost # {})
        /\ synced_len' = IF ret[c] = "discard" THEN tx_start_len ELSE 0
        /\ Goto(c, "settle")
        /\ UNCHANGED <<lost, engine, untrusted>>
     \/ /\ RawSyncMayFail
        /\ FsyncDrops
        /\ bypass' = (bypass \/ lost' # lost)
        /\ untrusted' = TRUE
        /\ engine' = NoConn
        /\ Goto(c, "idle")
        /\ UNCHANGED <<stable, synced_len>>
  /\ UNCHANGED <<shared, tx_start_len, ret, gen, cover, flush, os, heaps,
                 committed, discarded, acked, failures, counts>>

\* What a replay of the log can read back: all of it, or the records before a
\* dropped page that has left the page cache.
Readable ==
  {os} \union {{g \in os : g < hole} : hole \in os \intersect lost}

\* Catalog::open_inner on the same directory: the remaining log is replayed
\* into fsynced heap pages and truncated, and the new Wal has a fresh
\* WalSyncShared.  Old tickets keep the old one, in which every generation is
\* settled, so the counters can simply continue.
Reopen(c) ==
  /\ pc[c] = "reopen"
  /\ flusher \in {"tick", "exit"}
  /\ \E read \in Readable : HeapFlush(read)
  /\ os' = {}
  /\ synced_len' = dirty_gen
  /\ sync_poisoned' = FALSE
  /\ flusher' = IF SyncMode = "Normal" THEN "tick" ELSE "exit"
  /\ engine' = NoConn
  /\ Goto(c, "idle")
  /\ UNCHANGED <<dirty_gen, synced_gen, sync_file, deferred_gen, tx_start_len,
                 untrusted, ret, gen, cover, flusher_d, stable, lost,
                 committed, discarded, acked, failures, rollbacks>>

\* open_inner fails in the flush after the replay, before it cuts the log; the
\* old handle is abandoned and nothing replaces it.
ReopenFails(c) ==
  /\ pc[c] = "reopen"
  /\ HeapFlushFails
  /\ untrusted' = TRUE
  /\ engine' = NoConn
  /\ Goto(c, "idle")
  /\ UNCHANGED <<shared, wal, ret, gen, cover, flush, os, stable, lost,
                 committed, discarded, acked, failures, rollbacks>>

-----------------------------------------------------------------------------
(* Flusher::spawn's loop, in Normal mode.                                  *)

\* New bytes were registered since the last fsync.
SeesTwoNewGens == dirty_gen > synced_gen + 1
SeesNewGens == dirty_gen > synced_gen

FlusherTick ==
  /\ flusher = "tick"
  /\ IF sync_poisoned
       THEN flusher' = "exit" /\ UNCHANGED flusher_d
       ELSE /\ SeesNewGens
            /\ flusher_d' = dirty_gen
            /\ flusher' = "fsync"
  /\ UNCHANGED <<shared, wal, engine, untrusted, threads, devices, history>>

FlusherFsync ==
  /\ flusher = "fsync"
  /\ \/ /\ FsyncWrites(flusher_d)
        /\ bypass' = (bypass \/ os \intersect lost # {})
        /\ flusher' = "publish"
        /\ UNCHANGED <<lost, failures>>
     \/ /\ FsyncFails
        /\ flusher' = "poison"
        /\ UNCHANGED <<stable, bypass>>
  /\ UNCHANGED <<shared, wal, engine, untrusted, threads, flusher_d, os, heaps,
                 committed, discarded, acked, counts>>

FlusherPublish ==
  /\ flusher = "publish"
  /\ synced_gen' = MaxOf(synced_gen, flusher_d)
  /\ flusher' = "tick"
  /\ UNCHANGED <<dirty_gen, sync_poisoned, sync_file, wal, engine, untrusted,
                 threads, flusher_d, devices, history>>

FlusherPoison ==
  /\ flusher = "poison"
  /\ sync_poisoned' = TRUE
  /\ flusher' = "exit"
  /\ UNCHANGED <<dirty_gen, synced_gen, sync_file, wal, engine, untrusted,
                 threads, flusher_d, devices, history>>

FlusherStep ==
  \/ FlusherTick
  \/ FlusherFsync
  \/ FlusherPublish
  \/ FlusherPoison

-----------------------------------------------------------------------------
\* The steps of a thread that has begun something; only BeginStatement waits
\* for a client.
ConnStep(c) ==
  \/ SyncUntil(c)
  \/ ReliefFlush(c)
  \/ ReliefFails(c)
  \/ \E kind \in {"part", "commit"} : FlushToOs(c, kind)
  \/ FlushRefused(c)
  \/ RegisterGen(c)
  \/ TakeTicket(c)
  \/ CheckpointFlush(c)
  \/ CheckpointFails(c)
  \/ TruncateLog(c)
  \/ ReplaceFile(c)
  \/ BeginRollback(c)
  \/ DiscardTail(c)
  \/ RawSync(c)
  \/ Reopen(c)
  \/ ReopenFails(c)

Next ==
  \/ \E c \in Conns : BeginStatement(c) \/ ConnStep(c)
  \/ FlusherStep

Spec == Init /\ [][Next]_vars

\* Threads and the flusher keep running; clients need not send statements.
FairSpec ==
  /\ Spec
  /\ \A c \in Conns : WF_vars(ConnStep(c))
  /\ WF_vars(FlusherStep)

-----------------------------------------------------------------------------
(* Properties.                                                             *)

ConnLabels ==
  {"idle", "exec", "register", "committed", "ticket", "check", "lock",
   "locked", "fsync", "publish", "poison", "relief", "cut", "settle",
   "discard", "resync", "reopen", "unflushed"}

\* Every variable stays in its type: counters within the bounds, locks held by
\* a connection or nobody, device sets within the generations.
TypeOK ==
  /\ dirty_gen \in 0 .. MaxGen /\ synced_gen \in 0 .. MaxGen
  /\ sync_poisoned \in BOOLEAN
  /\ sync_file \in Conns \union {NoConn}
  /\ deferred_gen \in 0 .. MaxGen
  /\ synced_len \in 0 .. MaxGen
  /\ tx_start_len \in 0 .. MaxGen
  /\ engine \in Conns \union {NoConn}
  /\ untrusted \in BOOLEAN
  /\ pc \in [Conns -> ConnLabels]
  /\ ret \in [Conns -> {"ack", "relief", "truncate", "part", "commit",
                        "discard", "pending"}]
  /\ gen \in [Conns -> 0 .. MaxGen]
  /\ cover \in [Conns -> 0 .. MaxGen]
  /\ flusher \in {"tick", "fsync", "publish", "poison", "exit"}
  /\ flusher_d \in 0 .. MaxGen
  /\ os \subseteq Gens /\ stable \subseteq Gens /\ lost \subseteq Gens
  /\ heap \subseteq Gens /\ heap_lost \subseteq Gens
  /\ committed \subseteq Gens /\ discarded \subseteq Gens /\ acked \subseteq Gens
  /\ bypass \in BOOLEAN
  /\ failures \in 0 .. MaxFsyncFailures
  /\ heap_failures \in 0 .. MaxHeapFailures
  /\ rollbacks \in 0 .. MaxRollbacks

\* Generation g survives a power loss now: its rows are in fsynced heap pages,
\* or the log is stable from its first record through g (replay stops at a
\* hole).
Durable(g) ==
  \/ g \in heap
  \/ g \in os /\ \A h \in os : h <= g => h \in stable

\* A commit the client was told about survives a power loss at any moment
\* (WalDurabilityTicket: "a commit must not be acknowledged until wait()
\* returns Ok").
AckedIsDurable == SyncMode = "Full" => \A g \in acked : Durable(g)

\* The same, for behaviours in which no fsync outside the poison latch (the
\* sync_data of the discard paths, and of the heap files) succeeded over
\* dropped pages, and none of the discard paths' caused any.
AckedIsDurableUnlessBypassed == ~bypass => AckedIsDurable

\* A rollback cuts only its own statement, and a checkpoint only what it has
\* flushed: until an fsync outside the poison latch has succeeded over dropped
\* pages, a committed generation stays in the log until fsynced heap pages
\* contain it.
CommittedIsKept == ~bypass => \A g \in committed : g \in os \union heap

\* A rolled-back generation never reaches the heap files.
DiscardedNeverInHeap == heap \intersect discarded = {}

\* The pressure path of begin_statement_transaction writes committed heap pages
\* only after their log records are stable (sync_before_heap_flush), until an
\* fsync outside the poison latch has met dropped pages.
ReliefFollowsLog ==
  [][\A c \in Conns :
       (pc[c] = "relief" /\ pc'[c] = "exec" /\ ~bypass)
         => \A g \in heap' \ heap : Durable(g)]_vars

\* Every ticket is answered, with Ok or an error: nobody waits for ever on the
\* leader lock, a leader, a checkpoint or a rollback.
TicketsAreAnswered ==
  \A c \in Conns : (pc[c] = "check" /\ ret[c] = "ack") ~> (pc[c] = "idle")

\* Normal mode: the background flusher makes every acknowledged commit durable,
\* unless an fsync outside the latch met dropped pages, or the log is
\* poisoned or the handle abandoned first.
NormalCommitsBecomeDurable ==
  \A g \in Gens :
    (g \in acked) ~> (Durable(g) \/ sync_poisoned \/ untrusted \/ bypass)
=============================================================================
