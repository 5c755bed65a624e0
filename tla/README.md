# PowDB in TLA+

This directory holds TLA+ models of PowDB, the TLC configurations that check
them on small instances, and TLAPS proofs about two of them. Paths such as
`storage/src/wal.rs` are below `crates/`. `PROJECT.json` lists the components,
the runs, the mutants, the findings, the hazards, the theorems and, for every
definition that models code, the lines it models.

1. [The system](#1-the-system)
2. [Modules](#2-modules)
3. [Runs](#3-runs)
4. [Fairness](#4-fairness)
5. [Proofs](#5-proofs)
6. [Disagreements with the documentation](#6-disagreements-with-the-documentation)
7. [What is left out](#7-what-is-left-out)
8. [Plan](#8-plan)

## 1. The system

PowDB is a single-writer database. It is used embedded or behind a server. One
`Catalog` owns the heap files, the indexes and the write-ahead log of a data
directory; one `Engine` (parser, planner, executor) owns the catalog; the server
keeps the engine behind an `RwLock` and puts a transaction gate in front of it.

| Part | State | Operations | What makes it hard |
|---|---|---|---|
| Write-ahead log (`storage/src/wal.rs`) | buffered records, file length, generations written and synced, the leader lock, the deferred claim, the poison latch | append, flush, `sync_until`, `take_durability_ticket`, `truncate`, `discard_and_truncate_to`, the flusher's loop | threads wait for an fsync after they release the engine lock, while other threads write, cut and swap the file; a failed fsync loses pages silently |
| Catalog and heap (`storage/src/catalog/mod.rs`, `heap.rs`, `page.rs`) | pages in memory and on disk with their LSNs, the log, the durable-LSN sidecar, the running transaction | begin, insert, update, patch, delete, bulk delete, commit, rollback, checkpoint, open and replay | a crash at any step, with any subset of the pages written; a second crash during replay; a rollback that reopens the whole catalog |
| Transaction gate (`server/src/handler/transaction.rs`, `query.rs`, `mod.rs`) | two fair semaphores, the `reader_bypass` flag, each connection's hold and deadline, the engine's transaction flags | autocommit admission, `begin`, the first-write upgrade, commit, rollback, cancellation, timeouts, disconnect, reap | no MVCC: a reader let in at the wrong moment sees uncommitted rows; a hold released at the wrong moment leaves a transaction without an owner |
| Retained history (`sync/src/segment.rs`, `checkpoint.rs`, `retention.rs`) | segment files, archive high-water mark | archive before truncation, read a contiguous tail, prune | crash or failure between archive and truncation; pruning against cursors that move |
| Replica cursors (`sync/src/metadata.rs`, `replica.rs`) | the cursor file and its lock file | register, acknowledge, retire, reclaim a stale lock | several processes, a lock that is a file |
| Replica apply (`sync/src/apply.rs`) | the apply-state file, the replica's pages | apply a tail or a chunk, reconcile after a crash | crash between the apply and the record that it is complete |
| Backup (`backup/src`) | full and incremental images, manifests | full, incremental, restore, verify | an increment trusts page LSNs |
| Directory lock (`storage/src/dir_lock.rs`) | the LOCK file, its kernel lock, reader files | acquire as writer or reader, back off, drop, reopen in the same process | create-then-recheck between processes |
| Materialized views (`storage/src/view.rs`) | a dirty flag per view, on disk and in memory | mark dirty, mark clean, transitive marking | the flag and the rows become durable at different times |
| Indexes, overflow chains, encodings (`storage/src/btree.rs`, `row.rs`, `pj1.rs`) | tree nodes, free lists, bytes | insert, delete, split, encode, decode | boundaries, not interleavings |
| Query (`query/src`) | plan cache, memory budget, cancel token | parse, plan, execute, substitute literals | sequential |
| Server process, protocol, auth, clients, CLI | connections, roles | listen, authenticate, frame, drain | mostly I/O |

How they interact. A write statement passes the gate, takes the engine write
lock, runs as a statement transaction of the catalog, appends Begin, row and
Commit records, takes a durability ticket instead of an fsync, may checkpoint,
releases the engine lock, and waits for its ticket. An explicit transaction
holds the gate from `begin`, takes the reader pool at its first write, and keeps
its dirty pages in memory until the end. A rollback of either kind cuts the log
at the transaction's start and reopens the catalog, which replays what is left.
With sync enabled, every truncation of the log first archives the committed
records into retained segments, which replicas pull, apply and acknowledge.

What should be true of it, in the order of importance:

1. an acknowledged commit survives a power loss (log);
2. what is recovered is a whole number of transactions: no row is lost,
   duplicated, revived, or kept from an aborted transaction (catalog);
3. nobody sees uncommitted rows of another connection (gate);
4. everybody who waits is answered (log, gate);
5. the history a replica reads has no gap, and the replica ends with the rows of
   the primary (sync);
6. a restored backup has the rows of its source (backup);
7. one writer at a time per directory (directory lock).

Points 1 to 4 are modelled; 5 to 7 are in the plan.

## 2. Modules

| Module | Models |
|---|---|
| `WalGroupCommit` | durability of commits through the log, as the server drives it |
| `WalGroupCommit_inv`, `WalGroupCommit_proofs` | its inductive invariant and theorems |
| `Recovery` | pages, log, crash, replay, rollback and checkpoint of the catalog |
| `DurableStore` | abstract: what the engine promises a client across crashes |
| `TxGate` | the gate, the connections and the engine's transaction flags |
| `TxGate_proofs` | its inductive invariant and theorems |
| `MCWalGroupCommit`, `MCRecovery`, `MCTxGate` | symmetry sets for TLC |

### WalGroupCommit

A *generation* is the batch of records of one `flush_to_os`, and a file length is
the number of the last generation below it. The atomics of `WalSyncShared`
(`dirty_gen`, `synced_gen`, `sync_poisoned`), the leader mutex `sync_file`, the
fields `deferred_gen` and `synced_len` of `Wal`, and `tx_start_len` of `Catalog`
are variables with the code's names. `pc[c]` is where a connection's thread is,
with a label wherever another thread can observe or change something: every
atomic load and store of `sync_until` that matters is a step of its own, as are
the two halves of `flush_to_os` and the four steps of a rollback.

The disk is three sets of generations: `os` (in the file as the operating system
shows it), `stable` (fsynced), and `lost` (dropped by a failed fsync and then
reported clean). `heap` is what fsynced heap pages contain, and `heap_lost` what
a failed fsync of the heap files dropped. `Durable(g)` says
that generation g would survive a power loss now: its rows are in the heap
files, or the log is stable from its start through g. A power loss needs no
action of its own: the invariant is about what it would leave.

`bypass` is a ghost that becomes true when an fsync outside the poison latch
passes over dropped pages: the `sync_data` of the two discard functions (which
sets it by dropping pages, too), the `sync_data` of the heap files, and in Normal
mode an fsync that races another one's failure. `AckedIsDurableUnlessBypassed`,
`CommittedIsKept` and `ReliefFollowsLog`, and the theorems about them, are about
behaviours in which it has not happened; `DiscardedNeverInHeap` needs no such
condition. Run `wal_latch_bypass`, and the last part of section 6, are about the
others.

`HeapFlush` and `HeapFlushFails` are `flush_checkpoint_state`. A page leaves the
dirty buffer when its write succeeds, so a failed write keeps it for the next
attempt, and a failed fsync after it may drop it for good. The three callers
treat the failure differently: the pressure path fails the statement before it
begins (`ReliefFails`), the automatic checkpoint is only logged and the statement
goes on to its ticket (`CheckpointFails`), and a rollback whose reopening fails
abandons the handle (`ReopenFails`). None of them cuts the log.

`Reopen` keeps the generation counters running although the reopened `Wal` has
new ones: old tickets hold the old `WalSyncShared`, in which every generation is
settled. In Normal mode it waits for the flusher to leave its fsync, as
`Flusher::drop` joins the thread.

### Recovery and DurableStore

One table, whose rows are identities with versions. A page is an LSN and a
sequence of slots; a slot holds a version of a row or a tombstone, and slots are
never reused, as in `Page::insert`. `mem` is the catalog's view (hot page, dirty
buffer, disk), `disk` the heap file. The log is a sequence of Begin, Insert,
Update, Delete and Commit records with LSNs, of which an fsync covers the first
`stable`.

Each logged row operation is an action with the record it writes and the page it
stamps, or does not: `Patch` (the byte-patching updates) and `DeleteMany` (bulk
deletes) leave the page LSN alone. `WritePage` writes one dirty page; a crash
between two of them leaves any subset on disk. `Crash` keeps any prefix of the
log that has every fsynced record, at any step, those of recovery included.
`Open`, `ReplayRecord`, `FinishReplay`, `TruncateReplayed` and `Reopen` are the
steps of `open_inner`; a rollback goes through the same steps.

The dirty-page budget is modelled as `park_hot_page` keeps it. `hot` is the hot
page while it is dirty; every other dirty page is in the buffer and is charged.
To make another page hot, the hot one has to be parked (`Parks`, `FitsBudget`).
When there is no room for it, a pinned catalog refuses the operation (`Refuse`,
`TransactionTooLarge`), after which the transaction can only roll back, and one
that is not pinned writes its whole buffer. `Begin` pins; commit, rollback and
reopening release. `begin_statement_transaction` relieves the buffer from
`PressurePages` on. A catalog that replays its log has the default budget
(`DefaultBudget`) and is not pinned, so replay writes pages in the middle of the
log (`Spill`), and a crash may follow. Two simplifications: what a refused
operation had already changed in memory is not kept, since nothing but the
rollback can follow it; and the landing page of a redone Update that moves its
row is not charged separately during replay.

`hist` records the rows after each commit, `acked` how many commits have been
promised, `forgotten` the rows after commits a crash dropped, `own` the pages the
running transaction has changed, and `statement` whether it is a statement's.

`WriteAhead` looks at the contents of the slots on disk, not at page LSNs, so it
covers the operations that do not stamp their page. `StatementHasRoom` is the
promise behind the pressure threshold: pages of earlier commits never make a
statement fail that stays within the other half of the budget. That an exhausted
budget refuses and never spills is `RecoveredIsCommitted` in `recovery_deferred`:
without the pin a rolled-back row is back after the reopening.

`DurableStore` knows no pages: a history of committed contents, a promised
prefix, and what a reader sees. A crash keeps a prefix of the history with every
promised commit, and recovery shows its last state. The refinement mapping of
`Recovery` takes `Scan(mem)` for the reader's view when the engine is idle, the
last commit while a transaction or a rollback has the engine lock, and `Down`
from a crash to the end of recovery.

### TxGate

The two semaphores are functions from connections to what they hold: nothing,
one permit or all of them. Permits are owned Rust values, so what is free is what
nobody holds. The main semaphore has its queue; the reader pool needs none,
because only the transaction's upgrade ever waits there. Points of `pc` are the
places of a frame where another task can run: the load of `reader_bypass`, the
try-acquire, the re-check, the queue, the three steps of the upgrade, the
statement itself, and the three steps of dropping a `TxGateHold` in its field
order.

A statement runs in one step, as it does under the engine lock, with every
outcome the code allows: success, a failure that marks the transaction aborted,
a cancellation, a poisoning (a `begin` whose record cannot be flushed included),
a read of a stale view that has to come back as a writer. `Undo` is the rollback of a cancelled, reaped or disconnected
transaction, whose result the code ignores. `RollbackCanFail` says whether a WAL
archive hook is installed that can fail. The ghosts are `owner` (whose `begin`
set `in_transaction`), `writers` (who has uncommitted rows) and `blamed` (whose
statement marked the transaction aborted).

## 3. Runs

State counts are distinct states.

| Run | Instance | Checks | Result |
|---|---|---|---|
| `wal_full` | Full mode, 3 connections, 3 generations, 1 failing fsync, 1 failing heap flush, failing `sync_data`, 1 rollback | `TypeOK`, `AckedIsDurableUnlessBypassed`, `CommittedIsKept`, `DiscardedNeverInHeap`, `ReliefFollowsLog` | holds, 380,082 |
| `wal_tickets` | Full mode, 2 connections, 2 generations, fair | `TicketsAreAnswered` | holds, 14,751 |
| `wal_normal` | Normal mode, 2 connections, 2 generations, fair | `NormalCommitsBecomeDurable` | holds, 38,317 |
| `wal_latch_bypass` | Full mode, as `wal_full` without failing heap flushes and `sync_data` | `AckedIsDurable` | violated |
| `recovery_full` | inline fsync, checkpoints, 2 crashes, all operations but bulk deletes, budget 2 (1 in replay) | `TypeOK`, `RecoveredIsCommitted`, `LsnsAreFresh` | holds, 612,990 |
| `recovery_deferred` | deferred fsync, no checkpoints, 1 crash, insert, update, bulk delete, budget 1 | `WriteAhead`, `RecoveredIsCommitted`, `StatementHasRoom`, `ImplementsDurableStore` | holds, 883,456 |
| `recovery_patch_revives` | byte patches with bulk deletes | `RecoveredIsCommitted` | violated |
| `recovery_torn_commit` | deferred fsync with checkpoints | `AllOrNothing` | violated |
| `gate_safety` | 3 connections, 2 permits, every kind of frame | `TypeOK`, `Isolation`, `DoorHasHolder`, `TransactionHasHolder` | holds, 170,208 |
| `gate_live` | 3 connections, 1 permit, begin, read and write, fair | `WaiterIsServed` | holds, 210,040 |
| `gate_foreign_abort` | 2 connections, 2 permits | `OnlyOwnFailuresAbort` | violated |
| `gate_archive_fails` | 2 connections, an archive hook that can fail | `TransactionHasHolder` | violated |

For every property that holds, `PROJECT.json` names a mutant: a definition of
the model changed the way a slip in the code would change it (the latch not
read, the boundary taken too early, the redo guard of a table instead of a page,
the upgrade that does not wait), under which TLC finds the property violated.
The mutants stand just before the definitions they replace.

**Why these bounds.** Three connections are the fewest with a leader, a follower
and a thread inside the engine; three generations give a commit that is waiting,
one that is being fsynced, and a statement that rolls back. One failing fsync is
enough because the latch is never cleared by anything but a reopen, and one
failing heap flush because it is the next, successful one that does the harm. In
`Recovery`, two pages of two slots let one page be written and the other not,
let a row relocate, and let a page fill; two row operations per transaction make
a transaction that can be torn; two commits give a stamped page with a later
record for it; the second crash of `recovery_full` falls inside the replay of the
first. A budget of one page is exhausted by a transaction that touches two, and
a default budget of one makes every replay over two pages spill. Three connections at the gate are a transaction, a reader beside it and a
waiter; two permits let two readers run together, and one permit (`gate_live`)
is the hardest case for a queue. Bounds appear as `Max...` constants in the
guards. The proofs have none for connections, permits, generations, failures
and rollbacks.

**Symmetry.** Connections are interchangeable in the safety runs. In `Recovery`
rows are, and pages are in the runs in which no redo chooses a landing page (only
an Update of a deleted slot does, which the two passing runs never meet). Both
passing runs give the same verdict with pages kept apart. The runs with fairness
use no symmetry.

**Deadlock** is checked for the gate. The log and recovery runs stop when the
bounded workload is used up, so it is not checked there; that nobody is stuck is
`TicketsAreAnswered`.

## 4. Fairness

`WalGroupCommit!FairSpec`: weak fairness of each thread's steps and of the
flusher's. They are OS threads whose critical sections contain no unbounded
wait, so each keeps running; a fsync returns, with success or an error. A client
need not send another statement: `BeginStatement` is not fair. The standard
library's mutex is not fair either, and none is assumed: a thread that waits for
the leader lock meets finitely many other holders because the number of
generations is bounded, so starvation by an endless stream of new commits is
outside this run.

`TxGate!FairSpec`: weak fairness of admission, upgrade, the statement, the
release, and the passage of time to the transaction's deadline with its reap.
The runtime polls a task that is ready, a statement ends at the latest when its
deadline cancels it, and tokio's semaphore is first come, first served, which
`queue` models. No client owes a frame, a commit or a disconnect, and no wait is
assumed to time out: `WaiterIsServed` would be empty if `WaitTimeout` were fair.

## 5. Proofs

TLAPS checks the theorems for every value of the constants that satisfies
`ConstantsAssumption` and `TxGateAssumption`: any set of connections, any
positive number of permits, any bounds.

### The log

`WalGroupCommit_inv` defines `IInv`, in named parts:

- `LockInv`: which labels hold the engine lock and the leader lock;
- `BoundInv`: no counter and no device set is ahead of the generations written,
  and a thread that fsyncs for generation g covers g;
- `TxInv`: the rollback boundary separates the running statement's generations
  from everything committed, discarded or in the heap files;
- `LogInv`: without a bypass, no generation is ever in none of log, heap and
  discarded, and the file is cut to its header only when the heap files have all
  of it;
- `SettledInv`: `synced_gen`, and every fsync about to be published, tell the
  truth: every generation up to it is durable or discarded;
- `RawInv`: after the `sync_data` of a rollback what is left of the log is
  stable;
- `LatchInv`: in Full mode, once pages of the log are dropped, the latch is set
  or the thread that met the failure is about to set it, so no leader fsyncs;
- `AckInv`: what a thread is about to acknowledge is committed, and durable when
  there is no ticket to wait for.

`AckedIsDurable` alone is not inductive: a step that acknowledges reads only
`synced_gen`, so the invariant has to say what `synced_gen` means (`SettledInv`),
why an fsync makes it true (`LatchInv`: no lost page below it) and why cutting
the file keeps it true (`LogInv`, `RawInv`). One lemma per action shows that the
action keeps `IInv`. The theorems are `IInvHolds`, `TypeCorrect`,
`AckedCommitsAreDurable`, `CommittedGenerationsAreKept`, `RolledBackStaysOut` and
the action property `ReliefIsWriteAhead`; all but `TypeCorrect` and
`RolledBackStaysOut` have the condition `~bypass` in what they prove, `IInvHolds`
in the parts that need it. Failing heap flushes need no part
of their own: `FlushFillsHeap` shows that a flush either writes everything or sets
`bypass`, and `FlushFailureDrops` that a failed one changes nothing but
`heap_lost`.

### The gate

`GateInv` in `TxGate_proofs`:

- `Typed`: the functions have their domains;
- `Holds(c)`: what a connection holds at each point of a frame;
- `Alone(pool)`: who holds all permits of a pool holds it alone;
- `Owned`: while the engine's transaction is live, its owner holds the gate and
  is not releasing it;
- `Hidden`: uncommitted rows are the owner's, and the owner has the whole reader
  pool;
- `Door`: when `reader_bypass` is set, some connection holds the whole gate, has
  none of the reader pool, and is at a point where the flag may be set.

Isolation follows from `Holds`, `Alone` and `Hidden`: an admitted statement has a
permit of one of the pools, and the owner of uncommitted rows has all of both.
The flag plays no part in that argument, nor does its re-check, without which
`Isolation` would still hold: it decides only who may try, and draining the pool
decides who is kept out. The lemmas
go by group of actions (`FrameKeeps`, `AdmitKeeps`, `UpgradeKeeps`,
`TimeoutKeeps`, `RunKeeps`, `ReleaseKeeps`). The theorems are `GateInvariant`,
`GateIsolates` and `DoorIsHeld`, which hold with a failing archive hook too, and
`TransactionIsHeld`, which assumes none (run `gate_archive_fails` shows why).

### What is only model-checked

Everything about `Recovery`, the refinement of `DurableStore` included; the
liveness properties, which need fairness and ENABLED, out of the prover's reach;
the queue part of `TxGate!TypeOK`, which counts waiters and their places.

## 6. Disagreements with the documentation

Each is a run whose property TLC violates; `PROJECT.json` quotes the comment or
the documentation it contradicts.

- `wal_latch_bypass`: a rollback that passed `ensure_usable` issues its own
  `sync_data` after a leader's fsync has failed, and settles every generation;
  a waiting commit is answered Ok although its bytes may be gone.
- `recovery_torn_commit`: a checkpoint after a deferred commit writes heap pages
  before the commit's log records are synced; a power loss in between keeps part
  of the transaction. The pressure path syncs first, and is right
  (`ReliefFollowsLog`, `WriteAhead`).
- `recovery_patch_revives`: neither a byte patch nor a bulk delete stamps its
  page; replay over a page that has both redoes the Update over a tombstone, and
  a deleted row is back in a new slot.
- `gate_foreign_abort`: a read that runs beside another connection's transaction
  and fails marks that transaction aborted.
- `gate_archive_fails`: a rollback that fails in the archive hook leaves the
  engine's transaction open after its owner has released the gate.

`AckedIsDurable` has a second kind of counterexample, without a race, which
`WalBypass.cfg` shows when its failures are changed to `MaxFsyncFailures = 0`,
`MaxHeapFailures = 1` and `MaxRollbacks = 0` (17 states). The heap fsync of an
automatic checkpoint fails after the pages have left the dirty buffer
(`heap.rs:814`), the error is only logged, and the next checkpoint, which has
nothing to write for them, syncs successfully and cuts the log: an acknowledged
commit is in neither. The comment at `catalog/mod.rs:1727` says of that failure
that the WAL is intact and the next checkpoint retries it.

## 7. What is left out

In the modelled parts: Off mode and changes of the sync mode at run time; errors
of writing or truncating the log file, as opposed to syncing it; in `Recovery`,
errors of writing and syncing heap files (`WalGroupCommit` has them); torn 4 KiB page writes, which the page checksum
turns into a refusal to open; overflow chains, index files and DDL records;
legacy logs without Begin and Commit; the before-images of Off mode; the limit on
connections, the time budgets of replies and the drain at shutdown.

Not modelled, with the reason: parsing, planning and evaluation, and the row,
page, JSON and wire encodings, which are sequential computation over unbounded
inputs that the repository's round-trip and differential tests exercise;
authentication and TLS; the command line, the clients, the bindings; the oracle,
comparison and benchmark tools. `PROJECT.json` has one entry for each.

## 8. Plan

In this order:

1. **RetainedHistory** and **CursorLock**: archive, truncation, contiguity walk,
   pull, acknowledge and prune, with crashes and failed truncations; then the
   lock file with several processes. Abstract specification: a history without
   gaps from every active cursor to the end. Properties: an active cursor's
   tail is always available; an acknowledged LSN never goes back; one process in
   the critical section.
2. **ReplicaApply**, composed with RetainedHistory: the rows of the replica are
   those of a prefix of the primary's commits, across crashes between the apply
   and the apply state.
3. **Backup**, over the pages and LSNs of Recovery: a restored chain has the rows
   of its source.
4. **DirLock**: never two writers, nor a writer and a reader, and not both
   refused for ever.
5. **Views**: a clean flag on disk implies that the durable rows are current.
6. Recovery with overflow chains and DDL records.
7. Algorithms against reference definitions: the torn-tail scan of the log, the
   transaction-complete chunks of `V1ApplyBoundary`, the B-tree's splits and
   merges, the literal slots of the plan cache.

Proofs to come: for Recovery, `LsnsAreFresh`, `WriteAhead` and
`StatementHasRoom` (each an invariant over pages and log records without
recursion); for CursorLock and DirLock mutual exclusion; for RetainedHistory that
pruning keeps what an active cursor needs; and that Recovery's steps other than
replay map to steps of DurableStore.
