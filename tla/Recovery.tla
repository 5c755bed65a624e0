------------------------------ MODULE Recovery ------------------------------
(***************************************************************************)
(* Crash recovery of PowDB (crates/storage/src/catalog/mod.rs, heap.rs and *)
(* page.rs): heap pages that carry the LSN of the last stamped change, a   *)
(* log of row records between Begin and Commit, dirty pages that reach the *)
(* disk only outside a transaction, and ARIES-style redo that skips a      *)
(* record whose page already has its LSN.                                  *)
(*                                                                         *)
(* The engine runs one transaction at a time (&mut Catalog).  Rows are     *)
(* identities with a version; a slot holds a version of a row or a         *)
(* tombstone.  Page bytes are abstracted to slots: a page takes            *)
(* SlotsPerPage slots and tombstones are never reused, as in Page::insert. *)
(* Which pages of a flush have reached the disk when the machine stops is  *)
(* arbitrary, so a flush writes its dirty pages one at a time in any order.*)
(* One dirty page is hot and the others wait in the dirty buffer, whose    *)
(* size a budget limits: outside a transaction a full buffer is written    *)
(* out, inside one the operation that needs room is refused.               *)
(* Fsync failures are the subject of WalGroupCommit and are left out here. *)
(***************************************************************************)
EXTENDS Integers, Sequences, FiniteSets

CONSTANTS
  Pages, SlotsPerPage,  \* the heap file
  Rows,                 \* row identities
  MaxVersion,           \* bound: versions of a row
  RowOps,               \* which logged row operations the workload uses
  Budget,               \* DirtyPageBudget: pages the dirty buffer may hold
  DefaultBudget,        \* the budget of a catalog while it is being opened
  Deferred,             \* commits defer their fsync to a durability ticket
  Checkpoints,          \* the engine checkpoints (by size, or when closed)
  MaxOps,               \* bound: row operations of one transaction
  MaxCommits,           \* bound: transactions that commit
  MaxCrashes            \* bound: crashes

AllOps == {"insert", "update", "relocate", "patch", "delete", "delete_many"}

ASSUME RecoveryAssumption ==
  /\ RowOps \subseteq AllOps
  /\ Deferred \in BOOLEAN /\ Checkpoints \in BOOLEAN
  /\ Budget \in Nat /\ DefaultBudget \in Nat
  /\ SlotsPerPage \in Nat \ {0} /\ MaxVersion \in Nat \ {0}
  /\ MaxOps \in Nat /\ MaxCommits \in Nat /\ MaxCrashes \in Nat

VARIABLES
  mem,          \* pages as the engine sees them: hot page, dirty buffer, disk
  disk,         \* pages of the heap file
  hot,          \* HeapFile::hot_page while it is dirty
  pinned,       \* DirtyPageBudget::rollback_pinned
  log,          \* log records, buffered ones included
  stable,       \* how many of them an fsync covers
  next_lsn,     \* Wal::next_lsn
  durable_lsn,  \* the durable-LSN sidecar file
  next_tx_id,   \* Catalog::next_tx_id
  tx_start,     \* Catalog::tx_start_len, in records
  pc,           \* what the engine is doing
  cursor,       \* replay_records: the next record
  up,           \* FALSE from a crash to the end of the next recovery
  tab,          \* rows as the running transaction has left them
  hist,         \* [tab, at]: rows after each commit, and its Commit record
  acked,        \* how many of hist an fsync has covered
  statement,    \* the running transaction is that of one statement
  own,          \* pages the running transaction has changed
  forgotten,    \* rows after commits whose record a crash dropped
  crashes       \* counter for the bound

heap   == <<mem, disk, hot, pinned>>
lsns   == <<next_lsn, durable_lsn>>
txs    == <<next_tx_id, tx_start>>
run    == <<statement, own>>
ghosts == <<tab, hist, acked, forgotten, crashes, run>>
vars   == <<heap, log, stable, lsns, txs, pc, cursor, up, ghosts>>

Absent == 0                                  \* a row that is not there
Dead   == [row |-> "none", ver |-> Absent]   \* DELETED_MARKER
Cell(r, v) == [row |-> r, ver |-> v]
Blank  == [lsn |-> 0, slots |-> <<>>]

NoPage == 0                                  \* no page is hot

MaxOf(a, b) == IF a >= b THEN a ELSE b
NoRows == [r \in Rows |-> Absent]
Current == hist[Len(hist)].tab

Init ==
  /\ mem = [p \in Pages |-> Blank] /\ disk = mem
  /\ hot = NoPage /\ pinned = FALSE
  /\ log = <<>> /\ stable = 0
  /\ next_lsn = 1 /\ durable_lsn = 0
  /\ next_tx_id = 1 /\ tx_start = 0
  /\ pc = "idle" /\ cursor = 1 /\ up = TRUE
  /\ tab = NoRows /\ hist = <<[tab |-> NoRows, at |-> 0]>> /\ acked = 1
  /\ forgotten = {} /\ crashes = 0 /\ statement = FALSE /\ own = {}

-----------------------------------------------------------------------------
(* Pages.  A page operation returns the changed pages of heap m.           *)

HasSlot(m, p, s) == s <= Len(m[p].slots)

\* Mutant: the free-space test is off by one.
HasRoomOffByOne(m, p) == Len(m[p].slots) <= SlotsPerPage

HasRoom(m, p) == Len(m[p].slots) < SlotsPerPage
IsLive(m, p, s) == HasSlot(m, p, s) /\ m[p].slots[s] # Dead

\* Page::insert appends a slot.
PageInsert(m, p, cell) == [m EXCEPT ![p].slots = Append(@, cell)]

\* Page::delete leaves a tombstone, and is a no-op past the directory.
PageDelete(m, p, s) ==
  IF HasSlot(m, p, s) THEN [m EXCEPT ![p].slots[s] = Dead] ELSE m

\* Page::insert_at_slot: an existing slot is left alone, a gap is bridged
\* with tombstones.
PageInsertAt(m, p, s, cell) ==
  IF HasSlot(m, p, s) THEN m
  ELSE [m EXCEPT ![p].slots =
          [i \in 1 .. s |-> CASE i <= Len(@) -> @[i]
                              [] i = s       -> cell
                              [] OTHER       -> Dead]]

\* HeapFile::set_page_lsn never lowers a page's LSN.
Stamp(m, p, lsn) == [m EXCEPT ![p].lsn = MaxOf(@, lsn)]

\* HeapFile::insert tries the hot page, then the free list.
LandingPage(m, p) ==
  IF HasRoom(m, p) THEN p ELSE CHOOSE q \in Pages : HasRoom(m, q)

\* HeapFile::update: a slot that is gone makes Page::update fail, and the
\* row is deleted and inserted again wherever there is room.
HeapUpdateLands(m, p, s) == IF IsLive(m, p, s) THEN p ELSE LandingPage(m, p)
HeapUpdate(m, p, s, cell) ==
  IF IsLive(m, p, s) THEN [m EXCEPT ![p].slots[s] = cell]
  ELSE PageInsert(PageDelete(m, p, s), LandingPage(m, p), cell)

Dirty == {p \in Pages : mem[p] # disk[p]}

\* Pages parked in the dirty buffer, which are the ones charged to the budget.
Buffered == Dirty \ {hot}

\* park_hot_page and try_charge_page: with d dirty and h hot, page p can
\* become hot if h is p or clean, or if the buffer has room for h.  The page
\* that p replaces is charged before p is taken out of the buffer.
Parks(d, h, p, limit) ==
  h = p \/ h \notin d \/ Cardinality(d \ {h}) < limit

\* An operation on page p that may go on to q, and then stamps both.
FitsBudget(p, q) ==
  /\ Parks(Dirty, hot, p, Budget)
  /\ p # q => /\ Parks(Dirty \cup {p}, p, q, Budget)
              /\ Parks(Dirty \cup {p, q}, q, p, Budget)

-----------------------------------------------------------------------------
(* A transaction, from BEGIN to its commit.                                *)

Record(kind, lsn, p, s, cell) ==
  [kind |-> kind, tx |-> next_tx_id - 1, lsn |-> lsn,
   page |-> p, slot |-> s, cell |-> cell]
Marker(kind, id, lsn) ==
  [kind |-> kind, tx |-> id, lsn |-> lsn, page |-> 0, slot |-> 0,
   cell |-> Dead]

\* Mutant: a transaction does not pin its pages.
NoPin == FALSE

\* set_rollback_pinned(true): from here until COMMIT or ROLLBACK the dirty
\* pages are the only copy of the transaction's state.
Pin == TRUE

Begin ==
  /\ Len(hist) <= MaxCommits
  /\ log' = Append(log, Marker("Begin", next_tx_id, next_lsn))
  /\ next_lsn' = next_lsn + 1
  /\ next_tx_id' = next_tx_id + 1
  /\ tx_start' = Len(log)
  /\ pc' = "tx" /\ pinned' = Pin /\ own' = {}
  /\ UNCHANGED <<mem, disk, hot, durable_lsn, cursor, up, tab, hist, forgotten,
                 crashes>>

\* Catalog::begin_transaction flushes its Begin record.
BeginTransaction ==
  /\ pc = "idle" /\ Begin /\ statement' = FALSE
  /\ IF Deferred THEN UNCHANGED <<stable, acked>>
     ELSE stable' = Len(log') /\ acked' = Len(hist)

\* Mutant: the buffer must be over the threshold, not at it.
PressureOffByOne == Cardinality(Buffered) > MaxOf(Budget \div 2, 1)

\* begin_statement_transaction: half of the budget is taken.
PressurePages == MaxOf(Budget \div 2, 1)
Pressure == Cardinality(Buffered) >= PressurePages

\* Mutant: pages are written without syncing the log first.
ReliefWithoutSync ==
  /\ pc = "idle" /\ Pressure /\ Len(hist) <= MaxCommits
  /\ pc' = "relief"
  /\ UNCHANGED <<heap, log, stable, lsns, txs, cursor, up, ghosts>>

\* begin_statement_transaction under dirty-page pressure: the log is synced,
\* then every dirty page is written, and the log is kept.
ReliefSync ==
  /\ pc = "idle" /\ Pressure /\ Len(hist) <= MaxCommits
  /\ stable' = Len(log) /\ acked' = Len(hist)
  /\ pc' = "relief"
  /\ UNCHANGED <<heap, log, lsns, txs, cursor, up, tab, hist, forgotten,
                 crashes, run>>

\* begin_statement_transaction once there is no pressure left.
BeginStatement ==
  /\ \/ pc = "idle" /\ ~Pressure
     \/ pc = "relief" /\ Dirty = {}
  /\ Begin /\ statement' = TRUE
  /\ UNCHANGED <<stable, acked>>

\* The whole dirty buffer is written to make room, unless it is pinned.
RoomFor(p, q) == pinned => FitsBudget(p, q)

\* The operation appends its records and leaves heap m and rows t.
Perform(p, q, recs, m, t) ==
  /\ RoomFor(p, q)
  /\ disk' = IF FitsBudget(p, q) THEN disk ELSE mem
  /\ log' = log \o recs
  /\ next_lsn' = next_lsn + Len(recs)
  /\ mem' = m /\ hot' = q
  /\ tab' = t /\ own' = own \cup {p, q}
  /\ UNCHANGED pc

\* TransactionTooLarge: the operation fails, and with it the statement, whose
\* transaction can then only roll back.  Some operations log before they ask
\* for the page and some after it; what a half-done operation has changed in
\* memory is discarded with the rest.
Refuse(p, q, recs) ==
  /\ ~RoomFor(p, q)
  /\ \E n \in 0 .. Len(recs) : /\ log' = log \o SubSeq(recs, 1, n)
                               /\ next_lsn' = next_lsn + n
  /\ own' = IF p = q THEN own ELSE own \cup {p, q}
  /\ pc' = "refused"
  /\ UNCHANGED <<mem, disk, hot, tab>>

\* A row operation of the running transaction on page p, and on q if the row
\* moves.
RowStep(op, p, q, recs, m, t) ==
  /\ pc = "tx" /\ op \in RowOps
  /\ Len(log) < tx_start + 1 + MaxOps
  /\ Perform(p, q, recs, m, t) \/ Refuse(p, q, recs)
  /\ UNCHANGED <<pinned, stable, durable_lsn, txs, cursor, up, hist, acked,
                 forgotten, crashes, statement>>

\* Catalog::insert: the row goes to the heap first, so that the record has
\* its RowId; the landing page is stamped.
Insert(r, p) ==
  LET s == Len(mem[p].slots) + 1
      c == Cell(r, 1)
  IN /\ tab[r] = Absent /\ HasRoom(mem, p)
     /\ RowStep("insert", p, p, <<Record("Insert", next_lsn, p, s, c)>>,
                Stamp(PageInsert(mem, p, c), p, next_lsn),
                [tab EXCEPT ![r] = 1])

\* The live slot of row r.
At(r, p, s) == IsLive(mem, p, s) /\ mem[p].slots[s].row = r

Updatable(r) == tab[r] # Absent /\ tab[r] < MaxVersion

\* Catalog::update_logged, the row still fits its page.
Update(r, p, s) ==
  LET c == Cell(r, tab[r] + 1)
  IN /\ Updatable(r) /\ At(r, p, s)
     /\ RowStep("update", p, p, <<Record("Update", next_lsn, p, s, c)>>,
                Stamp(HeapUpdate(mem, p, s, c), p, next_lsn),
                [tab EXCEPT ![r] = @ + 1])

\* Catalog::update_logged, the row moves to page q: a Delete and an Insert,
\* both pages stamped.
UpdateRelocates(r, p, s, q) ==
  LET c == Cell(r, tab[r] + 1)
      n == Len(mem[q].slots) + 1
  IN /\ Updatable(r) /\ At(r, p, s) /\ HasRoom(mem, q)
     /\ RowStep("relocate", p, q,
                <<Record("Delete", next_lsn, p, s, Dead),
                  Record("Insert", next_lsn + 1, q, n, c)>>,
                Stamp(Stamp(PageInsert(PageDelete(mem, p, s), q, c),
                            p, next_lsn), q, next_lsn + 1),
                [tab EXCEPT ![r] = @ + 1])

\* The byte-patching updates (update_row_bytes_logged_by_slot,
\* scan_patch_matching_logged, patch_var_col_logged) log an Update record and
\* do not stamp the page.
Patch(r, p, s) ==
  LET c == Cell(r, tab[r] + 1)
  IN /\ Updatable(r) /\ At(r, p, s)
     /\ RowStep("patch", p, p, <<Record("Update", next_lsn, p, s, c)>>,
                [mem EXCEPT ![p].slots[s] = c],
                [tab EXCEPT ![r] = @ + 1])

\* Catalog::delete stamps the page.
Delete(r, p, s) ==
  /\ At(r, p, s)
  /\ RowStep("delete", p, p, <<Record("Delete", next_lsn, p, s, Dead)>>,
             Stamp(PageDelete(mem, p, s), p, next_lsn),
             [tab EXCEPT ![r] = Absent])

\* delete_many and scan_delete_matching_logged do not.
DeleteMany(r, p, s) ==
  /\ At(r, p, s)
  /\ RowStep("delete_many", p, p, <<Record("Delete", next_lsn, p, s, Dead)>>,
             PageDelete(mem, p, s), [tab EXCEPT ![r] = Absent])

RowOp ==
  \E r \in Rows, p \in Pages :
    \/ Insert(r, p)
    \/ \E s \in 1 .. SlotsPerPage :
         \/ Update(r, p, s) \/ Patch(r, p, s)
         \/ Delete(r, p, s) \/ DeleteMany(r, p, s)
         \/ \E q \in Pages : UpdateRelocates(r, p, s, q)

\* commit_transaction, then commit_autocommit: the Commit record is flushed,
\* with an fsync unless that is deferred, and a large log is checkpointed.
Commit ==
  /\ pc = "tx"
  /\ log' = Append(log, Marker("Commit", next_tx_id - 1, next_lsn))
  /\ next_lsn' = next_lsn + 1
  /\ hist' = Append(hist, [tab |-> tab, at |-> Len(log')])
  /\ IF Deferred THEN UNCHANGED <<stable, acked>>
     ELSE stable' = Len(log') /\ acked' = Len(hist')
  /\ pc' \in IF Checkpoints THEN {"idle", "checkpoint"} ELSE {"idle"}
  /\ tx_start' = 0 /\ pinned' = FALSE /\ statement' = FALSE /\ own' = {}
  /\ UNCHANGED <<mem, disk, hot, durable_lsn, next_tx_id, cursor, up, tab,
                 forgotten, crashes>>

\* A durability ticket is settled by some leader, or the flusher ticks.
LogFsync ==
  /\ pc # "down" /\ Deferred
  /\ \E n \in stable .. Len(log) :
       /\ n >= hist[Len(hist)].at /\ stable' = n
       /\ stable < n
  /\ acked' = Len(hist)
  /\ UNCHANGED <<heap, log, lsns, txs, pc, cursor, up, tab, hist, forgotten,
                 crashes, run>>

-----------------------------------------------------------------------------
(* Pages and checkpoints.                                                  *)

\* flush_all_dirty: relief, a checkpoint, the end of replay, and park_hot_page
\* when the buffer of a catalog that replays its log is full.
Flushing ==
  \/ pc \in {"relief", "checkpoint", "spill"}
  \/ pc = "replay" /\ cursor = Len(log) + 1

WritePage(p) ==
  /\ Flushing /\ p \in Dirty
  /\ disk' = [disk EXCEPT ![p] = mem[p]]
  /\ hot' = IF hot = p THEN NoPage ELSE hot
  /\ UNCHANGED <<mem, pinned, log, stable, lsns, txs, pc, cursor, up, ghosts>>

\* checkpoint by a caller, or when the catalog is closed.
StartCheckpoint ==
  /\ Checkpoints /\ pc = "idle" /\ log # <<>>
  /\ pc' = "checkpoint"
  /\ UNCHANGED <<heap, log, stable, lsns, txs, cursor, up, ghosts>>

\* record_durable_lsn_at_least comes before the truncation.
RecordDurableLsn ==
  /\ pc = "checkpoint" /\ Dirty = {}
  /\ durable_lsn' = MaxOf(durable_lsn, next_lsn - 1)
  /\ pc' = "truncate"
  /\ UNCHANGED <<heap, log, stable, next_lsn, txs, cursor, up, ghosts>>

\* Wal::truncate syncs what is deferred before it cuts the file.
CutLog ==
  /\ log' = <<>> /\ stable' = 0
  /\ hist' = [i \in DOMAIN hist |-> [hist[i] EXCEPT !.at = 0]]
  /\ acked' = Len(hist)

Truncate ==
  /\ pc = "truncate" /\ CutLog
  /\ pc' = "idle"
  /\ UNCHANGED <<heap, lsns, txs, cursor, up, tab, forgotten, crashes, run>>

-----------------------------------------------------------------------------
(* Opening the catalog: after a crash, and to roll a transaction back.     *)

\* Power loss, or the process is killed: records past the last fsync may or
\* may not be there, a torn one ends the log.
CrashKeeps == stable .. Len(log)

Crash ==
  /\ crashes < MaxCrashes /\ ~(pc = "down" /\ ~up)
  /\ crashes' = crashes + 1
  /\ \E n \in CrashKeeps :
       /\ log' = SubSeq(log, 1, n)
       /\ stable' = n
       /\ hist' = SelectSeq(hist, LAMBDA h : h.at <= n)
       /\ forgotten' = forgotten \cup
            {hist[i].tab : i \in {j \in DOMAIN hist : hist[j].at > n}}
  /\ pc' = "down" /\ up' = FALSE
  /\ tab' = hist'[Len(hist')].tab
  /\ UNCHANGED <<heap, lsns, txs, cursor, acked, run>>

\* rollback_to_last_sync_inner: cut the log at the transaction's start,
\* discard the dirty pages, and open the catalog again.
RollbackBoundary == tx_start

Rollback ==
  /\ pc \in {"tx", "refused"}
  /\ log' = SubSeq(log, 1, RollbackBoundary)
  /\ stable' = Len(log')
  /\ acked' = Len(hist)
  /\ tab' = Current
  /\ pc' = "down"
  /\ UNCHANGED <<heap, lsns, txs, cursor, up, hist, forgotten, crashes, run>>

\* open_inner: pages come from the disk, the budget is a fresh one, and
\* Wal::open counts from 1 again.
Open ==
  /\ pc = "down"
  /\ mem' = disk /\ hot' = NoPage /\ pinned' = FALSE
  /\ statement' = FALSE /\ own' = {}
  /\ next_lsn' = 1 /\ next_tx_id' = 1 /\ tx_start' = 0
  /\ cursor' = 1
  /\ pc' = IF log = <<>> THEN "reopen" ELSE "replay"
  /\ UNCHANGED <<disk, log, stable, durable_lsn, up, tab, hist, acked,
                 forgotten, crashes>>

\* Mutant: records of transactions without a Commit are redone too.
AnyRecordCounts(i) == i \in DOMAIN log

\* replay_records, first pass: a row record counts when the span it belongs
\* to, the last one its tx id opened, ends with a Commit.
IsCommitted(i) ==
  \E j \in i + 1 .. Len(log) :
    /\ log[j].kind = "Commit" /\ log[j].tx = log[i].tx
    /\ \A k \in i + 1 .. j - 1 :
         log[k].tx = log[i].tx => log[k].kind # "Begin"

\* Mutant: the guard compares with the newest page of the table.
AppliedByTableMax(rec) == \E p \in Pages : mem[p].lsn >= rec.lsn

\* The per-page guard of the second pass.
AlreadyApplied(rec) == mem[rec.page].lsn >= rec.lsn

Redo(rec) ==
  CASE rec.kind = "Insert" ->
         Stamp(PageInsertAt(mem, rec.page, rec.slot, rec.cell),
               rec.page, rec.lsn)
    [] rec.kind = "Delete" ->
         Stamp(PageDelete(mem, rec.page, rec.slot), rec.page, rec.lsn)
    [] rec.kind = "Update" ->
         Stamp(Stamp(HeapUpdate(mem, rec.page, rec.slot, rec.cell),
                     rec.page, rec.lsn),
               HeapUpdateLands(mem, rec.page, rec.slot), rec.lsn)

Redone(i) ==
  /\ log[i].kind \notin {"Begin", "Commit"}
  /\ IsCommitted(i) /\ ~AlreadyApplied(log[i])

Lands(rec) ==
  IF rec.kind = "Update" THEN HeapUpdateLands(mem, rec.page, rec.slot)
  ELSE rec.page

ReplayHasRoom == Parks(Dirty, hot, log[cursor].page, DefaultBudget)

ReplayRecord ==
  /\ pc = "replay" /\ cursor <= Len(log)
  /\ IF Redone(cursor)
     THEN /\ ReplayHasRoom
          /\ mem' = Redo(log[cursor]) /\ hot' = Lands(log[cursor])
     ELSE UNCHANGED <<mem, hot>>
  /\ cursor' = cursor + 1
  /\ UNCHANGED <<disk, pinned, log, stable, lsns, txs, pc, up, ghosts>>

\* park_hot_page finds the buffer full and nothing pinned: every dirty page is
\* written before the record is redone.
Spill ==
  /\ pc = "replay" /\ cursor <= Len(log)
  /\ Redone(cursor) /\ ~ReplayHasRoom
  /\ pc' = "spill"
  /\ UNCHANGED <<heap, log, stable, lsns, txs, cursor, up, ghosts>>

Spilled ==
  /\ pc = "spill" /\ Dirty = {}
  /\ pc' = "replay"
  /\ UNCHANGED <<heap, log, stable, lsns, txs, cursor, up, ghosts>>

MaxRecordLsn == log[Len(log)].lsn

\* The end of replay_records: every page is on disk before the sidecar and
\* the LSN counter move.
FinishReplay ==
  /\ pc = "replay" /\ cursor = Len(log) + 1 /\ Dirty = {}
  /\ durable_lsn' = MaxOf(durable_lsn, MaxRecordLsn)
  /\ next_lsn' = MaxOf(next_lsn, MaxRecordLsn + 1)
  /\ pc' = "settle"
  /\ UNCHANGED <<heap, log, stable, txs, cursor, up, ghosts>>

\* replay_wal truncates the log.
TruncateReplayed ==
  /\ pc = "settle" /\ CutLog
  /\ pc' = "reopen"
  /\ UNCHANGED <<heap, lsns, txs, cursor, up, tab, forgotten, crashes, run>>

\* The end of open_inner: LSNs continue above every page and the sidecar.
MaxPageLsn(m) == CHOOSE n \in {m[p].lsn : p \in Pages} :
                   \A p \in Pages : m[p].lsn <= n

\* Mutant: the sidecar is not consulted.
MaxKnownLsnNoSidecar == MaxPageLsn(mem)

MaxKnownLsn == MaxOf(MaxPageLsn(mem), durable_lsn)

Reopen ==
  /\ pc = "reopen"
  /\ next_lsn' = MaxOf(next_lsn, MaxKnownLsn + 1)
  /\ pc' = "idle" /\ up' = TRUE
  /\ UNCHANGED <<heap, log, stable, durable_lsn, txs, cursor, ghosts>>

Next ==
  \/ BeginTransaction \/ ReliefSync \/ BeginStatement
  \/ RowOp \/ Commit \/ LogFsync
  \/ \E p \in Pages : WritePage(p)
  \/ StartCheckpoint \/ RecordDurableLsn \/ Truncate
  \/ Crash \/ Rollback \/ Open
  \/ ReplayRecord \/ Spill \/ Spilled \/ FinishReplay \/ TruncateReplayed \/ Reopen

Spec == Init /\ [][Next]_vars

-----------------------------------------------------------------------------
(* Properties.                                                             *)

Slots == 1 .. SlotsPerPage
Cells == {Dead} \cup [row : Rows, ver : 1 .. MaxVersion]
Tables == [Rows -> 0 .. MaxVersion]
PageType ==
  [lsn : Nat, slots : UNION {[1 .. n -> Cells] : n \in 0 .. SlotsPerPage}]
Kinds == {"Begin", "Commit", "Insert", "Update", "Delete"}
Labels == {"idle", "tx", "relief", "checkpoint", "truncate", "down", "replay",
           "settle", "reopen", "refused", "spill"}

\* Pages hold at most SlotsPerPage slots, counters are natural numbers, the
\* replay cursor stays within the log, the hot page is a dirty one and the
\* engine is at a step of the code.
TypeOK ==
  /\ mem \in [Pages -> PageType] /\ disk \in [Pages -> PageType]
  /\ pc # "down" => hot \in Dirty \cup {NoPage}
  /\ pinned \in BOOLEAN /\ statement \in BOOLEAN /\ own \subseteq Pages
  /\ \A i \in DOMAIN log : log[i].kind \in Kinds /\ log[i].lsn \in Nat
  /\ stable \in 0 .. Len(log) /\ tx_start \in 0 .. Len(log)
  /\ next_lsn \in Nat \ {0} /\ durable_lsn \in Nat /\ next_tx_id \in Nat
  /\ pc \in Labels /\ up \in BOOLEAN
  /\ pc = "replay" => cursor \in 1 .. Len(log) + 1
  /\ tab \in Tables /\ acked \in 1 .. Len(hist)

\* The slots of heap m that hold row r, and what a scan of m returns.
Copies(m, r) == {rid \in Pages \X Slots : /\ IsLive(m, rid[1], rid[2])
                                         /\ m[rid[1]].slots[rid[2]].row = r}
Duplicated == MaxVersion + 1
Scan(m) ==
  [r \in Rows |->
     IF Copies(m, r) = {} THEN Absent
     ELSE IF Cardinality(Copies(m, r)) > 1 THEN Duplicated
     ELSE LET rid == CHOOSE x \in Copies(m, r) : TRUE
          IN m[rid[1]].slots[rid[2]].ver]

\* Whenever the engine is open and idle, a scan returns exactly the rows of
\* the last commit the log kept: replay neither loses, duplicates nor revives
\* a row, whichever pages had reached the disk when the crash came, and a
\* rollback returns to the state before its transaction
\* (Catalog::replay_records, rollback_to_last_sync_inner).
RecoveredIsCommitted == pc = "idle" => Scan(mem) = Current

\* While the engine is open the next LSN is above every page, every record
\* and the sidecar, and records are in LSN order.  Otherwise the redo guard of
\* a later recovery would skip a record that no page has (open_inner).
LsnsAreFresh ==
  /\ pc \in {"idle", "tx", "relief", "checkpoint", "truncate"} =>
       /\ \A p \in Pages : mem[p].lsn < next_lsn /\ disk[p].lsn < next_lsn
       /\ \A i \in DOMAIN log : log[i].lsn < next_lsn
       /\ durable_lsn < next_lsn
  /\ \A i, j \in DOMAIN log : i < j => log[i].lsn < log[j].lsn

\* A statement is refused for want of room only when it has itself changed
\* more pages than the half of the budget that begin_statement_transaction
\* keeps free: pages of earlier commits, the hot one included, never cost a
\* small statement its room (TransactionTooLarge in park_hot_page).
StatementHasRoom ==
  pc = "refused" /\ statement => Cardinality(own) > Budget - PressurePages

\* The effect of a log record shows on disk.  A slot is filled once, its
\* versions grow and its tombstone stays, so the slot tells, whether or not
\* the operation stamped the page.
OnDisk(rec) ==
  /\ rec.kind \in {"Insert", "Update", "Delete"}
  /\ HasSlot(disk, rec.page, rec.slot)
  /\ LET cell == disk[rec.page].slots[rec.slot]
     IN \/ rec.kind = "Insert" \/ cell = Dead
        \/ rec.kind = "Update" /\ cell.ver >= rec.cell.ver

\* No page shows the effect of a row operation, stamped or not, before the
\* log record of it is stable (sync_before_heap_flush in
\* begin_statement_transaction, the pin of a transaction's pages).
WriteAhead == \A i \in stable + 1 .. Len(log) : ~OnDisk(log[i])

\* After every crash the rows are those of a whole number of committed
\* transactions, acknowledged or not (docs/POWQL.md, Transactions).
AllOrNothing ==
  pc = "idle" => \/ \E i \in DOMAIN hist : Scan(mem) = hist[i].tab
                 \/ Scan(mem) \in forgotten

\* Down while recovering from a crash; during a rollback the engine lock
\* hides the reopening from readers.
Unreadable == [r \in Rows |-> MaxVersion + 2]
ReaderView ==
  IF ~up THEN Unreadable ELSE IF pc = "idle" THEN Scan(mem) ELSE Current

Store == INSTANCE DurableStore
           WITH Empty <- NoRows, Down <- Unreadable, view <- ReaderView,
                history <- [i \in DOMAIN hist |-> hist[i].tab]

\* The engine implements the abstract store: what readers see is always the
\* whole of one committed state, and a crash forgets only commits that were
\* never acknowledged.
ImplementsDurableStore == Store!Spec
=============================================================================
