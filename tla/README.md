# QuantaDB in TLA+

A verification project for QuantaDB: TLA+ models of its components, the TLC
runs that check them on small instances, and TLAPS proofs.

## 1. The system

| Part | Source | State | Operations | What makes it hard |
|---|---|---|---|---|
| Transactions | `mvcc/src/database.rs` | one mutex over `State`: version map, intents, active snapshots, timestamps, watermark, ring of index generations, dirty keys | begin, get, put, delete, scan, commit (prepare / persist / finish), rollback, rebuild_index (capture / publish), reclaim | the lock is released while a commit writes its records and while a rebuild writes its tree; commits finish out of order; reclamation removes versions behind everyone's back |
| Record pages and caches | `mvcc/src/database.rs`, `record.rs`, `storage/src/byte_lru.rs` | open page, page reference counts, record cache, free pool | persist_commit, free, reuse, restart | pages are reused while readers hold references to them; records of two commits share a page |
| Durable store | `storage/src/store.rs`, `wal.rs`, `data_file.rs` | data file, two log segments, dirty table, flush queue, open pages | batch, append, flush, full and background checkpoint, recovery | crash at any point; data pages written unsynced; a checkpoint runs beside commits |
| Group commit | `storage/src/group_commit.rs` | request queue, worker, checkpointer | commit, append, relaxed commit, checkpoint, shutdown | two threads and every client around one store lock |
| B+ tree | `index/src/tree.rs`, `node.rs` | immutable nodes | build, edit, get, range | copy-on-write editing with splits and merges of underfull results |
| SQL engine | `engine/src/*` | session, catalog, rows, unique keys, secondary indexes | execute, begin, commit, rollback, DDL, DML | schema changes against concurrent writes; several keys per row must agree |
| Server | `server/src/*` | connections, sessions, protocol state | accept, dispatch, shutdown | limits, timeouts, error recovery up to Sync |
| SQL syntax | `syntax/src/*` | none | parse | none that a model checker would reach |

The layers interact downwards only: server -> engine -> transactions -> group
commit -> store, with the transaction layer also using the tree to plan index
pages. What a caller relies on is always a promise of the layer below:
snapshot isolation of the transaction layer, durability and atomicity of
batches of the store.

What a careful reader would want to hold, layer by layer:

- transactions: snapshot isolation, first committer wins, no phantoms under
  `protect_scans`, repeatable reads while versions move from the map to an
  index generation, a watermark that is exact in every finish order, a
  publisher that catches up;
- record pages: an indexed read finds its record on the page it is sent to; no
  page is freed that anyone can still reach; a restart rebuilds all of `State`
  from the pages;
- store: an acknowledged batch survives any crash, batches are atomic, readers
  see committed pages whatever the checkpoint threads do;
- group commit: each call is committed once, atomically, and its answer names
  its own pages; every call returns, shutdown included;
- tree: `get` and `range` agree with the mapping that was indexed, every node
  fits its page;
- engine: constraints hold in every view although only written keys are
  validated at commit, unique keys and index entries agree with the rows, every
  access path agrees with a scan, a SELECT returns the types it announced;
- server: permits and transactions are accounted for however a connection
  ends, an error in the extended protocol skips to Sync, a graceful shutdown
  answers what it took, requests and shutdown make progress.

## 2. Modules

| Module | Models | Used by |
|---|---|---|
| `Mvcc` | the transaction layer | `mvcc_faults`, `mvcc_reclaim`, `mvcc_live` |
| `SnapshotIsolation` | what the transaction layer promises: a log of commits and views of it | `MvccRefinement` |
| `MvccRefinement` | the mapping from `Mvcc` to `SnapshotIsolation` | `mvcc_live` |
| `MvccGet` | `MvccDatabase::get`, a read outside any transaction, composed with `Mvcc` | `mvcc_get` |
| `MvccStepProofs` | lemmas about the steps of `Mvcc`: types, watermark, intents, registered snapshots | |
| `MvccProofs` | theorems about `Mvcc`: watermark, conflicts, scans | |
| `MvccVersionProofs` | lemmas about reads of `Mvcc` and the versions in its map | |
| `MvccReadProofs` | theorems about `Mvcc`: what snapshots and generations hold | |
| `MvccRefinementProofs` | `Mvcc` implements `SnapshotIsolation` | |
| `VersionPages` | packing, reading, freeing and recovering the pages that hold versions | `pages`, `pages_gap` |
| `DurableStore` | the store, the log, the commit worker and the checkpointer, crash and recovery | `store`, `store_append_race` |
| `CommitLog` | what the group committer promises: a log that only grows and holds each acknowledged call once | `GroupCommit` |
| `GroupCommit` | callers, the bounded queue, grouping, worker, checkpointer, shutdown; the mapping to `CommitLog` | `group` |
| `GroupCommitProofs` | a theorem about `GroupCommit` | |
| `BPlusTree` | the index tree as functions on trees | `tree` |
| `Expressions` | SQL values, evaluation and type inference | `Tables` |
| `Tables` | what each statement does to catalog, rows, unique keys and index entries; access paths | `SqlSessions` |
| `SqlSessions` | sessions, explicit transactions, autocommit with retries, over a snapshot-isolated store | `sql` |
| `PgProtocol` | one PostgreSQL connection: what it does with a message | `Server` |
| `Server` | the three listeners, the blocking pool, shutdown | `server` |
| `ServerProofs` | theorems about `Server` | |
| `MCMvcc`, `MCVersionPages`, `MCDurableStore`, `MCBPlusTree`, `MCGroupCommit`, `MCSqlSessions`, `MCServer` | instances for TLC | |

The layers are joined by their promises. `Mvcc` treats a storage call as one
step that succeeds or fails; `VersionPages` relies on a store whose commits are
durable together with everything logged before them and whose unsynced tail
survives as a prefix; `DurableStore` is where that promise is examined (and
where, in the cases of section 8, it fails). `Mvcc` and `VersionPages` both let
a generation be the mapping its tree encodes; `BPlusTree` shows that the tree
encodes it. `GroupCommit` sees the store as its log, one element per LSN;
`DurableStore` sees a group as at most two batches, its images and its appends.
`SqlSessions` runs on the store that
`SnapshotIsolation` describes. `Server` leaves what a data statement meets in
the tables to choice, since `SqlSessions` decides it.

Definitions whose comment begins with "Mutant" are not part of the model: each
is a plausible bug in one definition, and every checked property is known to
fail when the definition is replaced by such a bug.

## 3. How state and actions correspond to the code

**Mvcc.** `lockVars` are the fields of `State`, guarded by one mutex; `txnVars`
are the fields of each `Transaction` and the position of its thread in
`commit`. Each critical section is one action: `Begin`, `PrepareCommit` /
`CommitConflict`, `FinishCommit` / `FinishAbort`, `EndTransaction`, `Capture`
(inside `CallRebuild` and `PublisherWake`) and `Publish`, which contains
`publish_generation`, the update of `dirty_keys` and the whole of
`reclaim_covered`. `PersistCommit` and `PersistFailure` are the storage call
between the two critical sections of a commit, `RebuildFailure` the one of a
rebuild. Writes and scans touch only the transaction's own buffers; `Read`,
`Get` and `ScanPrefix` are operators, as they change nothing. A version is its
timestamp and whether it is live; a generation is a timestamp and a mapping.
`PublisherWake` joins two critical sections, the one that clears the publisher's
flag and the capture that follows it; a commit between them sets the flag again
and is also captured, so nothing is missed by it.

**VersionPages.** The same `State`, plus `page_refs`, `open_page`, the allocator
(`free_pages`, `next_page_id`), the record cache and the pages. A commit is
`PrepareCommit`, one `PlaceRecord` or `RollOver` per record (its offset; the
latter also reserves and blanks a page for it), all under the open-page
lock), `AppendRecords` (the durable append, after the lock is released),
`DropDecodes`, `FinishPrepared`, `EndTransaction`. A read is `Get` (map, else
the tree), then `CacheHit`, or `CacheMiss`, `ReadPage`, `CacheFill`: the
cache lock, the page read and the insertion are separate steps in the code. A
rebuild is `Capture`, `WriteGeneration`, `Publish`, `DropFreedDecodes`,
`ReleasePages`. A generation's tree is a single leaf, `root`: `WriteGeneration`
reserves its page and then the manifest's from the pool that serves records, and
logs both in one batch. The code reserves a page for each intermediate leaf of an
edit as well and never uses it; those are left out, and so is the time between
the reservations and the write. A rebuild that changes no entry keeps the leaf.
No leaf is ever freed. `Crash` is followed at once by `MvccDatabase::open` (`Reopen`).
`log` holds the page contents at the last sync and after each unsynced batch,
so a crash picks one of them. `Openable` is what `open` insists on: no key has
two records of one timestamp, and the root of the newest generation is a node. A page is a sequence of slots and a record takes
one. A failed append poisons the store, so nothing can follow it; failures of
`persist_commit` are studied in `Mvcc`.

**DurableStore.** `file`/`disk` are the data file as read back and as a crash
may leave it; `wal` and `synced` the two segments; `dirty`, `flushed`,
`flush_queue`, `open_pages` the tables of `DirtyPages` and `DurableStore`;
`worker` and `job` where the commit worker and the checkpointer are. One group
is `WritePages` (its images are logged and enter the dirty table), `AppendPages`
(the same for its appends, if it has any), `SyncBatch` (the sync, then the
answer), in this order: a batch is visible to readers before it is durable. A
relaxed group is answered without the sync. `LogError` is a failing log write,
after which the batch is in the file in part or whole and not in the dirty table;
`SyncError` a failing sync, after which the callers are refused while the pages
stay in the dirty table and in the flush queue. Both poison the store. Then come
`PaceFlush` / `PaceFlushError` and `MaybeCheckpoint`. A full checkpoint
is `ExplicitCheckpoint` or `MaybeCheckpoint`, then `CheckpointLog`, `SealFirst`,
`SealSecond`, or `CheckpointError`; a background one is `JobWrite`, `JobSync`,
`JobSeal`, `JobComplete`, or `JobAbort`, and takes the store lock only at its
end (`StoreUnlocked`); when `BeginBackground` cannot clone a file handle there is
no job and the flag stays set. A `SharedReader` takes no lock and two steps,
`ReadMiss` and `ReadFile`; one that finds the page in the dirty table is done at
once. `passed_over` is history: at which LSN a background checkpoint listed a
page and left it unwritten. `Crash`, `Recover`, `Resume` are a
crash and `DurableStore::open`. A page's payload is the set of LSNs of the
changes it holds.

**BPlusTree.** `Plan`, `EditPlan` (a fold of `Apply`, which is `Editor::apply`),
`Get` and `RangeScan` are operators named after the methods; the only action
applies a batch of mutations to the current tree, as each generation does. The
planner's partitioning is the code's greedy one over entry sizes. A child is
its node, since nodes never change once written.

**GroupCommit.** A call is `Call`, `Send` (the bounded channel), and an answer by
`Reply` or, once the worker's receiver is gone, `FindStopped`. The worker is
`Receive`, `Gather` (until the group is full, a command that is no commit is set
aside in `pending`, or the deadline passes), `ExecuteGroup` or
`ExecuteGroupError`, one `Reply` per member, then one outcome of
`maybe_checkpoint`: `SkipCheckpoint`, `BeginBackground`, `BeginBackgroundError`,
`CheckpointInstead`. An explicit checkpoint waits in `"waiting"` for the flag to
clear. `TakeJob`, `CompleteJob`, `AbortJob`, `CheckpointerExits` are the
checkpointer; `StartShutdown`, `SendShutdown`, `Stop`, `JoinThreads` are
`stop_worker`; an explicit checkpoint is `ExplicitCheckpoint`. `unshared`
records that `begin_background_checkpoint` failed after it had set the flag.
Paced flushing touches no queue and no answer; it is in `DurableStore`. The
mapping to `CommitLog` takes a call as decided once its reply is on the
worker's list, `replies`: that is the step in which its records enter the log.

**Expressions, Tables, SqlSessions.** A transaction in progress is its view, the
keys it wrote and whether the statement has succeeded so far; each function of
`engine/src/database.rs` is an operator from one to the next, loops with early
returns being `Each`. Keys hold values instead of their encodings, which are
injective and keep the order of identities; the sign of a float zero is kept,
because equal floats may have different encodings. A statement in an explicit
transaction is one step (it works on a private view); an autocommit statement is
`StartAutocommit`, then `Attempt` and `CommitAttempt` or `LoseConflict`, the
latter retried or given up (the budget is a matter of the clock). `changed` are
the keys others committed since the transaction began, so `Conflicts` is what
`prepare_commit` decides. `raced` is history: the indexes whose creation
overlapped a writer of their table.

**PgProtocol, Server.** `HandleMessage` is one turn of `run_connection`, from the
connection's state and a message to the possible next states; `segment` holds
the types of the replies since the client was last told the server is ready. In
`Server` a v1 connection is an async task (`AcceptV1`, `ReadFrame`,
`WriteResponse`, `GiveUp`, `Eof`, `WriteError`, `NoticeShutdown`) whose requests
are jobs of the blocking pool (`StartJob`, `FinishRequest`); a PostgreSQL or HTTP
connection is itself a job (`AcceptBlocking`, `Handshake`, `PgMessage`,
`HttpRequest`, `Hangup`). Shutdown is `Shutdown`, then `Drained` or
`GraceExpires`, or `AcceptError`, each with the drop of the runtime, then `Exit`.
The pool and the runtime are Tokio's and modelled as it documents them.

## 4. What the runs check

| Run | Instance | Properties |
|---|---|---|
| `mvcc_faults` | 2 transactions, 2 keys, whole-range scans, publisher and one checkpoint caller, storage errors | `TypeOK`, `WatermarkExact`, `NoPhantom`, `GenerationsExact` |
| `mvcc_reclaim` | 3 transactions on 1 key, publisher and one checkpoint caller | `FirstCommitterWins`, `SnapshotReads`, `ScanMatchesGet`, `RecentKept`, `SnapshotsStable` |
| `mvcc_live` | 2 transactions, 2 keys, publisher, failing commits, fairness | `PublisherCatchesUp`, `TimestampsResolved`, `ImplementsSnapshotIsolation` |
| `mvcc_get` | 2 transactions, 1 key, one `get` outside them | violates `GetSeesItsSnapshot` (section 8) |
| `store` | 2 pages, pacing, under one of seven loads: images with both kinds of checkpoint, torn pages, 1 crash; appends and seals with both kinds of checkpoint, failing jobs, 1 crash; images, appends and relaxed batches with explicit checkpoints, 1 crash; shorter ones of the three with 2 crashes and failing jobs, handle clones, logs and syncs; failing flushes, logs, syncs and jobs with a reader and no crash | `TypeOK`, `RecoversPrefix`, `AckedSurvive`, `ReadersSeeCommitted` |
| `store_append_race` | 2 pages, appends, background checkpoints, 1 crash | violates `CrashLosesNothing` (section 8) |
| `pages` | 3 commits, 1 reader, 1 rebuild at a time, 2 records a page, under one of three loads: commits that overlap; commits of one key with a delete and 1 crash; commits of two records with the record cache | `TypeOK`, `ReadersAnswered`, `SnapshotsServed`, `OpenSucceeds`, `FreePagesUnused` |
| `pages_gap` | 2 commits on 2 keys, 1 crash | violates `AckedSurvive` (section 8) |
| `tree` | 6 keys, 2 values, 2 entries a leaf, 3 children a node, batches of up to 2 | `TypeOK`, `LookupExact`, `RangeExact`, `ShapeSound`, `EditsSucceed` |
| `group` | 3 clients with a call each, queue of 2, groups of 3 pages, log, job and handle faults, shutdown at any time, fairness | `JobsOwned`, `ImplementsCommitLog`, `EveryCallReturns` |
| `sql` | 2 sessions of 2 statements each out of 11, over 2 initial tables | `TypeOK`, `ConstraintsHold`, `EntriesExact`, `IdsFresh`, `PathsAgree`, `SelectTyped` |
| `server` | 3 v1, 1 PostgreSQL and 1 HTTP connection, 2 slots a listener, 1 request slot, 1 pool thread, clients that leave, failing accepts, fairness | `SlotsAccounted`, `TransactionsOwned`, `ErrorEndsSegment`, `GracefulMeansAnswered`, `ServerProgresses` |

What they show, in words:

- the watermark never passes a commit in flight and never stalls behind a
  finished or failed one (`TimestampsResolved`, with commits that fail); of two writers of one key the later had the earlier
  in its snapshot; reclamation changes what no registered snapshot reads;
  a generation derived from a base and dirty keys equals one built afresh;
- the transaction layer implements an abstract log with views: every step of
  `Mvcc` is a step of `SnapshotIsolation` or a stutter;
- reads that leave the lock are still answered correctly when pages are freed,
  blanked and reused around them. What protects a page that has been handed to
  a commit but not counted yet is the snapshot the committing transaction keeps
  registered until `end_transaction`, not the `protect` argument of
  `reclaim_covered`: dropping the registration earlier breaks `ReadersAnswered`;
- `open` reconstructs versions, reference counts, generations and dirty keys
  from the pages that survive, whatever part of the unsynced log does;
- batches survive every crash as a prefix that includes each acknowledged batch,
  as long as every batch that readers saw was synced and no background
  checkpoint passed over a page (`RecoversPrefix`). Where a relaxed group or a
  refused one was seen, every page still keeps its acknowledged changes
  (`AckedSurvive`), again but for pages passed over; those are the subject of
  `store_append_race`;
- a page is in the dirty table or in the data file with all its changes, at
  every moment, for readers that take no lock and look in one place and then in
  the other;
- every tree reachable by edits answers lookups and ranges exactly;
- the group committer implements `CommitLog`: a group that mixes images and
  appends gives each member its own LSNs, one durable member makes the whole
  group durable, a failed batch acknowledges nobody, and a call refused by a
  committer that has stopped left nothing in the log. Every call returns,
  whatever is in the queue when the worker stops, unless a file handle could
  not be cloned (section 8);
- in the engine, uniqueness is checked against rows that may be stale by the
  time of the commit. What makes it hold is that the unique key, the row key and
  the entry of a unique index are written, so that two writers of one value
  conflict. Without the acquisition of unique keys `ConstraintsHold` fails with
  two sessions;
- in the server a request keeps its slot and its session for as long as its
  closure runs, also when the connection is gone; no answer is lost by a
  shutdown within its grace period; a v1 request is executed unless PostgreSQL
  or HTTP connections hold the whole pool, and the process ends when told to
  unless such a connection stays.

Distinct states: `store` 2.5 million, `pages` 941,658, `mvcc_faults` 734,084,
`mvcc_reclaim` 483,986, `server` 447,120, `group` 352,697, `sql` 154,180; a run
takes less than four minutes with two workers.

## 5. Bounds

Every variable that grows is bounded by the number of transactions, writers or
LSNs; there is no other bound in `Mvcc`, where each transaction identifier is
used once.

- Three transactions on one key are needed for the cases of reclamation: an
  old snapshot, a version that drains, and a newer writer. Two keys are needed
  for write skew of intents, protected scans and dirty keys that a generation
  does not cover. Both together exceed the time a run should take, hence two
  runs.
- `DurableStore` and `VersionPages` take a set of loads: what is written, which
  faults happen, how far a behaviour goes. A behaviour picks one at the start
  and keeps it, so that one run covers mixes which together would be too large.
- `VersionPages`: `SlotsPerPage` 2 with three records forces a page to be left
  behind; no behaviour of `pages` asks for more than the nine pages of
  `MaxPages`, so that bound cuts nothing off. The load with the crash uses one
  key and so commits in sequence, because overlapping commits before a crash
  already lose data (`pages_gap`); the one with the cache fills a page per
  commit, because a page that grows once it was decoded is misread (section 8).
  Commits that write the same may be permuted. A crash is tried only while no
  read is in progress, which loses nothing: a read changes nothing that
  survives. In that load readers hold snapshots and `SnapshotsServed` says what
  they would find. Without a cache the steps on it are left out.
- `DurableStore`: `max_lsn` 5 allows two batches in the retired segment and two
  in the active one with their checkpoint record; 4 is enough for a page to be
  passed over (two batches, a rotation, a third), 3 for a flush to fail between
  two batches. Two crashes (with one LSN less) reach a crash after a recovery
  that handed LSNs out again. Pages may be permuted: a batch lists them in any
  order (`Orders`). A batch changes a page at most once. Failing flushes are
  tried without a crash, torn pages with images only and not beside failing
  syncs, for the reasons of section 8.
- `GroupCommit`: three calls meet in one group, overflow a queue of two and
  reach the log budget of three records; one of each kind of call is offered.
- `SqlSessions`: two sessions are enough for a conflict, a race and a retry; two
  statements each reach a transaction that reads its own writes. One initial
  table has a primary key and both kinds of index, the other hidden row ids and
  no index. The statements
  move primary keys, pass unique values on, create and drop indexes and tables.
  `MaxInt` 5 makes overflow reachable.
- `Server`: one thread and one request slot make every wait happen; the message
  budgets let one PostgreSQL client send six messages, or all kinds of clients
  meet in the pool, or the v1 clients outnumber their slots.
- `BPlusTree`: with leaves of two entries and nodes of three children six keys
  give trees of one to three levels with non-root internal nodes, so that
  splits at every level, emptied leaves and inner nodes, and shrinking roots
  all happen. `Init` starts from every bulk-built tree.

`CHECK_DEADLOCK FALSE` is set where the system may stop: in `Mvcc` when all
transactions are done, in `DurableStore` when the bound on LSNs is reached or
the store is poisoned, in `pages_gap` when both commits are done, in
`GroupCommit`, `SqlSessions` and `Server` when the clients have made their calls
or the process has ended.

## 6. Fairness

`Mvcc!Fairness` is weak fairness of the threads that are inside the database: a
commit goes on from prepare to persist, finish and end; the publisher wakes
when it is signalled and finishes the rebuild it began. The code has no
condition on which such a thread waits except the mutexes, each held for a
bounded time, and the publisher's condition variable, modelled by
`signal_dirty`. Nothing is assumed of clients: a transaction may stay open for
ever.

`GroupCommit!FairSpec` is weak fairness of the worker, of the checkpointer, of
each client inside a call and of the thread that shuts the committer down: their
loops run until shutdown and wait only for channels and for the store's mutex,
and the conditions on the channels are guards of the model. Nobody has to call.

`Server!FairSpec` is weak fairness of the tasks the runtime polls, of the pool's
threads, of the grace timer and of the end of the process. The pool starts its
queued jobs in order. Nothing is assumed of clients: reading, sending, leaving
and taking a response are theirs to do, and so is the shutdown.

## 7. Proofs

`MvccProofs`, on the lemmas of `MvccStepProofs`, proves, for any sets of keys, transactions, prefixes and threads
and with or without errors of commits and rebuilds:

| Theorem | States |
|---|---|
| `Safety` | `SafetyInvariant` always holds |
| `TypeCorrect` | `TypeOK` |
| `WatermarkCorrect` | `WatermarkExact` |
| `RecentVersionsKept` | `RecentKept` |
| `FirstCommitterWinsAlways` | `FirstCommitterWins` |
| `NoPhantomAlways` | `NoPhantom` |

The assumptions are those of `Mvcc`: the value for "no owner" is not a
transaction, prefixes are sets of keys, `IoErrors` names storage calls of the two kinds.

`FirstCommitterWins` is not inductive: it speaks of two committed transactions,
while the decision is made in `prepare_commit` from the version map and the
intents. The argument needs

- `IntentsExact`: the intents are the keys of the commits in flight, so two
  commits in flight never share a key;
- `SnapshotsRegistered` and `RecentInMap`: whatever was committed above an
  active snapshot, or above the watermark, is still in the map, so the test
  `timestamp > snapshot` misses nothing. This is the obligation of
  `reclaim_covered`: it drains only below the newest version at or below the
  oldest active snapshot, and removes a key's last version only when it is
  not newer than the cover, hence not newer than any active snapshot
  (`OldestActiveBound`, `PublishKeepsRecent`);
- `InFlightWrites`: from prepare to finish, every committed writer of the
  commit's keys is in its snapshot;
- `WatermarkExact` and `CommittedInPast`, for the order of timestamps.

`NoPhantom` needs `InFlightScans` and `CommittedScans` besides: a writer into a
scanned prefix that prepares after the scanner has a later timestamp.
`CompleteExact` is the lemma about the watermark loop: it advances over exactly
the maximal run of completed timestamps. The proof that a step preserves the
invariant has one lemma per conjunct and in it one case per action that can
disturb it.

`MvccReadProofs`, on the lemmas of `MvccVersionProofs`, proves from the same assumptions:

| Theorem | States |
|---|---|
| `ReadSafety` | `ReadInvariant` always holds |
| `SnapshotReadsAlways` | `SnapshotReads` |
| `GenerationsExactAlways` | `GenerationsExact` |
| `SnapshotsStableAlways` | `SnapshotsStable` |
| `ScanMatchesGetAlways` | `ScanMatchesGet` |

`SnapshotReads` compares a read, which looks in the map and then in a
generation, with the history. It does not survive a step by itself: whether a
version may leave the map depends on what the generations hold, and what a
rebuild puts into a generation depends on which keys are marked dirty.
`ReadInvariant` says where each committed version can be found:

- `VersionsCommitted`, `VersionsSuffix`: the map holds committed versions only,
  and of a key every one from some timestamp on, so the newest one at or below
  a snapshot is the right one if there is any;
- `HistoryReachable`: if there is none, every commit the snapshot sees is in a
  generation not newer than the snapshot, which `Inner::read` then asks;
- `GenerationsExact`, `GenerationsPast`, `CleanCovered`: a generation is the
  committed state at its timestamp, below the watermark, and a key that is not
  dirty has no commit that some generation lacks. This is why a rebuild may
  copy the entries of the other keys from its base;
- `CommittedResolved`, `CommittedUnique`: a timestamp names one commit, and the
  watermark or `completed_timestamps` has it.

`SnapshotsStable` follows: a registered snapshot reads the history before and
after a step, and no step adds to the history at or below a snapshot.

`MvccRefinementProofs` proves `Refinement`, that is `Mvcc`'s `Spec` implies
`ImplementsSnapshotIsolation`. The log is the history up to the watermark.
`begin` registers a view of the whole log because of `SnapshotReads`; a step
that moves the watermark appends to the log and keeps what it had, and the
entries it appends satisfy the condition of `SICommit` because of
`FirstCommitterWins`; every other step leaves log and views alone because of
`SnapshotsStable`.

`GroupCommitProofs` proves `JobsOwnedAlways`, that is `JobsOwned`, for any
clients, operations, queue depth, group size and faults, from no assumption. It
is inductive together with two facts: the owner joins the checkpointer only
after the worker has returned, and a flag left set by a failed start means that
no job runs.

`ServerProofs` proves, for any finite set of connections, any limits, pool
size, messages and faults:

| Theorem | States |
|---|---|
| `SlotsAccountedAlways` | `SlotsAccounted` |
| `TransactionsOwnedAlways` | `TransactionsOwned` |
| `GracefulMeansAnsweredAlways` | `GracefulMeansAnswered` |

The assumptions are those of `Server`: limits are positive, the listeners'
connections are disjoint and finitely many. The inductive invariant `IInv` says
where a connection can be in its life and which job it then has (`Shape`), that
the backlog lists exactly the queued jobs, each once (`Queue`), who holds a
session (`SessionsHeld`), and what is over once the runtime is dropped (`Ends`),
besides the two sums of `SlotsAccounted`. The sums are preserved because each
action opens, closes or leaves alone exactly one connection or one request
(`OneOpens`, `OneCloses`, `SameConnections`, `SameRequests`); the drop of the
runtime, which ends many at once, counts the sets it removes (`Removed`).

TLC finds the inductive invariants to hold as well: `SafetyInvariant` and
`ReadInvariant` on the instances of `mvcc_faults` and `mvcc_reclaim`.

Only model-checked: liveness; `ImplementsCommitLog`, whose mapping sums over sets
and would need induction over them; everything about `BPlusTree`,
`Expressions`, `Tables` and `SqlSessions`, whose recursive operators TLAPS does
not handle; `ErrorEndsSegment`, whose handlers fold over sequences; and all of
`DurableStore` and `VersionPages`.

## 8. Where code and comments disagree

Three disagreements are runs of their own.

- `mvcc_get`. `MvccDatabase::get` copies the watermark and reads at it in two
  lock acquisitions without registering the snapshot; a commit of the key, a
  rebuild and reclamation in between make it answer "absent" for a key that
  existed throughout. The comment on `Inner::read` (`mvcc/src/database.rs:633`):
  "A key that truly did not exist at the snapshot is in neither place".
- `store_append_race`. `BackgroundCheckpoint::run` skips a page whose LSN is no
  longer the one in the manifest and seals the retired segment all the same.
  For a page that has been appended to, the active segment holds only the
  later appends; after a crash the earlier, acknowledged ones are lost.
  `storage/src/store.rs:64`: "A crash loses nothing"; `docs/storage-format-v1.md:20`:
  "a crash at any moment loses nothing". The same happens to images when the
  page's newer image is logged and visible but its sync has not returned before
  the crash (`ImageRaceLoads`, `FlushBudget` 0).
- `pages_gap`. `persist_commit` chooses offsets under the open-page lock and
  appends after releasing it. The commit with the higher offset can be synced
  and acknowledged first; a crash then leaves a hole at which
  `VersionRecord::decode_page` stops, and `open` does not find the acknowledged
  record. `storage/src/wal.rs:45`: "two writers filling the same page cannot
  corrupt it by reaching the log out of order". A generation that survived the
  crash may name such a page, and then indexed reads of it fail.

TLC shows the following as well, with the constants given; they are not kept as
runs.

| What happens | Instance | Violated |
|---|---|---|
| `pace_flush` (`group_commit.rs:385`) ignores the error of `flush_some_dirty`, which has already taken the page off the queue; the next checkpoint does not write it and seals the log that protects it | `MCDurableStore`: `FlushCrashLoads`, 2 pages, `FlushBudget` 1 | `CrashLosesNothing` |
| an append onto a page that was torn by a crash has no image to build on | `TornAppendLoads`, 2 pages, `FlushBudget` 1 | `CrashLosesNothing` |
| a sync fails after the pages of the group entered the dirty table and the flush queue; the callers are refused, `pace_flush` writes some of the pages all the same, and a crash keeps part of the batch. If such a write is torn too, nothing in the log repairs the page; `docs/storage-format-v1.md:19`: "A data page is therefore never on disk without its WAL images having been durable first" | `SyncErrorLoads`, 2 pages, `FlushBudget` 1 | `BatchesAtomic` |
| pages of a relaxed batch are flushed before its log records are synced, so a crash keeps part of the batch; `group_commit.rs:223` says it is lost "atomically" | `RelaxedFlushLoads`, 2 pages, `FlushBudget` 1 | `BatchesAtomic` |
| a relaxed batch in the retired segment is not covered by the next sync, which syncs the active one; the same comment says "durable when any later synced batch or checkpoint lands" | `RelaxedRotationLoads`, 2 pages, `FlushBudget` 0 | `RelaxedRidesNextSync` |
| while a background checkpoint is in flight the log grows without bound; `group_commit.rs:30` says it overshoots by at most one batch | `LogGrowthLoads`, 1 page, `FlushBudget` 1 | `LogBounded` |
| a reader reads a page, a commit appends to it and drops its decode, the reader inserts the older decode; reads through a newer generation then hit a decode without their record and report corruption. `byte_lru.rs:9` says "entries can only become garbage, never stale", which packing made untrue | `MCVersionPages`: `StaleDecodeLoads`, 1 reader, 1 builder, `SlotsPerPage` 3, `MaxPages` 5 | `ReadersAnswered` |
| an entry nearly as large as a page, put between small ones, splits a leaf in three; `Editor::apply` makes a new root without partitioning it, and `finish` refuses the plan. `plan` would have built the tree. `EditsSucceed` is therefore about entries of at most half a page | `MCBPlusTree`: `OneLargeKey`, 5 keys, `Capacity` 4 | `~ failed` |
| a commit fails in storage while a later one is finished: `finish_prepared` moves the watermark over both and, on this path, nobody calls `mark_index_dirty` (`mvcc/src/database.rs:935`); the publisher sleeps until the next commit. `docs/mvcc.md:52` has it woken by every commit | `MCMvcc`, as `mvcc_live`, without the last disjunct of the property | `PublisherCatchesUp` |
| `begin_background_checkpoint` sets the in-flight flag before it clones the file handles; if a clone fails `maybe_checkpoint` returns and the flag stays. No checkpoint runs any more, and an explicit one waits for ever, with every call behind it | `MCGroupCommit`, as `group` | `EveryCallReturnsAnyway` |
| CREATE INDEX backfills from its snapshot; a session that commits a row of the table meanwhile knows nothing of the index, and the two write no common key. `docs/execution.md:52`: "Entries move with their rows on INSERT, UPDATE, and DELETE" | `MCSqlSessions`: `RaceSetups`, `RaceStatements`, 1 statement each | `IndexesExact` |
| `indexed_values` leaves a row out of an index if any of the indexed columns is NULL; `plan` uses an index for an equality on its first column. With an index on `(v, u)` a row with `u` NULL is not found by `v = 2`, by SELECT, UPDATE or DELETE. `engine/src/schema.rs:39`: "equality lookups, which never match NULL, stay correct", which is true of an index on one column | `MCSqlSessions`: `NullableSetups`, `NullableStatements`, `SomeProbes`, 2 statements each | `PathsAgree` |
| `Value` equality holds `-0.0 = 0.0`, but their encodings differ: a lookup of `0.0` by unique key misses a row with `-0.0`, and two sessions can commit one row of each | `MCSqlSessions`: `ZeroSetups`, `ZeroStatements`, `ZeroProbes`, 2 statements each | `PathsAgree`, `ConstraintsHold` |
| PostgreSQL and HTTP connections occupy a thread of the blocking pool from accept to close, so enough idle ones keep v1 requests waiting; `docs/protocol-v1.md:22`: "The server sends exactly one response for each accepted request" | `MCServer`, as `server` | `RequestsExecuted` |
| the PostgreSQL and HTTP listeners are given a shutdown that never comes (`main.rs:30`, `:41`), and the runtime's drop waits for their threads: an idle client keeps the process from ending, although `shutdown_grace` has passed. `docs/architecture.md:45`: "graceful shutdown" | `MCServer`, as `server` | `ShutdownCompletes` |

The remaining observations need no run. A failed `accept` ends the v1 server at
once (`server.rs:69`), while the other listeners log it and go on. An error in a
text of several statements hides the outputs of the earlier ones, which have
taken effect. A DROP TABLE that races an INSERT leaves the row behind under an
id that is never used again, which is why `IdsFresh` matters.
`VersionRecord::validate_size` accepts keys that `validate_entries` refuses (by
12 bytes), so such a key commits and every later `rebuild_index` fails on it. A version that leaves the map because a generation
covers it keeps its count in `page_refs`; its page is not freed before the next
`open`. That is a leak, and it is also why a freed page is never one an index
entry leads to.

## 9. Not modelled

- Lexer and parser: pure functions of text whose behaviour is wording and
  layout. A statement is its tree here, an SQL text what the server can tell of
  it.
- Byte formats, checksums and the checks on decoding: a page is whole, torn or
  absent; a record is there or not; a key is its values.
- Eviction from the caches: it turns a later hit into a miss, and a miss reads
  the page itself. The node cache holds nodes of pages that are never
  rewritten.
- Storage errors below a SQL statement: `Mvcc` has them, and the engine passes
  them on as it does its own. Fractions of floats and the text of strings: no
  statement tells them apart other than by equality and order.
- The allocation of page ids and the lock file of the store.
- Statistics, configuration, error texts, the wire format of messages, the
  benchmark, the web page.

## 10. Plan

| Step | Modules | Runs and theorems |
|---|---|---|
| done | `Mvcc`, `SnapshotIsolation`, `MvccRefinement`, `MvccGet`, `MvccStepProofs`, `MvccProofs`, `MvccVersionProofs`, `MvccReadProofs`, `MvccRefinementProofs` | `mvcc_*`; every safety property of `Mvcc` and the refinement as theorems |
| done | `DurableStore` | `store`, `store_append_race` |
| done | `VersionPages` | `pages`, `pages_gap` |
| done | `BPlusTree` | `tree` |
| done | `GroupCommit`, `CommitLog`, `GroupCommitProofs` | `group`; `JobsOwnedAlways` |
| done | `Expressions`, `Tables`, `SqlSessions` | `sql` |
| done | `PgProtocol`, `Server`, `ServerProofs` | `server`; the three theorems of section 7 |
| then | proofs about `DurableStore` (`ReadersSeeCommitted`) and `VersionPages` (reference counts, `FreePagesUnused`) | a proof module each |
