# TLA+ verification of lmdb-js

lmdb-js is a key-value store for Node: a JavaScript API over LMDB whose writes
are queued in shared memory and executed by a native write thread. This directory
holds TLA+ models of that write path, of the read side and its range queries, of the caching store, of the
registry of environments, and of how the data file is committed, flushed and recovered; the TLC configurations that
check them; and TLAPS proofs of the invariants and of a refinement. Source paths below are relative to
the repository; `PROJECT.json` maps every modelling definition to its lines.

## 1. Inventory of the system

| Component | State it keeps | Operations | Talks to |
|---|---|---|---|
| Write queue, JavaScript side (`write.js`) | instruction buffer, list of resolutions, batch depth, shared commit and flush promises, three cursors | `put`, `remove`, `drop`, `clearAsync`, `ifVersion`, `batch`, `transactionAsync`, the task that ends an event turn, `startWriting`, `resolveWrites` | the write thread, through the status word of each instruction and `env.startWriting` / `env.write(0)` |
| Write thread (`src/writer.cpp`) | position, `conditionDepth`, `validatedDepth`, transaction, `finishedProgress`, `interruptionStatus` | `Write`, `DoWrites`, `WaitForCallbacks`, progress and completion events | status words; `writingLock` and `writingCond`; LMDB |
| Synchronous and callback transactions (`write.js`, `src/env.cpp`) | `writeTxn` on both sides | `transactionSync`, `putSync`, `removeSync`, `transactionSyncStart`, `childTransaction`, `executeTxnCallbacks`; `beginTxn`, `commitTxn`, `abortTxn` | the write thread, through the lock, the condition and `interruptionStatus` |
| Compression (`src/compression.cpp`) | one 64-bit word per compressible value | `compress` (pool thread), `compressInstruction` | the write thread, through that word and `writingCond` |
| Read transactions, cursors, ranges (`read.js`, `src/txn.cpp`, `src/cursor.cpp`, `util/RangeIterable.js`) | shared read transaction, `renewId`, cursor counts, a spare cursor per database | `get`, `getRange`, `renewReadTxn`, `resetReadTxn` | commits reset the read transaction |
| Caching store (`caching.js`) | weak LRU cache, entries pinned until commit | `get`, `put`, `putSync`, `remove`, `aftercommit` | write queue, reads |
| Environments (`src/env.cpp`, `open.js`) | process-wide registry with reference counts, open transactions, cleanup hooks | `open`, `close`, `sync`, `copy`, thread exit | LMDB |
| Data file (`dependencies/lmdb/libraries/liblmdb/mdb.c`, with the changes marked `<lmdb-js>`) | pages, free list, two meta pages and the flushed meta, reader slots, `me_synced_txn_id` | `mdb_txn_begin`, `mdb_page_alloc`, `mdb_txn_commit`, `mdb_env_sync`, `mdb_env_open` | the write thread, the reads, the disk |
| Databases and misc (`src/dbi.cpp`, `src/misc.cpp`) | handles, global buffers | direct reads, version comparison | LMDB, V8 |
| Keys and buffers (`keys.js`, `src/ordered-binary.cpp`) | key scratch buffers | `saveKey`, `writeKey` | external encoder |

What is hard here: two threads share words that JavaScript sometimes writes
without an atomic operation; the right to execute the queue moves between them by a
compare-and-swap; promises of many writes are shared and settled through links made
while transactions overlap; one condition variable serves four purposes; and
synchronous code can take the write thread's transaction in the middle of a batch.
On the read side, one transaction and one spare cursor are shared by everything that reads, and
are renewed and reset behind the back of open iterators. Below, pages are reused while a crash may still lead back to a
transaction that needs them, and flushes overlap with later commits. The 40 hazards of `PROJECT.json` name the lines.

What makes each component correct:

* queue: each instruction runs once and in order; blocks are atomic and
  conditions nest; a settled promise tells the truth about its own write; everything is
  settled; flush promises resolve only after a sync;
* lock: whoever uses the write transaction holds the lock and uses the open one; a
  block is not split; a synchronous transaction is committed when it returns; no cycle
  of waits; nobody sleeps forever;
* compression: one thread compresses a value, and it is stored only compressed;
* reads: a snapshot stays what it was; a cursor never outlives its transaction;
* ranges: a query returns exactly the entries of its range, whichever way it is computed, and stays in order across renewals;
* cache: after a commit the cache agrees with the store, and nothing stays pinned;
* environments: one per file, closed by the last user and not while used;
* data file: a crash at any step leads to a transaction whose pages are all there, and loses none that was reported durable.

## 2. Modules

| Module | Content |
|---|---|
| `WriteQueue` | the asynchronous write queue: JavaScript side and workers |
| `MCWriteQueue` | its TLC instances |
| `WriteQueueProofs` | inductive invariant and theorems about `WriteQueue`, its blocks and the cursors of `resolveWrites` |
| `WriteQueueTruthProofs` | invariants and theorems about what the promises and flush promises of `WriteQueue` say and when user callbacks run |
| `TxnLock` | the write lock, synchronous transactions, callbacks, compression hand-over |
| `MCTxnLock` | its TLC instances |
| `TxnLockProofs` | inductive invariant and theorems about `TxnLock` |
| `ReadTxn` | the shared read transaction, cursors and iterators of one thread, against commits |
| `MCReadTxn` | its TLC instances, with the symmetry sets |
| `ReadTxnProofs` | inductive invariant and theorems about `ReadTxn` |
| `RangeScan` | range, key, value and count queries over entries that change |
| `MCRangeScan` | its TLC instances: the sets of queries |
| `RangeScanProofs` | invariants and theorems about `RangeScan`: iterations, counts and renewals |
| `CachingStore` | the cache over the write queue, reduced to what the cache sees of it |
| `MCCachingStore` | its TLC instances |
| `CachingStoreProofs` | inductive invariant and theorems about `CachingStore` |
| `EnvRegistry` | the environments of a process, their users and threads |
| `MCEnvRegistry` | its TLC instances |
| `EnvRegistryProofs` | inductive invariant and theorems about `EnvRegistry` |
| `EnvSync` | commit, overlapping sync, page reuse, crash and recovery of one data file |
| `MCEnvSync` | its TLC instances |
| `EnvSyncProofs` | inductive invariant and theorems about `EnvSync`, the refinement of `DurableStore` among them |
| `DurableStore` | what a store promises about commits, flushes and crashes; `EnvSync` implements it |

### WriteQueue

`word[s]` is the 32-bit status word of slot `s`, as the set of its bits (`OP` stands
for a non-zero op code). `instr` is the rest of the instruction, of which the model keeps
the kind, the batch depth at which it was written and the blocks around it. `reported` of a worker is the error message that
`ReportError` leaves for its completion. `resolution`
is the linked list of resolution objects: resolution `r + 1` is `next` of `r`, and the last is the
placeholder `nextResolution`. The other JavaScript variables keep their names. `call` is
the write closure or worker callback that is running, `caller` the closure that
`writeBatchStart()` interrupts. `worker` is the sequence of all workers started.
`txnOf`, `result`, `log` and `ranIn` are history.

| Actions | Code |
|---|---|
| `Write`, `IfVersion`, `EndIfVersion`, `EndEventTurn` | the API calls and the queued task, up to the publishing |
| `PublishAtomic`, `PublishLoad`, `PublishStore`, `NotePlainWrite`, `AssignPromise` | the closure returned by `writeInstructions` |
| `RunEnqueuedCommit` | the `setImmediate` task |
| `SweepNext`, `SweepEnd`, `SettleTxn`, `SettleEnd` | `resolveWrites`, one step per iteration |
| `BeginTxn`, `Execute...`, `StoreFinished`, `WaitForOperation`, `WakeUp`, `Delimit`, `Commit`, `ReportCommit`, `Sync` | `Write`, `DoWrites`, `WaitForCallbacks` |
| `CommitProgress`, `CallbackProgress`, `Complete`, `EndCallback` | progress and completion callbacks on the event loop |

Granularity. An action makes at most one access to a shared word: an `Atomics.or`, a
compare-and-swap, one plain load or one plain store; memory is sequentially consistent.
A worker's read of a word and the compare-and-swap or the execution that follows from it are
one step, because a compare-and-swap that fails only makes it read again. The steps
of JavaScript that touch no shared word (`LocalStepPending`) are not interleaved with steps of
workers: they commute with them, so nothing observable is lost. Synchronous code runs to
completion: while an `ifVersion` callback runs (`InUserBlock`) no task or event is
handled.

Abstractions. Keys, values, byte layout and `POINTER_NEXT` (a second buffer) are left out; an
instruction fails or succeeds nondeterministically where LMDB decides. With `InstructionCanFail`, an instruction may also be refused with
an error other than `MDB_KEYEXIST` and `MDB_NOTFOUND`: it is marked as failed, the transaction goes on, and the completion of
the worker goes to the error callback (`writer.cpp:311`). The wake-up
signal `env.write(0)` is left out here because the wait is timed; `TxnLock` has it. Left out
as well: writes made inside a synchronous transaction (they bypass the queue),
backpressure (only a delay), callback-style writes, `commitDelay > 0`.

### TxnLock

`mutex` is `writingLock`, `waiting` the threads blocked on `writingCond`, `owner` and `current`
the holder and the number of LMDB's open write transaction. `pc` and `jsPc` are the two
threads. The queue is a plain sequence here; `Publish` appends to it and, when the write
thread polls the slot, signals it. A signal wakes any one of the waiters; a timed wait needs
none and may also swallow one (`PollAgain`).

| Actions | Code |
|---|---|
| `TakeLock`, `BeginTxn`, `Delimit`, `Commit`, `DeleteWorker` | `WriteWorker::Write` and its destructor |
| `ExecutePut`, `ExecuteBlock`, `ExecuteCall`, `StrictDone` | `DoWrites` |
| `WaitForCallbacks`, `PollAgain`, `Resume`, `Interrupted`, `Restart` | `WaitForCallbacks` |
| `ZipCheck`, `ZipExchange`, `ZipSelf`, `ZipWake`, `Zipper` | the exchanges of the compression word by both threads |
| `TransactionSync`, `AcquireTxn`, `InterruptAnswered`, `BeginSync`, `CommitTxn`, `AbortTxn` | `transactionSync`, `beginTxn`, `AcquireTxn`, `commitTxn`, `abortTxn`, `UnlockTxn` |
| `HandleProgress`, `LockForCallbacks`, `TxnAwaited`, `CallbacksReturn`, `PromiseResolves` | `HandleProgressCallback` and `executeTxnCallbacks` |

A synchronous transaction of kind `put` has flags 2 (synchronous commit), `txn` flags 3
(abortable too), `start` flags 0. LMDB calls and the pthread primitives are external:
`mdb_txn_begin` blocks while the other thread has the write transaction. Failures of begin and commit,
and nested `childTransaction`s, are not modelled yet.

### ReadTxn

`readTxn`, `readTxnRenewed`, `currentReadTxn` and `writeTxn` keep their names; `ewRenewed` is the
`readTxnRenewed` of `EnvWrap`. `txn` holds, for each transaction object, what LMDB does with it and the
counts that `read.js` keeps on it; a snapshot is the number of commits in it. `available` is
`availableCursor` with `cursorTxn`. `cursor[c].snap` is the snapshot that the cursor was last opened or renewed
on; when it differs from that of its transaction, the cursor points into pages LMDB may have reused.
`renewId` grows without bound and is only compared for equality, so an iterator records whether its
`cursorRenewId` is unset, current or stale.

| Actions | Code |
|---|---|
| `RenewReadTxn`, `Timer`, `ExplicitReset` | `renewReadTxn`, `resetReadTxn` and `TxnWrap` below them |
| `StartGet`, `Get` | single reads, `getStats`, `EnvWrap::getReadTxn` |
| `Iterate`, `AcquireCursor`, `NextResets`, `NextEntry`, `NextDone`, `Return` | `getRange().iterate()`, `resetCursor`, `next`, `return`, `finishCursor`, the renewals of `CursorWrap` |
| `BeginWriteTxn`, `CommitSync`, `LeaveWriteTxn` | `transactionSync`, `executeTxnCallbacks`, `clearWriteTxn` |
| `Commit`, `ResolveAsync`, `ResolveSync`, `MicrotaskReset`, `MicrotaskReaction` | the commit of the write thread and `resolveCommit` |

A call into `read.js` is several actions, so that the write thread may commit between the renewal and the read;
other JavaScript code runs only between calls. All pending timeouts are one boolean: nothing cancels
them, and one that is left over acts as `ExplicitReset`, which is always possible. Assumed of
the program: an iterator is not advanced after it is done, and callbacks of write transactions return no
promises (what happens when they do is in `TxnLock`). Left out: the entries an iterator returns (they are in
`RangeScan`), more than one store, errors, `close()`, child transactions.

### RangeScan

A database is a set of entries `<<key, value>>`; `view` is the content that the cursor's transaction sees, `at` the
entry under the cursor, `out` what `next()` has returned. The B-tree is abstracted to the order of entries; each
`mdb_cursor_` operator is what the function of that name finds, the flags of `doPosition` are the fields of `query`.

| Actions and operators | Code |
|---|---|
| `iterate`, `next`, `return`, `getCount` | the functions of `getRange` in `read.js`; `next` is the whole call, with a renewal when there is one |
| `doPosition`, `FirstEntry`, `FirstOfValues`, `FirstOfRange`, `Visited`, `PastEnd`, `CountAll`, `CountFrom` | `CursorWrap::doPosition` and `returnEntry` |
| `renewReadTxn`, `resetReadTxn` | another read, the timer or a commit, between calls |
| `Commit` | one put or removal, from the queue or another process |

`Wanted`, `Items` and `Answer` are the reference: a query defined on sets, without a cursor. `stable` (the entries that
were there throughout) and `jumped` (what a renewal landed on when the current key was gone) are history.
Assumed: the options of a query mean something together (`Meaningful`), and no key fails to encode.

### CachingStore

`cache[k]` is the entry of the `WeakLRUCache`, pinned or not; `log` holds the asynchronous writes that are not settled,
`executed` and `committed` how far the write thread is, `txns` the ended transactions that `resolveWrites` has not met.
That abstraction of the queue is what `WriteQueue` establishes where no delimiter is bypassed: in order, settled by transaction. A failed
commit rejects its writes and leaves `stored` alone; any one write may fail (an `ifVersion` that does not match, nothing to remove, an error
of LMDB) and is left out.

| Actions | Code |
|---|---|
| `get`, `put`, `putBinary`, `remove`, `clearAsync`, `putSync`, `removeSync`, `clearSync` | the methods of `caching.js` and what they call |
| `Execute`, `Commit` | the write thread |
| `resolveWrites` with `afterCommit`, `Reached` | `resolveWrites` and the `aftercommit` listener |
| `resetReadTxn`, `Collect` | the timer or microtask; eviction and garbage collection |

A synchronous transaction is that of one `putSync`, `removeSync` or `clearSync`. The first two change the cache and may not be applied:
the `ifVersion` does not match, or the transaction is aborted. The writes inside callbacks of asynchronous transactions are left out. `raced` is
history: the keys whose entry was made by a read or a synchronous put that overtook an outstanding write of the key, by a
put that was rejected, or by a synchronous put that was not applied. `CacheFresh` excepts these entries and no others.

### EnvRegistry

`wrap` are the `EnvWrap` objects with the references of their `ObjectWrap`, `handle` the life of each `MDB_env`, `envs`
the registry, `job` the environment that a queued `SyncWorker`, `CopyWorker` or `WriteWorker` was given. The functions
that hold `envsLock` are one action each. A second `close()` of a store throws in `db.close()` and does not reach the environment.
A write transaction left open at `close` is treated as a read transaction is, by `cleanupStrayTxns`, and is not modelled apart.

### EnvSync and DurableStore

`cache` is the file as processes see it, `disk` what a machine crash leaves; a page's content is the number (stamp) of
the transaction that wrote it. A meta carries its id, whether it may be unflushed, and the tree and the free list that
its roots reach, so that the pages of an old snapshot can be compared with what the file holds now. Stamps count
transactions as they begin; ids are LMDB's and are used again after a rollback.

| Actions | Code |
|---|---|
| `mdb_txn_begin`, `mdb_page_touch`, `mdb_page_new`, `mdb_txn_end` | the functions, as far as pages are concerned; `mdb_page_alloc`, `mdb_find_oldest` and the free list are operators |
| `mdb_page_flush`, `mdb_env_write_meta`, `CommitFails` | the two halves of `mdb_txn_commit` and its failure |
| `SyncCall`, `SyncSkip`, `SyncStart`, `SyncWriteMeta`, `SyncFails` | `mdb_env_sync` with overlapping sync |
| `ReaderLoad` ... `ReaderEnd` | the lock-free claim of a reader slot in `mdb_txn_renew0`, one shared access each |
| `WriteBack`, `Crash` | the operating system writes a location back when it likes; the process or the machine stops |
| `OpenRollback`, `OpenRolledBack`, `OpenLatest` | `mdb_env_open` by the only opener |

Assumed: a meta page is written at once; a write through the synchronous descriptor is on disk when it returns;
`fdatasync` returns when the locations that were dirty at the call are on disk. Modelled is one process without
`MDB_WRITEMAP`; the write of a meta page does not fail. `FlushedBias` is `0x10000` in the code, by which a flushed meta
is preferred to an unflushed one; `BiasAssumption` says that fewer transactions than that are unflushed at once.
A consequence of the design that the model shows: commits that were not flushed are rolled back by the next opener also after
a clean close of the process.

`DurableStore` says it without a file: transactions take effect in order, a crash takes back the last ones, never one
that was reported durable. `ImplementsStore` is the refinement: what is visible is what the meta page of `mti_txnid`
holds or, between two processes, what the next one will go on with.

## 3. Runs

The runs of `WriteQueue`, `TxnLock`, `EnvSync` and `EnvRegistry` say `CHECK_DEADLOCK FALSE`: an idle queue with the bound used
up, or a process whose threads have ended, may stop. That nothing stops too early is what the liveness properties say.

| Run | Result | What it shows |
|---|---|---|
| `TurnQueue` | pass, 1.50 M states | three event turns, overlapping sync, conditional blocks, callbacks, commits that fail; links that are replaced and callbacks that are skipped: `TypeOK`, `ExecutedInOrder`, `PromiseTruth`, `SettleCursor`, `ResolvedIsDurable`, `BlockAtomic`, `EffectiveInOwnTxn` |
| `ImmediateQueue` | pass, 1.27 M states | no event-turn batching, so JavaScript publishes while the worker runs: `ConditionsNest`, `HandoffUnique` |
| `TurnLive` | pass, 43 k states | the default options, event turns and batches, refused instructions, commits that fail: `FlushedIsDurable`, `EveryWriteSettles`, `HandedFlushResolves` |
| `LockShare` | pass, 0.27 M states | interruption of a waiting batch, callbacks in both orders: `TxnUnderLock`, `SyncCommitted`, `NoLockCycle`, and under fairness `SyncReturns`, `EveryInstructionRuns` |
| `LockBlocks` | pass, 1.8 M states | synchronous transactions while the write thread is inside a block or waits for a value: `BlockUnsplit`, `CompressedOnce` |
| `ReadShare` | pass, 0.35 M states | two iterators, single reads, write transactions and commits: `CursorLive`, `SnapshotStable`, `CursorExclusive`, `ReadOwnWrites`, `NativeAgrees`, `NoReaderLeak` |
| `OverlapCrash` | pass, 0.82 M states | overlapping sync, two flushing threads, two crashes: `TypeOK`, `RecoveryIntact`, `PagesAccounted`, `ImplementsStore` |
| `PlainCrash` | pass, 0.66 M states | synchronous commits, a reader, two crashes: `RecoveryIntact`, `AckSurvives`, `ReaderIntact` |
| `SharedEnv` | pass, 55 k states | two threads, three wrappers, two paths: `RegistryExact`, `InUseIsOpen`, `AllReleased` |
| `RangeScan` | pass, 1.46 M states | every meaningful query but those of the counterexamples below and value counts with an offset, which `doPosition` ignores when it counts at once: `AnswersExact`, `RenewedOrder`, `StableFound` |
| `CacheRaces` | pass, 1.64 M states | `CacheFresh`, `PinsReleased` |
| `MixedCommits` | violation | `RecoveryIntact` |

Each property of a passing run has a mutant of the code (a dropped guard, a missing reset, a lost
signal) under which TLC finds it violated.

Two more configurations pass and are run by hand: `LockLive.cfg` (`MCTxnLock`: the same
liveness properties with blocks) and `ReadLive.cfg` (`MCReadTxn`, `ReaderReleased`: when iterators
are read to their end, no snapshot is held for ever). The `TypeOK` of the modules whose runs do not list it holds
in the same configurations.

### Bounds

* `MaxSlots`: the first publication of an event turn takes a start, each operation a slot, the end another. 9 slots in `TurnQueue` hold three
  turns, so three workers, and that is where the two delicate cases begin. A link is replaced only with a third delimiter while the first transaction is
  unsettled, and with `ResolveInterval` 4 no write settles it earlier: `ResolvedIsCommitted` is violated in the instance of `TurnQueue` as in
  `LostLink.cfg`. A skipped callback meets a later transaction only with a turn that has a conditional block with a callback and a second turn with a callback of its own:
  `CallbackInOwnTxn` is violated in that instance as well. So the properties of the run are checked where those cases happen.
  With puts, removals, conditional puts and `batch()` besides, 6 slots and two turns pass the same properties (2.30 M states), and the theorems
  are about every set of operations. 5 slots without turn batching (`ImmediateQueue`) hold a nested
  block and three transactions. 6 slots of `TurnLive` hold two turns, so that the second is queued while the worker of the first runs; liveness costs more.
* `ResolveInterval` is 8 in the code and 2 or 4 in the runs, `TxnStartThreshold` 5 and 2,
  `BatchStartThreshold` 1000 and 1: smaller values let the interval, the early start and the
  direct start happen within the bound; no property depends on their value.
* `MaxNesting` 2: a failed block inside a met one and the reverse.
* `MaxInstructions` 3 and `MaxSyncs` 2 in `TxnLock`: one block with one instruction inside, or three
  top-level instructions, and two synchronous transactions, so that the second one meets what the
  first left behind (an interrupted batch, a swallowed signal).

* `Iterators` 2 (1 in `ReadLive`), `MaxCommits` 1: one iterator that keeps its snapshot and one that
  follows, or two of a kind, before and after a commit. `Txns` and `Cursors` stand for objects in use at
  once and are enough never to be exhausted: one per iterator, the shared one and a write transaction; a
  cursor per iterator and the spare. The sets are only compared for equality, so their
  permutations are a symmetry of `ReadShare`; `ReadLive` uses none.
* `EnvSync`: 4 transactions of one or two pages on 4 or 5 data pages: both meta pages are overwritten twice, pages are freed, reclaimed
  and run out; 2 crashes, so that the second meets the rollback of the first; 2 flushing threads, so that an older
  flush can be overtaken; 1 reader. `OverlapCrash` starts with a flushed transaction (see `FirstFlush` below).
* `EnvRegistry`: one thread with two wrappers and one with one, so that an environment is shared within and across
  threads, and a path can be opened again after it was closed.
* `RangeScan`: 3 keys and 2 values: a range has entries before, inside and after it, and a key has two values. 2 commits
  during a query without a snapshot, 1 with one. Offset and limit of 0 or 1.
* `CachingStore`: one key, two values and three unsettled writes: one settled, one executed and one still queued at the
  same moment. Entries of different keys meet only in the range of the listener and in `clear`; two keys with two writes
  (1.5 M states) pass as well.

### Fairness

Weak fairness of the running JavaScript code (synchronous code returns), of the event loop's tasks and of
the delivery of completions, of each worker and each pool thread (the operating system
schedules them; lock holders release) and, in `TxnLock`, of the end of a block
(`finally` in `ifVersion`). The user's next operation is never assumed. `Commit progress`
events are not assumed either: libuv may coalesce them, and completion follows.

In `ReadTxn`: weak fairness of a call that is going on and of the end of a write transaction, strong fairness of the
timer and of microtasks, which are enabled only between calls, and of advancing each open iterator to its end: the
event loop reaches its timers, and the program finishes its loops. Without the last, an iterator that is
abandoned holds its snapshot for ever, as `README.md:198` of the library warns.

### Counterexamples

* `MixedCommits` (`mdb.c:4520`): with `overlappingSync`, the write thread's commits are not flushed, but
  `transactionSync` and `putSync` begin without `MDB_NOSYNC` (`env.cpp:623`), and their commits are. Such a commit moves
  `me_synced_txn_id` on without touching the flushed meta in page 0. Transactions 2 and 3 commit synchronously, so the pages of transaction 1 are free and
  reused; 4 and 5 are queued writes and overwrite both meta pages. A crash now leads back to the flushed meta of transaction 1,
  whose page was written over. `RecoveryIntact` holds when all commits are of one kind.

The other configurations are violated as well, and are run by hand:

* `LostLink.cfg` (`MCWriteQueue`, `ResolvedIsCommitted`, `write.js:372`): `queueCommitResolution` sets `nextTxn` of the oldest unsettled
  transaction. With a first transaction unsettled and two more delimiters seen, the second link replaces the
  first. The transaction between them is bypassed: its promises are settled with those of the next one, as that one ended, so
  those of a failed commit resolve. `src/README.md:112` says that a promise resolves once the
  transaction "has finished committing". `TurnQueue` has such links and shows that this is all that goes wrong.
* `SkippedCallback.cfg` (`MCWriteQueue`, `CallbackInOwnTxn`, `write.js:385`): a `USER_CALLBACK` inside a block whose condition failed is marked
  finished with `FAILED_CONDITION`; `resolveWrites` queues its callbacks regardless, and they run at the next
  callback progress event, in a later transaction. `src/README.md:124` promises the
  "same transaction as other operations" queued with it. `TurnQueue` has such callbacks too: those that take effect are not disturbed.
* `StrandedFlush.cfg` (`MCWriteQueue`, `EveryFlushResolves`, `write.js:341`): `startWriting` takes the flush resolvers
  collected so far; a flush promise that a later write of the same transaction
  creates is resolved only when another worker is started. `HandedFlushResolves` says what remains true: those that were taken.
* `RefusedPut.cfg` (`MCWriteQueue`, `TrueIsWritten`, `writer.cpp:313`): a put that LMDB refuses, for example because its database was dropped, is reported on the
  console and marked failed, and the transaction commits; the promise of a put without a condition is the shared one and resolves to
  `true`. Other flush promises of that worker never resolve, since its completion goes to the error callback.
* `StaleFlush.cfg` (`MCWriteQueue`, `FlushedIsDurable`): with `eventTurnBatching` off, the start of a `batch()` is published
  when the batch ends, and its closure is the one that meets the delimiter and drops `flushPromise` (`write.js:268`). A
  conditional put inside the batch runs its closure before that (`write.js:332`) and gets the flushed promise of the transaction before,
  which may have resolved: `flushed` (`src/README.md:401`) then says so of a write that has not been executed.
* `FirstFlush.cfg` (`MCEnvSync`, `RecoveryIntact`): on a new file the metas carry `MDB_OVERLAPPINGSYNC` (`mdb.c:4663`), so
  before the first flush the newer one is preferred (`mdb.c:4547`), although its pages may not be on disk.
* `HookAfterClose.cfg` (`MCEnvRegistry`, `HookAlive`): `close()` drops the reference and the wrapper is collected; the
  cleanup hook of `env.cpp:253` still refers to it when the thread ends.
* `CloseBusy.cfg` (`MCEnvRegistry`, `InUseIsOpen`): `close()`, or the end of a thread, with work queued closes the
  environment that a pool thread is about to use.
* `TwoSpellings.cfg` (`MCEnvRegistry`, `OneEnvPerFile`): paths are compared as strings (`env.cpp:265`); two spellings of
  one file open it twice, which `lmdb.h` forbids.
* `ReverseStart.cfg` (`MCRangeScan`, `ScanExact`): a reverse range over a `dupSort` database whose start key exists begins at
  the first value of that key, so its other values are missing (`cursor.cpp:201`).
* `OffsetCount.cfg` (`MCRangeScan`, `CountExact`): `getCount` with an offset in a `dupSort` database skips values and then
  counts all the values of the key it stopped in (`cursor.cpp:210`).
* `RenewedDup.cfg` (`MCRangeScan`, `RenewedOrder`): `snapshot: false` over a `dupSort` database repositions at the
  first value of the current key after a renewal and returns values again (`read.js:283`).
* `DeletedKey.cfg` (`MCRangeScan`, `NothingLost`): a renewal after the current key was removed positions at
  the following entry and then moves past it (`read.js:283`).
* `PinnedPut.cfg` (`MCCachingStore`, `PinnedUntilCommitted`): `README.md:335` of the library says that puts "are pinned in the
  cache until committed"; the listener reaches the first unwritten write as well (`write.js:456`, `caching.js:24`) and finds entries
  by key, so settling an earlier write unpins or deletes the entry of a later one.
* `StaleCache.cfg` (`MCCachingStore`, `NeverStale`): a read between `remove()` and its commit, a `putSync` over an outstanding
  put or one that is not applied (`caching.js:88`), or a rejected commit leaves an entry that differs from the store.
* `StraySignal` (`writer.cpp:90`): a synchronous transaction ends while the write thread waits for a
  compressed value; its signal wakes the write thread, which finds the value ready and
  goes on to wait for callbacks; a second synchronous transaction interrupts it and waits; now
  the compression thread sends the signal it owed, JavaScript takes it for the answer and
  blocks in `mdb_txn_begin` with `writingLock` held, while the write thread needs the lock to commit.

* `UnsyncedCommit.cfg` (`MCWriteQueue`, `ResolvedIsDurable`): `Write` drops the result of `mdb_env_sync` and reports
  `TXN_COMMITTED` (`writer.cpp:364`).
* `AsyncCallback.cfg` (`MCTxnLock`, `CommitDeferred`): `executeTxnCallbacks` is an `async` function; at its first
  `await` the native caller releases the lock, and `finishedProgress` is already set (`writer.cpp:388`), so the commit
  does not wait for the promise of a callback.
* `SharedSync.cfg` (`MCTxnLock`, `SyncCommitted`): `putSync` called inside an `ifVersion` callback whose block the
  write thread already waits in works in the write thread's transaction and returns before it is committed.
* `AsyncSync.cfg` (`MCTxnLock`, `NoSelfLock`): while an asynchronous `transactionSync` callback awaits, the
  progress event of the interrupted batch locks a mutex that the same thread holds.
* `AbortShared.cfg` (`MCTxnLock`, `AbortHasTxn`): in writemap mode, `ABORT` in a shared transaction throws after
  the transaction was let go, and the handler aborts once more.

## 4. Proofs

TLC checks the runs above on small instances; the theorems below hold for every value of the constants that
satisfies the assumptions named in the modules (`OptionsAssumption`, `BoundsAssumption`, `ReadBounds`, `RegistryAssumption`
and so on: finite sets, bounds that are natural numbers) and, where it says so, a further hypothesis. Each module proves
one inductive invariant, or one on top of another; the properties follow from it. Every inductive invariant was first checked by
TLC as an invariant of the runs of its module.

### WriteQueueProofs

`WriteQueueProofs` proves, for every `MaxSlots`, `MaxNesting`, threshold, set of operations and
option, from the assumptions `OptionsAssumption` and `BoundsAssumption` of `WriteQueue`:

* `TypeCorrect`: `Spec => []TypeOK`;
* `HandoffCorrect`: `Spec => []HandoffUnique`;
* `OrderCorrect`: `Spec => []ExecutedInOrder`;
* `InvariantCorrect`: `Spec => []IInv`, from which the three follow.

None of the three is inductive. The argument is about the frontier, the slot
behind the last executed one. `HandoffUnique` says that exactly one of a running worker, a
pending start address and an open delimiter holds the right to continue; `FrontierInv` says
that its holder is at the frontier and that a running worker's `conditionDepth` is the nesting depth of
the blocks recorded there. To keep this, a worker may only delimit outside of all blocks, which needs that
nesting depths of consecutive slots differ by what the instruction between them opens or closes
(`NestInv`, `BatchInv`). The delicate step is the plain store of `PublishStore`: it must not erase a
`TXN_DELIMITER`. Inside a batch the slot has an enclosing block, so a worker that reaches it has depth
at least 1 and does not delimit; the outermost start, written at depth 0, uses the atomic path (`ResolutionInv`,
`CallInv`). That a deferred block start is published once needs `DeferredInv` and `PromiseInv`, and that
nothing beyond the reserved slots is published `WordInv`. The proof has one lemma per action or
group of actions, on top of lemmas about the records, sequences and nesting.

On top of `IInv`, with no further hypothesis: `BlockAtomicCorrect` (`BlockAtomic`) and `ConditionsNestCorrect`
(`ConditionsNest`) from `BlocksInv`, and `SettleCursorCorrect` (`SettleCursor`) from `CursorInv`.

Blocks: `ShapeInv` says how each reserved instruction changes the list of open blocks, `InsideInv` that a block is reserved before what is in it. The
core is `ActiveInv`, about the one worker that may go on: it ran the start of every block that is open at the frontier, and its
`validatedDepth` is the number of blocks, from outside, up to the first whose condition failed. Steps that reserve slots leave what is known
of the frontier alone (`GrowStep`), a new worker starts where no block is open (`NewWorkerOutside`, from `FrontierInv`), and
`ExecutedBlocks` does the one step that extends the history.

Cursors: `CursorInv` relates the list of resolutions, walked by JavaScript, to what the workers have executed. Resolutions lie in the
order of their slots (`OrderInv`), every slot before the frontier is published and none after it is marked finished (`ExecutedInv`). A
resolution is linked only as a delimiter at which the execution stopped, so everything before it has been executed, and a link always
leads ahead (`LinkInv`). The sweep lets go only of what has been executed (`SweptInv`); it stays behind the linked
delimiters because a closure that is still between publishing and returning is at or after the last of them. That is
the delicate part: a closure can be interrupted by the publication of a deferred block start, which lies before it
(`TurnInv`), and a worker's callback may link the placeholder, which no closure has published (`Is(nextResolution)`, possible
only outside of every block). The invariant does not say that every delimiter stays in the list, since `QueueCommitResolution` can overwrite
a link (`LostLink.cfg`): `SettleCursor` holds nevertheless.

### WriteQueueTruthProofs

On top of `IInv` and `CursorInv`, of every behaviour: `GroupCorrect`, how writes are grouped into transactions; `TruthCorrect`, how they are
settled; `DiskCorrect`, what is on disk; `PromiseTruthCorrect` (`PromiseTruth`) and, where `~SyncCanFail`, `ResolvedDurableCorrect`
(`ResolvedIsDurable`). `SyncCanFail` is excluded there because of `UnsyncedCommit.cfg`.

The code may replace a link of the list of delimiters (`LostLink.cfg`), and nothing is assumed about it. `Bypassed` names the
consequence: a delimiter strictly inside a link is never the one at which `resolveWrites` stops, and the writes of its transaction are
settled with those of the next delimiter in the chain. `PromiseTruth` says that every settled promise had its transaction ended, and that the answer is right
unless that transaction was bypassed; `ResolvedIsDurable` that what resolves is on disk, unless its transaction was bypassed and failed. The proof
needs that what is skipped stays skipped (`SkipsKept`), that at most two delimiters which are not lie ahead of what is settled, and
that a bypassed transaction had been decided before the later one whose end answers for it (`DecidedBefore`, from `DiskInv`).

`PromiseTruth` relates a promise to a transaction that ended long before, through four places that each hold a part of the answer; the invariant
`TruthInv` follows it through them. Its first part, `GroupInv`, depends on no link; the second, `AnswerInv`, does.

* The history of the workers (`HistoryInv`; with the lemmas about the steps of the workers, it is at the end of `WriteQueueProofs`). `TxnInv`: transactions are consecutive spans of the executed instructions, each closed
  at a delimiter of its own. `OutcomeInv`: how they ended. `OpenInv`: a delimiter in the queue that nobody published into is the end of a
  closed transaction. `MarkInv`, `LoadedInv`, `ToldInv` and `FinishedInv`: a word says `TXN_COMMITTED` or `TXN_FAILED` only of the transaction that ended there,
  and of its own instruction whether its condition held, also between a worker's load of a word and its plain store.
* The delimiters (`ListInv`). `ListedInv`: every delimiter into which something was published is marked as one (`isTxn`), and only ends of
  transactions are. `ReadInv`: what the sweep of `resolveWrites` read of a word is the outcome of its instruction, and when it ends it has passed every delimiter.
* The promises (`PromisesInv`). `UnpublishedInv`, `DeferInv`, `NestedInv` and `HoldInv` say which reservations have no promise yet, and
  whose `currentWritePromise` theirs will be. `SharedInv`, `AssignedTo` and `JoinInv`: a write that shares the promise of an earlier one shares
  it only with writes that no end of a transaction can separate from it. That is where blocks, deferred starts and the check of the previous
  word in `writeInstructions` come together.
* The answers (`AnswerInv`). `ChainInv`: of the delimiters ahead of what is settled, at most two are not skipped. `SettledInv`:
  what was settled had its transaction ended, and is answered as that one ended unless it was bypassed.

`SettledTogether` puts these together: a promise settled by one delimiter is settled for writes of the transaction that ended there.

#### User callbacks

In the second part of `WriteQueueTruthProofs`, on top of `IInv`, `BlocksInv`, `CursorInv` and `GroupInv`: `CallbackCorrect` and `EffectiveInOwnTxnCorrect` of every behaviour, and
`CallbackInOwnTxnCorrect` (`CallbackInOwnTxn`) of programs without conditional blocks.

`CallbackInv` follows a user callback from its reservation to its call. `ListedCallbacks`: a callback that did not run hangs on one
resolution, its own or the one before it (the closure that opens an event turn reserves two slots), or `resolveWrites` has collected it; none
hangs on two. `WaitInv`: while a worker waits, what was collected has been executed, so the answer runs no callback too early. `LockInv` and
`AnsweringInv`: the lock is held by a worker inside its transaction or by the progress event that answers a waiting one, never by both.
`EffectInv` joins them: a callback that takes effect and did not run belongs to a transaction that is open and was not answered, and once the
answer's sweep is over it is among those collected. The delicate part is that the answer's sweep must
reach every slot that the worker executed and collect nothing beyond, also where a start carries the callback of the slot after it: a worker that
waits has marked all it executed, the sweep ends at the first word that is not marked, and a start is published after what follows it.

`EffectiveInOwnTxn` is about callbacks whose instruction takes effect. The other ones are why `CallbackInOwnTxn` needs
`"COND" \notin Operations`: a callback inside a block whose condition failed is skipped by the worker and run all the same (`SkippedCallback.cfg`).
Without conditional blocks every callback takes effect (`PlainInv`, from `ConditionsNest`).

#### Flush promises

At the end of `WriteQueueTruthProofs`, on top of all of these: `FlushCorrect` and `FlushedDurableCorrect`
(`FlushedIsDurable`), for behaviours with `TurnInOrder`: event-turn batching with any blocks, or no blocks.

A flush promise is not tied to a transaction: a closure hangs the current one on its write, `startWriting` hands those created so far to
the next worker, and it resolves when that worker is done. What makes this right is an order between four places. `CarrierInv`: the write
that carries a flush promise lies before the end of the transaction of the worker that resolves it. To keep it, the closure that gives a write
its flush promise must not find one that a worker with a closed transaction already resolves. `GivenUpInv` says that such a one is
given up by whoever publishes at the end of that transaction, and `AheadInv` that nobody publishes further on before: while the
start of an event turn is not published, no worker resolves a flush promise of a write in that turn. `UsedInv` says that the flush promises in use
were created by closures that are done with it, so a new one is new, and `FlushedInv` that what was flushed was resolved by a worker that
committed. `DiskInv` then says what is on disk: with overlapping sync the sync of one worker makes durable what earlier ones
committed, and a worker starts only when the commit of the one before it was decided (`LockInv`).

`TurnInOrder` is where the code ends: with `eventTurnBatching` off, `batch()` publishes its start when it ends, and `AheadInv` is false
(`StaleFlush.cfg`). `~SyncCanFail` is needed as above. Where commits fail, a flush promise also resolves for writes of a failed transaction,
if a later one resolves it; `FlushedIsDurable` says that nothing else is missing from disk.

### TxnLockProofs

For any number of instructions and synchronous transactions: `LockTyped` (`TypeOK`), `TxnUnderLockCorrect`,
`BlockUnsplitCorrect` and `CompressedOnceCorrect` without further hypothesis; `NoLockCycleCorrect` for programs whose
values are not compressed (`"ZIP" \notin Operations`); `SyncCommittedCorrect` for programs that in addition have no
conditional blocks and no `transactionSyncStart`.

None is inductive. `LockInv` says at which points of the two threads' code `writingLock` and LMDB's transaction are held; it needs
`OfferInv`, that a batch is offered for a split only while its thread waits outside all blocks, since the thread
that takes the offer ends the transaction of the other. `BlockInv` ties `conditionDepth` to the block that is open at the
position of the write thread; with it, `BlockUnsplit` follows for instructions long executed. `ZipInv` relates the compression
word to the two threads that exchange it. `SignalInv` and `CommitInv` are inductive relative to these.

The hypotheses are where the code ends, not where the proof does. With compressed values, the signal that the compression thread
still owes wakes the wrong waiter, and the invariant about who answers an interruption is false (`StraySignal.cfg`); with
blocks, `putSync` inside one returns before its commit (`SharedSync.cfg`).

### ReadTxnProofs

For any number of iterators, transactions, cursors and commits: `ReadTyped` (`TypeOK`) and one theorem for each of
`CursorLive`, `SnapshotStable`, `CursorExclusive`, `ReadOwnWrites`, `NativeAgrees` and `NoReaderLeak`.

The two counts that `read.js` keeps on a transaction decide whether `resetReadTxn` resets it, hands it over to the iterators
on it, or `finishCursor` ends it. `CountInv` says that they are cardinalities: of the iterators on the transaction, and of those among them that
follow it. `SharedInv` says in which state each transaction is and that one that is not shared any more is active and has
iterators; without the exact counts it is not preserved by `Return` and `NextDone`. `IterInv` gives what an iterator may
rely on in each of its three states, including that the cursor points into the transaction's own snapshot unless it carries
the flag that makes native code renew it. `AvailableInv` is about the spare cursor, whose transaction may have been
reset and renewed since; `SeenInv` about the microtasks: a reaction has a reset ahead of it or the shared
transaction is new enough.

### RangeScanProofs

For any finite sets of keys and values and any number of writes: `ContentsCorrect` of every set of queries, and one theorem for
each property under a condition on the queries in `Scans`:

* `SnapshotScans`: `ScanExactCorrect` (`ScanExact`); with `CountScans` too, `AnswersExactCorrect` (`AnswersExact`: iterations and counts);
* `RenewedScans`: `RenewedOrderCorrect` (`RenewedOrder`) and `StableFoundCorrect` (`StableFound`).

The queries of the run `RangeScan` satisfy all three. What they leave out is false or means nothing: reverse queries from a
start key over all values of a `dupSort` database (`ReverseStart.cfg`), an offset where the count is computed at once or key by key
(`OffsetCount.cfg`), `dupSort` databases without a snapshot (`RenewedDup.cfg`), the values of one key asked for without `values`, and
an existence test in reverse or of no value. `RenewedScans` also leaves out the values of one key without a snapshot.

The reference is defined on sets, the code walks a cursor; what joins them is the place of an item, the number of items of the
answer that come before it. `FirstStep` says that the entry `doPosition` starts from leads all that the query reaches, and `MoveStep` that a
cursor move goes to the next item. So the i-th move meets the item of place i, or the end once there is none
(`Meets`, `NextPlace`, `VisitedPlaces`), and an answer is determined by its places (`PlaceUnique`, `AnswerPlaces`). The offset, `next()` and a
count by steps (`CountRun`, `StepsExact`) are such moves. A count by keys adds up how many values each key has; `KeysExact` matches the pairs it
counts one to one with the entries of the answer. These are inductions over the number of moves, each by a
least counterexample (`LeastNumber`), so that no theorem with an operator parameter is instantiated.

Over these lemmas the invariants are short: `ScanInv` says that a query with a snapshot has returned the items of the first places after the
offset, `CountInv` that a count was computed over the content of its transaction. Across renewals places shift, and only keys
keep a meaning: `OrderInv` says that what was returned is in the order of its keys and that the cursor is at the last of them, which is where
`RenewedMove` resumes. `StableInv` says that an entry that stayed in the database was returned, is still ahead, or is what a renewal
landed on and then moved past.

### EnvRegistryProofs

For any number of wrappers, threads, paths and reads, over a finite set of wrappers: `RegistryTyped` (`TypeOK`);
`RegistryCorrect` (`RegistryExact`), where every path string names a file of its own; `UseCorrect` (`InUseIsOpen`), where no
wrapper is closed while work is queued on it; `ReleaseCorrect` (`AllReleased`) without further hypothesis.
`TwoSpellings.cfg` and `CloseBusy.cfg` show that both hypotheses are needed.

`RefsInv` counts the references of a wrapper by its open transactions, `UseInv` says what a wrapper may point to in each part of
its life, `EntryInv` that entries and open environments correspond, and `CountInv` that the count of an entry is the cardinality of its
users. A close or the end of a thread lowers the count of an entry that other threads raise in between; that the last one closes it
is `CountInv` with `Cardinality = 0`.

### EnvSyncProofs

For any file size, number of readers, threads in `mdb_env_sync`, transactions and crashes, where all commits are of
one kind: `TypeCorrect`, `RecoveryCorrect`, `AckCorrect`, `ReaderCorrect`, `PagesCorrect`, and the refinement
`StoreCorrect` (`Spec => ImplementsStore`). `OneKind` says that with overlapping sync no commit is flushed at
once, as the write thread makes them, and that the file has a flushed meta; and that without it all commits are flushed. Both
are needed: `MixedCommits` and `FirstFlush.cfg` show what happens otherwise.

The core of the invariant is `Held`: the metas whose pages are all in the file as written, and are in no part of the free list that
a transaction may take, before or after its own commit is saved. The newest meta, the flushed one, the one that `mdb_env_sync` is
flushing, and those of readers are held (`OpenInv`, `FlushInv`, `ReaderInv`). One lemma per action shows that what is held stays held; a
new page comes from records of the free list not above `pgoldest`, and `mdb_find_oldest` is not above the id of anything
held. `TxnInv` says that what an open transaction would save accounts for every page, also while it cuts the records it uses; this
makes `PagesAccounted` inductive. `RecoveryInv` says of the next opener's choice, on both copies of the file, that all its pages are
intact. `SlotInv` relates the meta pages to ids, `StampInv` bounds stamps so that a rolled-back id may be used again, and
`CallInv` says which transactions a caller waits for.

The refinement maps `Current`, what is visible, and `acked` to the variables of `DurableStore`. Each action is shown to be a
commit of the next transaction, a report that transactions are durable, a crash that takes back the last unreported ones, or
a stutter. A crash alone is a stutter where the choice of the next opener has been made already: the loss is in
`Current` as soon as no environment is open.

### CachingStoreProofs

For any set of keys and number of writes, without further hypothesis: `CacheTyped` (`TypeOK`), `CacheFreshCorrect` and
`PinsReleasedCorrect`.

What `resolveWrites` does in one call depends on a stretch of the log; `Applied`, `Settling` and `afterCommit` say so with the last
write of a key in the stretch, so that the proof needs no induction over the log. `EntryInv` says what an entry holds that no overtaking
read made: with writes of its key unsettled, the value of the last of them, which is a put, and the store holds the same once that one is
committed and was neither failed nor rejected; with none, what the store holds. A synchronous put that is not applied changes the entry and not the store, so
its key is one that `EntryInv` excepts until the entry is replaced or gone. `TxnsInv` says that `resolveWrites` will meet every commit, `ReadInv` that
a cached read transaction that differs from the store has the end of a transaction still ahead of it, which resets it. `PinInv` says that a pinned
entry has a put in the log, so an empty log leaves none pinned.

### Only model-checked

* Liveness (TLAPS has no rules for `ENABLED` and fairness): `EveryWriteSettles`, `HandedFlushResolves`, `SyncReturns`,
  `EveryInstructionRuns`.

Nothing here is defined with `RECURSIVE`.

## 5. Not modelled

Most lines of the repository are vendored: two copies of LMDB (23,600 lines of C), LZ4, and headers of V8.
Of LMDB, `EnvSync` has the parts this repository changed and what they rely on. Its B-tree (search, split, merge, overflow and
sub-pages), page format, copying and encryption are sequential algorithms on bytes whose properties need trees larger than
a model checker can enumerate; `RangeScan` takes their result, the order of entries, as given. `lmdb-data-v1` is an older release
of the same code. A second process is left out: `mdb_env_open2` of one that joins sets `mti_txnid` from the meta page it read
(`mdb.c:5515`), possibly back. So are nested transactions, spilled pages, `MDB_WRITEMAP`, a failing write of a meta page and the wrap-around of
ids.

The MessagePack and ordered-binary encoders, the instruction buffer's bytes, the type declarations, the Deno and Bun shims and the
loading of native code carry no protocol. `childTransaction`, puts of a caching store inside transaction callbacks, versions as
values, `commitDelay > 0`, resizing of the map and `RangeIterable` are not modelled.

Further things noticed in the code and not covered by a property: `mdb_txn_begin` failing in `Write()`
returns with `writingLock` held (`writer.cpp:342`); `DoWrites` ignores the result of
`WaitForCallbacks` (`writer.cpp:244`); the condition check of an instruction reads into the `MDB_val` that holds the
value to put (`writer.cpp:213`); `put` with an options object reads the undefined
`versionsOrOptions` (`write.js:544`); `clearImmediate` is used for a `setTimeout` handle when `commitDelay > 0`
(`write.js:338`); an iterable that was iterated in a write transaction follows the shared transaction in later
iterations (`read.js:194`); finishing an iterator twice lowers the counts twice (`read.js:293`).

## 6. Plan

In this order:

1. `AsyncWriter`: the abstract promise of the queue (writes grouped into transactions, executed in order,
   settled with their transaction), and `WriteQueue` shown to implement it; `CachingStore` on top of it.
2. `ConditionBlocks`: `DoWrites` on versions and values against a reference semantics of conditions.
3. A second process in `EnvSync`; `childTransaction` in `TxnLock`.
