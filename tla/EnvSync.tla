------------------------------ MODULE EnvSync ------------------------------
(***************************************************************************)
(* How an environment's data file is written, flushed and recovered:       *)
(* dependencies/lmdb/libraries/liblmdb/mdb.c, with the changes this        *)
(* repository made there for MDB_OVERLAPPINGSYNC.  A write transaction     *)
(* copies the pages it changes, takes the new ones from the free list or   *)
(* from the end of the file, writes them, and commits by writing one of    *)
(* two meta pages.  With overlapping sync the commit is not flushed; a     *)
(* later mdb_env_sync flushes the file while further transactions run and  *)
(* then records the flushed transaction in a third meta, in the second     *)
(* half of page 0.  After a crash the opener goes back to the newest       *)
(* meta that is known to be flushed.                                       *)
(*                                                                         *)
(* The file has a page cache and a disk.  The operating system writes a    *)
(* location back whenever it likes; fdatasync waits for the locations that *)
(* were dirty when it was called; a machine crash keeps only the disk.     *)
(***************************************************************************)
EXTENDS Integers, FiniteSets, FiniteSetsExt

CONSTANTS
  LastPage,       \* bound on the file's size, in pages
  Readers,        \* reader slots of the lock file
  Syncers,        \* threads that call mdb_env_sync
  Overlapping,    \* MDB_OVERLAPPINGSYNC
  NoSyncs,        \* the values of MDB_NOSYNC that write transactions begin with
  Flushed,        \* start with a flushed transaction, or with a new file
  MaxTxns,        \* bound on write transactions
  MaxWrites,      \* bound on the pages a transaction writes
  MaxCrashes,     \* bound on crashes
  FlushedBias     \* what a flushed meta counts for beyond its id (0x10000)

Metas == {0, 1}                    \* the two meta pages
FlushedMeta == -1                  \* the third meta, at psize >> 1 of page 0
Pages == 2 .. LastPage             \* data pages
Locations == Pages \cup Metas \cup {FlushedMeta}
Stamps == 0 .. MaxTxns             \* a transaction's number in order of begin; 0: none
Ids == 0 .. MaxTxns + 1            \* txnid_t

ASSUME FileAssumption ==
  /\ LastPage \in Nat /\ LastPage >= 2
  /\ Overlapping \in BOOLEAN /\ Flushed \in BOOLEAN
  /\ NoSyncs \subseteq BOOLEAN
  /\ MaxTxns \in Nat \ {0} /\ MaxWrites \in Nat /\ MaxCrashes \in Nat
  /\ Flushed => Overlapping

\* Fewer transactions are in flight than a flushed meta is preferred by.
ASSUME BiasAssumption == FlushedBias \in Nat /\ FlushedBias > MaxTxns + 1

VARIABLES
  cache,     \* page cache: the content of each location; a page's is the stamp of its writer
  disk,      \* what a machine crash leaves
  env,       \* "open", "down", or "rollback" while mdb_env_open rolls back
  mti,       \* mti_txnid of the lock file
  synced,    \* me_synced_txn_id
  pgoldest,  \* me_pgoldest
  wtxn,      \* the write transaction (me_txn0, under me_wmutex)
  syncer,    \* the calls of mdb_env_sync
  reader,    \* the read transactions and their slots
  stamp,     \* transactions begun so far
  crashes,
  acked      \* stamps of transactions whose caller was told that they are durable

vars == <<cache, disk, env, mti, synced, pgoldest, wtxn, syncer, reader, stamp, crashes, acked>>

----------------------------------------------------------------------------
(* Metas: the MDB_meta of a transaction, with the tree and the free list   *)
(* that its roots reach.  tree[p] is the stamp of the transaction that     *)
(* wrote p as a page of this tree, free[k] the pages recorded under key k, *)
(* done the transactions whose changes it holds.                           *)

Meta == [id : Ids, unsynced : BOOLEAN, tree : [Pages -> Stamps],
         free : [Ids -> SUBSET Pages], last : 1 .. LastPage, done : SUBSET Stamps]

\* A new file's metas take the environment's flags, MDB_OVERLAPPINGSYNC too.
EmptyMeta == [id |-> 0, unsynced |-> Overlapping, tree |-> [p \in Pages |-> 0],
              free |-> [k \in Ids |-> {}], last |-> 1, done |-> {}]

FirstMeta == [EmptyMeta EXCEPT !.id = 1, !.tree[2] = 1, !.last = 2, !.done = {1}]

Slot(id) == id % 2

\* Mutant: MDB_PREVSNAPSHOT left set.
OlderMeta(a, b) == IF a.id > b.id THEN b ELSE a

\* mdb_pick_meta without MDB_PREVSNAPSHOT.
Newer(a, b) == IF a.id >= b.id THEN a ELSE b

\* mdb_pick_meta with it: a flushed meta before one that may not be.
Rank(m) == m.id + (IF m.unsynced THEN 0 ELSE FlushedBias)
Safer(a, b) == IF b.id = 0 \/ Rank(a) > Rank(b) THEN a ELSE b

Latest(f) == Newer(f[0], f[1])
Safe(f) == Safer(Safer(f[0], f[1]), f[FlushedMeta])

\* Mutant: fdatasync returns at once.
SyncNothing(f, d) == {}

\* mdb_env_sync0: fdatasync waits until these locations are on disk.
mdb_env_sync0(f, d) == {l \in Locations : f[l] # d[l]}

NoTxn == [pc |-> "none", nosync |-> FALSE, stamp |-> 0, meta |-> EmptyMeta, freed |-> {},
          pghead |-> {}, pglast |-> 0, pend |-> {}]
NoSync == [pc |-> "idle", last |-> 0, want |-> {}, meta |-> EmptyMeta, pend |-> {}]
NoRead == [pc |-> "none", loaded |-> 0, slot |-> {}, meta |-> EmptyMeta]

----------------------------------------------------------------------------
(* Page allocation.                                                        *)

\* Mutants: the oldest transaction as without overlapping sync; the reader
\* slots forgotten.
OldestUnsynced == Min({wtxn.meta.id - 1} \cup UNION {reader[r].slot : r \in Readers})
OldestUnread == IF Overlapping THEN synced ELSE wtxn.meta.id - 1

\* mdb_find_oldest: what was last flushed, or the transaction before this
\* one, or the oldest transaction in a reader slot.
mdb_find_oldest ==
  Min({IF Overlapping THEN synced ELSE wtxn.meta.id - 1} \cup UNION {reader[r].slot : r \in Readers})

Records == {k \in Ids : k > wtxn.pglast /\ wtxn.meta.free[k] # {}}

\* The loop's value of oldest: the one it remembers, until it stops a record.
Oldest ==
  LET next == IF Records = {} THEN wtxn.pglast + 1 ELSE Min(Records)
  IN  IF pgoldest <= next THEN mdb_find_oldest ELSE pgoldest

\* The loop reads the next record only when no reclaimed page is left.
Fetched ==
  IF wtxn.pghead # {} \/ Records = {} \/ Oldest <= Min(Records)
  THEN wtxn
  ELSE [wtxn EXCEPT !.pghead = wtxn.meta.free[Min(Records)], !.pglast = Min(Records)]

NewPage == IF Fetched.pghead # {} THEN Min(Fetched.pghead) ELSE wtxn.meta.last + 1

\* mdb_page_alloc: the transaction after it took NewPage.
mdb_page_alloc ==
  IF Fetched.pghead # {}
  THEN [Fetched EXCEPT !.pghead = @ \ {NewPage}]
  ELSE [Fetched EXCEPT !.meta.last = NewPage]

TxnPages == {p \in Pages : wtxn.meta.tree[p] = wtxn.stamp}

\* Give the tree NewPage in the place of the pages in old (one or none).
WritePage(old) ==
  /\ wtxn.pc = "open"
  /\ Cardinality(TxnPages) < MaxWrites /\ NewPage <= LastPage
  /\ wtxn' = [mdb_page_alloc EXCEPT
                !.freed = @ \cup old,
                !.meta.tree = [p \in Pages |-> IF p = NewPage THEN wtxn.stamp
                                               ELSE IF p \in old THEN 0 ELSE @[p]]]
  /\ pgoldest' = IF wtxn.pghead = {} THEN Oldest ELSE pgoldest
  /\ UNCHANGED <<cache, disk, env, mti, synced, syncer, reader, stamp, crashes, acked>>

mdb_page_touch ==
  \E p \in Pages : wtxn.meta.tree[p] \notin {0, wtxn.stamp} /\ WritePage({p})

mdb_page_new == WritePage({})

----------------------------------------------------------------------------
(* Write transactions.                                                     *)

\* Mutant: the id counts on twice.
TxnBeginSkipsId(nosync) ==
  /\ env = "open" /\ wtxn.pc = "none" /\ stamp < MaxTxns
  /\ stamp' = stamp + 1
  /\ wtxn' = [NoTxn EXCEPT
                !.pc = "open", !.nosync = nosync, !.stamp = stamp + 1,
                !.meta = [cache[Slot(mti)] EXCEPT !.id = mti + 2, !.done = @ \cup {stamp + 1}]]
  /\ UNCHANGED <<cache, disk, env, mti, synced, pgoldest, syncer, reader, crashes, acked>>

\* Under the writer's mutex: start from the meta page of mti_txnid.
mdb_txn_begin(nosync) ==
  /\ env = "open" /\ wtxn.pc = "none" /\ stamp < MaxTxns
  /\ stamp' = stamp + 1
  /\ wtxn' = [NoTxn EXCEPT
                !.pc = "open", !.nosync = nosync, !.stamp = stamp + 1,
                !.meta = [cache[Slot(mti)] EXCEPT !.id = mti + 1, !.done = @ \cup {stamp + 1}]]
  /\ UNCHANGED <<cache, disk, env, mti, synced, pgoldest, syncer, reader, crashes, acked>>

\* mdb_txn_abort, and the commit of a transaction that wrote nothing.
mdb_txn_end ==
  /\ wtxn.pc = "open"
  /\ wtxn' = NoTxn
  /\ UNCHANGED <<cache, disk, env, mti, synced, pgoldest, syncer, reader, stamp, crashes, acked>>

\* Mutant: used records stay.
RecordsKept == [wtxn.meta.free EXCEPT ![wtxn.meta.id] = wtxn.freed]

\* mdb_freelist_save: the records used up go, what is left of them stays
\* under the last one's key, and the pages this transaction freed get its own.
mdb_freelist_save ==
  [k \in Ids |->
     IF k = wtxn.meta.id THEN wtxn.freed
     ELSE IF k <= wtxn.pglast THEN (IF k = wtxn.pglast THEN wtxn.pghead ELSE {})
     ELSE wtxn.meta.free[k]]

\* The first half of mdb_txn_commit: save the free list, write the pages and,
\* without MDB_NOSYNC, call fdatasync.
mdb_page_flush ==
  /\ wtxn.pc = "open" /\ TxnPages # {}
  /\ cache' = [l \in Locations |-> IF l \in TxnPages THEN wtxn.stamp ELSE cache[l]]
  /\ wtxn' = [wtxn EXCEPT !.pc = "flushed",
                          !.meta.free = mdb_freelist_save,
                          !.meta.unsynced = wtxn.nosync /\ Overlapping,
                          !.pend = IF wtxn.nosync THEN {} ELSE mdb_env_sync0(cache', disk)]
  /\ UNCHANGED <<disk, env, mti, synced, pgoldest, syncer, reader, stamp, crashes, acked>>

\* The second half: write the meta page, through the synchronous descriptor
\* unless MDB_NOSYNC, and publish it.
mdb_env_write_meta ==
  LET slot == Slot(wtxn.meta.id) IN
  /\ wtxn.pc = "flushed" /\ wtxn.pend = {}
  /\ cache' = [cache EXCEPT ![slot] = wtxn.meta]
  /\ disk' = IF wtxn.nosync THEN disk ELSE [disk EXCEPT ![slot] = wtxn.meta]
  /\ mti' = wtxn.meta.id
  /\ synced' = IF wtxn.nosync THEN synced ELSE wtxn.meta.id
  /\ acked' = IF wtxn.nosync THEN acked ELSE acked \cup {wtxn.stamp}
  /\ wtxn' = NoTxn
  /\ UNCHANGED <<env, pgoldest, syncer, reader, stamp, crashes>>

\* fdatasync fails and the commit aborts; the pages stay written.
CommitFails ==
  /\ wtxn.pc = "flushed" /\ ~wtxn.nosync
  /\ wtxn' = NoTxn
  /\ UNCHANGED <<cache, disk, env, mti, synced, pgoldest, syncer, reader, stamp, crashes, acked>>

----------------------------------------------------------------------------
(* mdb_env_sync, overlapping: called after a commit, or by the user.       *)

\* Mutant: mdb_env_sync without its mutex.
NoMutex == TRUE

MutexFree == \A s \in Syncers : syncer[s].pc # "fsync"

SyncCall(s) ==
  /\ env = "open" /\ Overlapping /\ syncer[s].pc = "idle"
  /\ syncer' = [syncer EXCEPT ![s].pc = "wait", ![s].last = mti, ![s].want = cache[Slot(mti)].done]
  /\ UNCHANGED <<cache, disk, env, mti, synced, pgoldest, wtxn, reader, stamp, crashes, acked>>

\* Another call has flushed that transaction in the meantime.
SyncSkip(s) ==
  /\ syncer[s].pc = "wait" /\ MutexFree /\ synced >= syncer[s].last
  /\ syncer' = [syncer EXCEPT ![s] = NoSync]
  /\ acked' = acked \cup syncer[s].want
  /\ UNCHANGED <<cache, disk, env, mti, synced, pgoldest, wtxn, reader, stamp, crashes>>

\* Copy the newest meta, then call fdatasync.
SyncStart(s) ==
  /\ syncer[s].pc = "wait" /\ MutexFree /\ synced < syncer[s].last
  /\ syncer' = [syncer EXCEPT ![s].pc = "fsync", ![s].meta = Latest(cache),
                              ![s].pend = mdb_env_sync0(cache, disk)]
  /\ UNCHANGED <<cache, disk, env, mti, synced, pgoldest, wtxn, reader, stamp, crashes, acked>>

\* Record it as flushed, through the synchronous descriptor.
SyncWriteMeta(s) ==
  LET flushed == [syncer[s].meta EXCEPT !.unsynced = FALSE] IN
  /\ syncer[s].pc = "fsync" /\ syncer[s].pend = {}
  /\ cache' = [cache EXCEPT ![FlushedMeta] = flushed]
  /\ disk' = [disk EXCEPT ![FlushedMeta] = flushed]
  /\ synced' = flushed.id
  /\ acked' = acked \cup syncer[s].want
  /\ syncer' = [syncer EXCEPT ![s] = NoSync]
  /\ UNCHANGED <<env, mti, pgoldest, wtxn, reader, stamp, crashes>>

SyncFails(s) ==
  /\ syncer[s].pc = "fsync"
  /\ syncer' = [syncer EXCEPT ![s] = NoSync]
  /\ UNCHANGED <<cache, disk, env, mti, synced, pgoldest, wtxn, reader, stamp, crashes, acked>>

----------------------------------------------------------------------------
(* Read transactions: mdb_txn_renew0 claims a slot with the newest id,     *)
(* repeats while a commit overtakes it, and copies that id's meta page.    *)

ReaderStep(r, v) ==
  /\ reader' = [reader EXCEPT ![r] = v]
  /\ UNCHANGED <<cache, disk, env, mti, synced, pgoldest, wtxn, syncer, stamp, crashes, acked>>

ReaderLoad(r) ==
  /\ env = "open" /\ reader[r].pc = "none"
  /\ ReaderStep(r, [reader[r] EXCEPT !.pc = "loaded", !.loaded = mti])

ReaderStore(r) ==
  /\ reader[r].pc = "loaded"
  /\ ReaderStep(r, [reader[r] EXCEPT !.pc = "stored", !.slot = {reader[r].loaded}])

ReaderRetry(r) ==
  /\ reader[r].pc = "stored" /\ reader[r].slot # {mti}
  /\ ReaderStep(r, [reader[r] EXCEPT !.pc = "loaded", !.loaded = mti])

ReaderOpen(r) ==
  /\ reader[r].pc = "stored" /\ reader[r].slot = {mti}
  /\ ReaderStep(r, [reader[r] EXCEPT !.pc = "claimed"])

ReaderCopy(r) ==
  /\ reader[r].pc = "claimed"
  /\ ReaderStep(r, [reader[r] EXCEPT !.pc = "open", !.meta = cache[Slot(reader[r].loaded)]])

ReaderEnd(r) ==
  /\ reader[r].pc = "open"
  /\ ReaderStep(r, NoRead)

----------------------------------------------------------------------------
(* The operating system, crashes and recovery.                             *)

WriteBack(l) ==
  /\ cache[l] # disk[l]
  /\ disk' = [disk EXCEPT ![l] = cache[l]]
  /\ wtxn' = [wtxn EXCEPT !.pend = @ \ {l}]
  /\ syncer' = [s \in Syncers |-> [syncer[s] EXCEPT !.pend = @ \ {l}]]
  /\ UNCHANGED <<cache, env, mti, synced, pgoldest, reader, stamp, crashes, acked>>

NewProcess ==
  /\ synced' = 0 /\ pgoldest' = 0 /\ wtxn' = NoTxn
  /\ syncer' = [s \in Syncers |-> NoSync]
  /\ reader' = [r \in Readers |-> NoRead]

\* The process ends, by a crash or a close; if machine, the page cache is lost.
Crash(machine) ==
  /\ env # "down" \/ machine
  /\ crashes < MaxCrashes
  /\ crashes' = crashes + 1
  /\ env' = "down" /\ mti' = 0
  /\ cache' = IF machine THEN disk ELSE cache
  /\ NewProcess
  /\ UNCHANGED <<disk, stamp, acked>>

PutMeta(m) ==
  /\ cache' = [cache EXCEPT ![Slot(m.id)] = m]
  /\ disk' = [disk EXCEPT ![Slot(m.id)] = m]

\* mdb_env_open, the only opener: with overlapping sync, unless the newest
\* meta is the safe one, the safe one goes over both, as its own id ...
OpenRollback ==
  /\ env = "down" /\ Overlapping /\ Latest(cache).id # Safe(cache).id
  /\ env' = "rollback"
  /\ PutMeta(Safe(cache))
  /\ UNCHANGED <<mti, synced, pgoldest, wtxn, syncer, reader, stamp, crashes, acked>>

\* ... and as the id before it.
OpenRolledBack ==
  /\ env = "rollback"
  /\ env' = "open"
  /\ PutMeta([Safe(cache) EXCEPT !.id = @ - 1])
  /\ mti' = Safe(cache).id
  /\ UNCHANGED <<synced, pgoldest, wtxn, syncer, reader, stamp, crashes, acked>>

OpenLatest ==
  /\ env = "down" /\ (Overlapping => Latest(cache).id = Safe(cache).id)
  /\ env' = "open"
  /\ mti' = Latest(cache).id
  /\ UNCHANGED <<cache, disk, synced, pgoldest, wtxn, syncer, reader, stamp, crashes, acked>>

----------------------------------------------------------------------------
InitFile ==
  [l \in Locations |->
     IF l \in Metas THEN (IF Flushed /\ l = 1 THEN FirstMeta ELSE EmptyMeta)
     ELSE IF l = FlushedMeta
          THEN (IF Flushed THEN [FirstMeta EXCEPT !.unsynced = FALSE] ELSE EmptyMeta)
          ELSE (IF Flushed /\ l = 2 THEN 1 ELSE 0)]

\* A new file, or one whose first transaction was committed and flushed.
Init ==
  /\ cache = InitFile /\ disk = InitFile
  /\ env = "open"
  /\ mti = (IF Flushed THEN 1 ELSE 0) /\ synced = mti
  /\ stamp = mti /\ acked = (IF Flushed THEN {1} ELSE {})
  /\ pgoldest = 0 /\ crashes = 0
  /\ wtxn = NoTxn
  /\ syncer = [s \in Syncers |-> NoSync]
  /\ reader = [r \in Readers |-> NoRead]

WriterStep ==
  \/ \E nosync \in NoSyncs : mdb_txn_begin(nosync)
  \/ mdb_page_touch \/ mdb_page_new \/ mdb_txn_end
  \/ mdb_page_flush \/ mdb_env_write_meta \/ CommitFails

SyncStep ==
  \E s \in Syncers : SyncCall(s) \/ SyncSkip(s) \/ SyncStart(s) \/ SyncWriteMeta(s) \/ SyncFails(s)

ReadStep ==
  \E r \in Readers : \/ ReaderLoad(r) \/ ReaderStore(r) \/ ReaderRetry(r)
                     \/ ReaderOpen(r) \/ ReaderCopy(r) \/ ReaderEnd(r)

Recover == OpenRollback \/ OpenRolledBack \/ OpenLatest

Next ==
  \/ WriterStep \/ SyncStep \/ ReadStep \/ Recover
  \/ \E l \in Locations : WriteBack(l)
  \/ \E machine \in BOOLEAN : Crash(machine)

Spec == Init /\ [][Next]_vars

----------------------------------------------------------------------------
\* Every variable has its type.
TypeOK ==
  /\ \A f \in {cache, disk} :
       /\ DOMAIN f = Locations
       /\ \A l \in Locations : f[l] \in (IF l \in Pages THEN Stamps ELSE Meta)
  /\ env \in {"open", "down", "rollback"}
  /\ mti \in Ids /\ synced \in Ids /\ pgoldest \in Ids
  /\ stamp \in Stamps /\ crashes \in 0 .. MaxCrashes /\ acked \subseteq Stamps
  /\ wtxn \in [pc : {"none", "open", "flushed"}, nosync : BOOLEAN, stamp : Stamps, meta : Meta,
               freed : SUBSET Pages, pghead : SUBSET Pages, pglast : Ids, pend : SUBSET Locations]
  /\ syncer \in [Syncers -> [pc : {"idle", "wait", "fsync"}, last : Ids, want : SUBSET Stamps,
                             meta : Meta, pend : SUBSET Locations]]
  /\ reader \in [Readers -> [pc : {"none", "loaded", "stored", "claimed", "open"}, loaded : Ids,
                             slot : {{}} \cup {{k} : k \in Ids}, meta : Meta]]

\* What a file holds is the tree of m: no page of it was written again.
Intact(m, f) == \A p \in Pages : m.tree[p] # 0 => f[p] = m.tree[p]

\* The meta the next opener goes on with.
Recovered(f) == IF Overlapping THEN Safe(f) ELSE Latest(f)

\* At any moment, if the process or the machine stops here, the opener finds
\* a transaction whose pages are all in the file (README.md: the database's
\* integrity is ensured even if a crash occurs): no page of it has been
\* reused, and with a machine crash all of them had been flushed.
RecoveryIntact == \A f \in {cache, disk} : Intact(Recovered(f), f)

\* A transaction whose caller was told it is durable (a synchronous commit,
\* a call of mdb_env_sync that returned) is in what the opener finds.
AckSurvives == \A f \in {cache, disk} : acked \subseteq Recovered(f).done

\* The pages of an open read transaction's snapshot stay as they were: the
\* free list gives none of them to a writer.
ReaderIntact == \A r \in Readers : reader[r].pc = "open" => Intact(reader[r].meta, cache)

\* In what the next transaction starts from, every page of the file is in
\* the tree or in exactly one record of the free list.
PagesAccounted ==
  \A m \in {Latest(cache), Recovered(cache)} :
    \A p \in Pages :
      Cardinality({k \in Ids : p \in m.free[k]})
        = (IF p <= m.last /\ m.tree[p] = 0 THEN 1 ELSE 0)

\* The environment implements DurableStore: what is visible is what the meta
\* page of mti_txnid holds or, between two processes, what the next one will
\* go on with.  A crash at any step, during a rollback too, takes back the
\* last transactions only, and none of those reported durable.
Store == INSTANCE DurableStore WITH
           Txns <- Stamps,
           current <- (IF env = "open" THEN cache[Slot(mti)] ELSE Recovered(cache)).done,
           durable <- acked
ImplementsStore == Store!Spec

=============================================================================
