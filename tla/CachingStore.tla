---------------------------- MODULE CachingStore ----------------------------
(***************************************************************************)
(* The caching store of caching.js over the asynchronous write queue.      *)
(*                                                                         *)
(* A put goes into the cache at once and is pinned there; the aftercommit  *)
(* listener gives it to the LRFU queue, or deletes it when the write was   *)
(* not made.  A get that misses fills the cache from the shared read       *)
(* transaction.  The write queue is reduced to what the listener sees of   *)
(* it: the instructions not settled yet, in order, and how many were       *)
(* executed and committed (write.js resolveWrites).  A synchronous         *)
(* transaction is that of one putSync, removeSync or clearSync; the writes *)
(* of the callbacks of asynchronous transactions are not modelled.         *)
(***************************************************************************)
EXTENDS Naturals, Sequences, FiniteSetsExt

CONSTANTS
  Keys,
  Vals,        \* the objects that are put
  Absent,      \* no value
  MaxWrites    \* bound: asynchronous writes that are not settled

ASSUME CacheAssumption == MaxWrites \in Nat /\ Absent \notin Vals /\ "all" \notin Keys

Values == {Absent} \cup Vals
NoTxn == <<>>        \* the shared read transaction is not renewed
NoEntry == [val |-> Absent, pinned |-> FALSE]

VARIABLES
  stored,        \* the committed content
  readTxn,       \* the content the shared read transaction sees, or NoTxn
  cache,         \* the WeakLRUCache: NoEntry, or a value, pinned or not
  log,           \* the asynchronous writes that are not settled
  executed,      \* how many the write thread has executed,
  committed,     \* ... how many of them its transactions have ended with,
  txns,          \* ... the ended transactions resolveWrites has not met yet
  resetQueued,   \* a microtask that resets the reads is queued
  raced          \* history: the keys whose entry was made in a race, or by a put
                 \* that the store has not taken (below)

vars == <<stored, readTxn, cache, log, executed, committed, txns,
          resetQueued, raced>>
queueVars == <<executed, committed, txns, resetQueued>>

Concerns(w, k) == w.key = k \/ w.op = "clear"

\* A write of k is not settled yet.
Outstanding(k) == \E i \in DOMAIN log : Concerns(log[i], k)

Init ==
  /\ stored \in [Keys -> Values]
  /\ readTxn = NoTxn
  /\ cache = [k \in Keys |-> NoEntry]
  /\ log = <<>> /\ txns = <<>>
  /\ executed = 0 /\ committed = 0
  /\ resetQueued = FALSE /\ raced = {}

-----------------------------------------------------------------------------
(* The program: reads and writes. *)

TxnView == IF readTxn = NoTxn THEN stored ELSE readTxn

\* get and getEntry of a key that is not cached.  An entry made while a write
\* of the key is outstanding, or before the reads are reset, is a race.
get(k) ==
  /\ cache[k] = NoEntry
  /\ readTxn' = TxnView
  /\ cache' = [cache EXCEPT ![k] = [val |-> TxnView[k], pinned |-> FALSE]]
  /\ raced' = IF TxnView[k] # Absent /\ (Outstanding(k) \/ resetQueued)
              THEN raced \cup {k} ELSE raced
  /\ UNCHANGED <<stored, log, queueVars>>

Queue(w) == Len(log) < MaxWrites /\ log' = Append(log, w)

\* put and putEntry.
put(k, v) ==
  /\ Queue([key |-> k, op |-> "put", val |-> v, failed |-> FALSE])
  /\ cache' = [cache EXCEPT ![k] = [val |-> v, pinned |-> TRUE]]
  /\ raced' = raced \ {k}
  /\ UNCHANGED <<stored, readTxn, queueVars>>

\* remove, and put of binary data: the entry is deleted at once.
Uncached(k, op, v) ==
  /\ Queue([key |-> k, op |-> op, val |-> v, failed |-> FALSE])
  /\ cache' = [cache EXCEPT ![k] = NoEntry]
  /\ raced' = raced \ {k}
  /\ UNCHANGED <<stored, readTxn, queueVars>>

remove(k) == Uncached(k, "remove", Absent)
putBinary(k) == \E v \in Vals : Uncached(k, "binary", v)

clearAsync ==
  /\ Queue([key |-> "all", op |-> "clear", val |-> Absent, failed |-> FALSE])
  /\ cache' = [k \in Keys |-> NoEntry]
  /\ raced' = {}
  /\ UNCHANGED <<stored, readTxn, queueVars>>

\* putSync and removeSync run between the transactions of the write thread,
\* before the writes still queued: over one of the same key, a race.  The cache
\* changes first, and stays so when the write is not applied: its ifVersion does
\* not match, or its transaction is aborted, which resets no reads.
Sync(k, v, applied) ==
  /\ executed = committed
  /\ cache' = [cache EXCEPT ![k] = [val |-> v, pinned |-> FALSE]]
  /\ stored' = IF applied THEN [stored EXCEPT ![k] = v] ELSE stored
  /\ readTxn' \in {NoTxn} \cup (IF applied THEN {} ELSE {readTxn})
  /\ raced' = IF v # Absent /\ (Outstanding(k) \/ ~applied) THEN raced \cup {k}
              ELSE raced \ {k}
  /\ UNCHANGED <<log, queueVars>>

putSync(k) == \E v \in Vals, applied \in BOOLEAN : Sync(k, v, applied)
removeSync(k) == \E applied \in BOOLEAN : Sync(k, Absent, applied)

clearSync ==
  /\ executed = committed
  /\ stored' = [k \in Keys |-> Absent]
  /\ readTxn' = NoTxn
  /\ cache' = [k \in Keys |-> NoEntry]
  /\ raced' = {}
  /\ UNCHANGED <<log, queueVars>>

-----------------------------------------------------------------------------
(* The write thread. *)

\* A write fails when its ifVersion does not match, when there is nothing to
\* remove, or when LMDB refuses it; its word then says FAILED_CONDITION.
Execute ==
  /\ executed < Len(log)
  /\ executed' = executed + 1
  /\ \E f \in BOOLEAN : log' = [log EXCEPT ![executed + 1].failed = f]
  /\ UNCHANGED <<stored, readTxn, cache, committed, txns, resetQueued, raced>>

\* The writes of k that a commit applies: those that did not fail.  The last of
\* them remains.
Applied(k) ==
  {i \in committed + 1 .. executed : Concerns(log[i], k) /\ ~log[i].failed}

Commit(ok) ==
  /\ committed < executed
  /\ committed' = executed
  /\ txns' = Append(txns, [last |-> executed, ok |-> ok])
  /\ stored' = [k \in Keys |-> IF ~ok \/ Applied(k) = {} THEN stored[k]
                               ELSE log[Max(Applied(k))].val]
  /\ UNCHANGED <<readTxn, cache, log, executed, resetQueued, raced>>

-----------------------------------------------------------------------------
(* resolveWrites and the aftercommit listener. *)

\* Mutant: the write that is settled last is left out.
ReachedBefore == 1 .. (executed - 1)

\* The writes the listener is called for: from the first that is not settled to
\* the first that is not executed, that one included.
Reached == 1 .. (IF executed < Len(log) THEN executed + 1 ELSE executed)
Settling(k) == {i \in Reached : log[i].op # "clear" /\ log[i].key = k}

\* Mutant: a failed write is ignored.
UsedAlways(k) == IF Settling(k) = {} THEN cache[k] ELSE [cache[k] EXCEPT !.pinned = FALSE]

\* What becomes of an entry: it is deleted when a write of its key failed, or
\* handed to the LRFU queue, whichever write made the entry.
afterCommit(k) ==
  IF \E i \in Settling(k) : log[i].failed THEN NoEntry
  ELSE IF Settling(k) = {} THEN cache[k]
  ELSE [cache[k] EXCEPT !.pinned = FALSE]

\* The keys whose entry is a put that was rejected.
Rejected ==
  {k \in Keys : \E t \in 1 .. Len(txns) :
     LET first == IF t = 1 THEN 1 ELSE txns[t - 1].last + 1
     IN /\ ~txns[t].ok
        /\ \E i \in first .. txns[t].last :
             Concerns(log[i], k) /\ \A j \in i + 1 .. Len(log) : ~Concerns(log[j], k)}

\* resolveWrites settles all ended transactions.  From a progress event the
\* reads are reset in the same turn, from a write in a microtask (which write
\* calls it depends on their number, here on nothing).
resolveWrites(async) ==
  /\ txns # <<>>
  /\ cache' = [k \in Keys |-> afterCommit(k)]
  /\ log' = SubSeq(log, committed + 1, Len(log))
  /\ executed' = executed - committed
  /\ committed' = 0
  /\ txns' = <<>>
  /\ LET resets == \E t \in 1 .. Len(txns) : txns[t].ok
     IN /\ readTxn' = IF resets /\ async THEN NoTxn ELSE readTxn
        /\ resetQueued' = (resetQueued \/ (resets /\ ~async))
  /\ raced' = {k \in raced \cup Rejected : cache'[k] # NoEntry}
  /\ UNCHANGED stored

\* resetReadTxn, from the timer or from the queued microtask.
resetReadTxn ==
  /\ readTxn # NoTxn \/ resetQueued
  /\ readTxn' = NoTxn /\ resetQueued' = FALSE
  /\ UNCHANGED <<stored, cache, log, executed, committed, txns, raced>>

\* The LRFU queue evicts an entry that is not pinned, and the collector takes
\* the object.
Collect(k) ==
  /\ cache[k] # NoEntry /\ ~cache[k].pinned
  /\ cache' = [cache EXCEPT ![k] = NoEntry]
  /\ raced' = raced \ {k}
  /\ UNCHANGED <<stored, readTxn, log, queueVars>>

Next ==
  \/ \E k \in Keys :
       \/ get(k) \/ putSync(k) \/ removeSync(k) \/ Collect(k)
       \/ remove(k) \/ putBinary(k) \/ \E v \in Vals : put(k, v)
  \/ clearAsync \/ clearSync \/ Execute \/ resetReadTxn
  \/ \E ok \in BOOLEAN : Commit(ok)
  \/ \E async \in BOOLEAN : resolveWrites(async)

Spec == Init /\ [][Next]_vars

-----------------------------------------------------------------------------
Write == [key : Keys \cup {"all"}, op : {"put", "binary", "remove", "clear"}, val : Values,
          failed : BOOLEAN]

\* Every variable has its type, and settling, commit and execution keep their order.
TypeOK ==
  /\ stored \in [Keys -> Values] /\ readTxn \in [Keys -> Values] \cup {NoTxn}
  /\ cache \in [Keys -> [val : Values, pinned : BOOLEAN]]
  /\ log \in Seq(Write) /\ txns \in Seq([last : Nat, ok : BOOLEAN])
  /\ committed \in Nat /\ executed \in Nat
  /\ committed <= executed /\ executed <= Len(log) /\ Len(log) <= MaxWrites
  /\ resetQueued \in BOOLEAN /\ raced \subseteq Keys

\* Once the writes of a key are settled, its cache
\* entry is what the store holds, with three exceptions: an entry made by a
\* read or a synchronous put that overtook an outstanding write of the key, by
\* a put whose commit was rejected, or by a synchronous put that the store did
\* not take, its ifVersion failing or its transaction aborted (caching.js, the
\* aftercommit listener, put and putSync; write.js resolveCommit).
CacheFresh ==
  \A k \in Keys :
    ~Outstanding(k) /\ k \notin raced /\ cache[k] # NoEntry => cache[k].val = stored[k]

\* An entry that is pinned in memory has a write that will release it: none
\* is pinned for good, whether its write is committed, rejected, fails
\* or is overwritten (caching.js, put and the aftercommit listener).
PinsReleased == \A k \in Keys : cache[k].pinned => Outstanding(k)

\* README.md: puts "are pinned in the cache until committed".  They are not:
\* the settling of an earlier write releases or deletes the entry of a put
\* that is still outstanding.
PinnedUntilCommitted ==
  [][\A async \in BOOLEAN : resolveWrites(async) =>
       \A k \in Keys : cache[k].pinned /\ Outstanding(k)' => cache'[k] = cache[k]]_vars

\* The cache agrees with the store whenever nothing is outstanding.  It does
\* not: what CacheFresh excepts stays in the cache.
NeverStale ==
  \A k \in Keys :
    ~Outstanding(k) /\ ~resetQueued /\ cache[k] # NoEntry => cache[k].val = stored[k]
=============================================================================
