----------------------------- MODULE RangeScan -----------------------------
(***************************************************************************)
(* Range queries: getRange, getKeys, getValues, getCount, getKeysCount,    *)
(* getValuesCount and doesExist of read.js, over CursorWrap::doPosition    *)
(* and iterate of cursor.cpp and the cursor moves of mdb.c, while commits  *)
(* change the database and the shared read transaction is renewed.         *)
(*                                                                         *)
(* A database is a set of entries <<key, value>>, ordered by key and then  *)
(* by value; a database without dupSort has one value per key.  The B-tree *)
(* under the cursor is abstracted to that order.                           *)
(***************************************************************************)
EXTENDS Integers, Sequences, FiniteSets, SequencesExt

CONSTANTS
  Keys,           \* keys, natural numbers above 0
  Vals,           \* values, natural numbers above 0
  Scans,          \* the queries a run makes: a subset of Queries
  MaxWrites       \* bound: puts and removals committed during the query

NoKey == 0        \* an undefined start, end or key
NoEntry == <<0, 0>>
NoTxn == {NoEntry}  \* no renewed shared read transaction
NoLimit == -1     \* options.limit undefined

Entries == Keys \X Vals

(* The options of a query: "range" (getRange, getKeys), "count" (getCount, *)
(* getKeysCount), "values" (getValues), "valuesCount" and "exists".        *)
Queries ==
  [kind : {"range", "count", "values", "valuesCount", "exists"},
   dupSort : BOOLEAN, key : Keys \cup {NoKey},
   start : Keys \cup Vals \cup {NoKey}, end : Keys \cup Vals \cup {NoKey},
   reverse : BOOLEAN, values : BOOLEAN, snapshot : BOOLEAN,
   limit : Nat \cup {NoLimit}, offset : Nat]

ASSUME ScansAssumption ==
  /\ Keys \cup Vals \subseteq Nat \ {0} /\ IsFiniteSet(Keys) /\ IsFiniteSet(Vals)
  /\ Scans \subseteq Queries
  /\ MaxWrites \in Nat

VARIABLES
  db,          \* the committed content
  readTxn,     \* the content the shared read transaction sees, or NoTxn
  renewed,     \* renewId moved since the cursor was taken
  query,       \* options
  view,        \* the content of the cursor's transaction
  at,          \* the entry under the cursor, or NoEntry
  currentKey,
  count,
  out,         \* what next() has returned so far
  answer,      \* what an onlyCount query returned
  phase,       \* "ready", "open", "done" or "returned" (return() was called)
  writes,
  stable,      \* history: the entries in db ever since the query started
  jumped       \* history: what renewals found in place of a removed key

vars == <<db, readTxn, renewed, query, view, at, currentKey, count, out,
          answer, phase, writes, stable, jumped>>

----------------------------------------------------------------------------
(* The moves of an LMDB cursor over the content d.                         *)

Before(e, f) == e[1] < f[1] \/ (e[1] = f[1] /\ e[2] < f[2])

mdb_cursor_first(d) ==
  IF d = {} THEN NoEntry ELSE CHOOSE e \in d : \A f \in d : ~Before(f, e)

mdb_cursor_last(d) ==
  IF d = {} THEN NoEntry ELSE CHOOSE e \in d : \A f \in d : ~Before(e, f)

OfKey(d, k) == {e \in d : e[1] = k}

(* op is "ALL" (MDB_NEXT), "DUP" or "NODUP".  A move that finds nothing     *)
(* leaves the cursor where further moves the same way find nothing either. *)
Admits(op, e, f) == (op = "DUP" => f[1] = e[1]) /\ (op = "NODUP" => f[1] # e[1])

mdb_cursor_next(d, e, op) ==
  IF e = NoEntry THEN NoEntry
  ELSE mdb_cursor_first({f \in d : Before(e, f) /\ Admits(op, e, f)})

mdb_cursor_prev(d, e, op) ==
  IF e = NoEntry THEN NoEntry
  ELSE mdb_cursor_last({f \in d : Before(f, e) /\ Admits(op, e, f)})

(* MDB_SET_KEY, MDB_SET_RANGE, MDB_GET_BOTH and MDB_GET_BOTH_RANGE.         *)
mdb_cursor_set(d, k, v, op) ==
  mdb_cursor_first(
    CASE op = "KEY"        -> OfKey(d, k)
      [] op = "RANGE"      -> {e \in d : e[1] >= k}
      [] op = "BOTH"       -> OfKey(d, k) \cap {<<k, v>>}
      [] op = "BOTH_RANGE" -> {e \in OfKey(d, k) : e[2] >= v})

mdb_cursor_count(d, e) == Cardinality(OfKey(d, e[1]))

----------------------------------------------------------------------------
(* CursorWrap.                                                             *)

ValuesForKey(q) == q.kind \in {"values", "valuesCount", "exists"}
OnlyCount(q) == q.kind \in {"count", "valuesCount", "exists"}

iteratingOp(q) ==
  IF ~q.values THEN "NODUP" ELSE IF ValuesForKey(q) THEN "DUP" ELSE "ALL"

Move(q, d, e, op) ==
  IF q.reverse THEN mdb_cursor_prev(d, e, op) ELSE mdb_cursor_next(d, e, op)

(* Mutation: the end is part of the range.                                 *)
EndInclusive(q, e) ==
  LET x == IF ValuesForKey(q) THEN e[2] ELSE e[1]
  IN q.end # NoKey /\ IF q.reverse THEN x < q.end ELSE x > q.end

(* The end is exclusive: of the values with valuesForKey, else of the keys. *)
PastEnd(q, e) ==
  LET x == IF ValuesForKey(q) THEN e[2] ELSE e[1]
  IN q.end # NoKey /\ IF q.reverse THEN x <= q.end ELSE x >= q.end

(* The first entry of a query for the values of key k.                     *)
FirstOfValues(q, d, k) ==
  LET found == mdb_cursor_set(d, k, q.start,
                 IF q.start = NoKey THEN "KEY"
                 ELSE IF q.kind = "exists" THEN "BOTH" ELSE "BOTH_RANGE")
  IN IF ~q.reverse THEN found
     ELSE IF found = NoEntry \/ q.start = NoKey THEN mdb_cursor_last(OfKey(d, k))
     ELSE IF found[2] # q.start THEN mdb_cursor_prev(d, found, "DUP") ELSE found

(* The first entry of a query over keys, from key k.                       *)
FirstOfRange(q, d, k) ==
  LET found == mdb_cursor_set(d, k, NoKey, "RANGE")
  IN IF k = NoKey THEN IF q.reverse THEN mdb_cursor_last(d) ELSE mdb_cursor_first(d)
     ELSE IF ~q.reverse THEN found
     ELSE IF found = NoEntry THEN mdb_cursor_last(d)
     ELSE IF found[1] # k THEN mdb_cursor_prev(d, found, "ALL") ELSE found

FirstEntry(q, d, k) ==
  IF ValuesForKey(q) THEN FirstOfValues(q, d, k) ELSE FirstOfRange(q, d, k)

(* The entries n moves meet, from the first on. *)
Visited(q, d, first, op, n) ==
  LET visit[i \in 0..n] ==
        IF i = 0 THEN first ELSE Move(q, d, visit[i - 1], op)
  IN visit

(* doPosition up to the offset loop.                                       *)
doPosition(q, d, k, offset) ==
  Visited(q, d, FirstEntry(q, d, k), iteratingOp(q), offset)[offset]

(* The rest of doPosition with onlyCount: mdb_cursor_count alone when the   *)
(* query is for all the values of a key or an exact match, else a loop that *)
(* in a dupSort database goes key by key and adds the mdb_cursor_count of   *)
(* each (a sum: the pairs of a step and a value of its key).               *)
CountsAtOnce(q) == q.kind = "exists" \/
  (q.kind = "valuesCount" /\ q.start = NoKey /\ q.end = NoKey)

CountFrom(q, d, first) ==
  LET byKey == q.dupSort /\ iteratingOp(q) = "ALL"
      visit == Visited(q, d, first, IF byKey THEN "NODUP" ELSE iteratingOp(q),
                       Cardinality(d))
      counted == {i \in 0..Cardinality(d) : \A j \in 0..i :
                    visit[j] # NoEntry /\ ~PastEnd(q, visit[j])}
  IN IF byKey
     THEN Cardinality({c \in counted \X d : c[2] \in OfKey(d, visit[c[1]][1])})
     ELSE Cardinality(counted)

CountAll(q, d) ==
  IF CountsAtOnce(q)
  THEN LET e == doPosition(q, d, q.key, 0)
       IN IF e = NoEntry THEN 0 ELSE mdb_cursor_count(d, e)
  ELSE CountFrom(q, d, doPosition(q, d,
         IF ValuesForKey(q) THEN q.key ELSE q.start, q.offset))

----------------------------------------------------------------------------
Init ==
  /\ query \in Scans
  /\ db \in {d \in SUBSET Entries : query.dupSort \/
                \A k \in Keys : Cardinality(OfKey(d, k)) <= 1}
  /\ readTxn = NoTxn /\ renewed = FALSE
  /\ view = {} /\ at = NoEntry
  /\ currentKey = NoKey /\ count = 0
  /\ out = <<>> /\ answer = 0
  /\ phase = "ready"
  /\ writes = 0 /\ stable = db /\ jumped = {}

(* resetCursor: the cursor goes to the shared read transaction, renewed     *)
(* when it was reset.                                                      *)
TxnView == IF readTxn = NoTxn THEN db ELSE readTxn

(* iterable.iterate(): getRange, getKeys and getValues.                    *)
iterate ==
  /\ phase = "ready" /\ ~OnlyCount(query)
  /\ view' = TxnView /\ readTxn' = TxnView
  /\ renewed' = FALSE
  /\ currentKey' = IF ValuesForKey(query) THEN query.key ELSE query.start
  /\ phase' = "open" /\ stable' = db
  /\ UNCHANGED <<db, query, at, count, out, answer, writes, jumped>>

(* iterable.iterate() of an onlyCount query.                               *)
getCount ==
  /\ phase = "ready" /\ OnlyCount(query)
  /\ view' = TxnView /\ readTxn' = TxnView
  /\ answer' = CountAll(query, TxnView)
  /\ phase' = "done"
  /\ UNCHANGED <<db, renewed, query, at, currentKey, count, out, writes,
                 stable, jumped>>

(* count++ >= limit, which is false of an undefined limit.                  *)
AtLimit(q, n) == q.limit # NoLimit /\ n >= q.limit

(* What next() returns for an entry: without values, its key alone.        *)
Item(q, e) == IF q.values THEN e ELSE <<e[1], 0>>

(* Whether next() takes a new cursor: only a query without a snapshot.     *)
Renews == ~query.snapshot /\ renewed

(* Mutation: the renewed cursor is moved on before iterate() moves it.     *)
RenewedPast(d) ==
  Move(query, d, doPosition(query, d, currentKey, 0), iteratingOp(query))

(* After a renewal the new cursor goes to the current key again.           *)
RenewedAt(d) == doPosition(query, d, currentKey, 0)

(* Mutation: next() does not remember the key it returned.                 *)
KeyKept(e) == currentKey

(* The key next() remembers.                                               *)
KeyAfter(e) == IF ValuesForKey(query) THEN currentKey ELSE e[1]

(* next(): renew the cursor, position it or move it on, and finish at the   *)
(* end of the range or at the limit.                                       *)
next ==
  LET d == IF Renews THEN TxnView ELSE view
      here == IF Renews THEN RenewedAt(d) ELSE at
      e == IF count = 0 THEN doPosition(query, d, currentKey, query.offset)
           ELSE Move(query, d, here, iteratingOp(query))
      none == e = NoEntry \/ PastEnd(query, e)
      over == ~none /\ AtLimit(query, count)
  IN /\ phase = "open"
     /\ view' = d
     /\ readTxn' = IF Renews THEN d ELSE readTxn
     /\ renewed' = (renewed /\ ~Renews)
     /\ at' = e
     /\ count' = IF none THEN count ELSE count + 1
     /\ phase' = IF none \/ over THEN "done" ELSE "open"
     /\ out' = IF none \/ over THEN out ELSE Append(out, Item(query, e))
     /\ currentKey' = IF none \/ over THEN currentKey ELSE KeyAfter(e)
     /\ jumped' = IF Renews /\ count > 0 /\ here[1] # currentKey
                  THEN jumped \cup {Item(query, here)} ELSE jumped
     /\ UNCHANGED <<db, query, answer, writes, stable>>

(* return(): the consumer leaves the loop.                                 *)
return ==
  /\ phase = "open"
  /\ phase' = "returned"
  /\ UNCHANGED <<db, readTxn, renewed, query, view, at, currentKey, count,
                 out, answer, writes, stable, jumped>>

(* Another read renews the shared read transaction, and the timer that      *)
(* renewReadTxn set resets it.                                             *)
renewReadTxn ==
  /\ readTxn = NoTxn /\ phase = "open"
  /\ readTxn' = db
  /\ UNCHANGED <<db, renewed, query, view, at, currentKey, count, out,
                 answer, phase, writes, stable, jumped>>

resetReadTxn ==
  /\ readTxn # NoTxn /\ phase = "open"
  /\ readTxn' = NoTxn /\ renewed' = TRUE
  /\ UNCHANGED <<db, query, view, at, currentKey, count, out, answer, phase,
                 writes, stable, jumped>>

(* Bound: one commit shows whether a snapshot holds, a renewed query sees   *)
(* up to MaxWrites.                                                        *)
WriteBound == IF query.snapshot THEN 1 ELSE MaxWrites

(* A commit of one put or one removal, from the queue or another process.  *)
Commit ==
  /\ phase = "open" /\ writes < WriteBound
  /\ \E e \in Entries :
       db' \in {(IF query.dupSort THEN db ELSE db \ OfKey(db, e[1])) \cup {e},
                db \ {e}} \ {db}
  /\ writes' = writes + 1 /\ stable' = stable \cap db'
  /\ UNCHANGED <<readTxn, renewed, query, view, at, currentKey, count, out,
                 answer, phase, jumped>>

Finished == phase \in {"done", "returned"} /\ UNCHANGED vars

Next == iterate \/ getCount \/ next \/ return \/ renewReadTxn
        \/ resetReadTxn \/ Commit \/ Finished

Spec == Init /\ [][Next]_vars

----------------------------------------------------------------------------
(* The reference: what a query asks for, without a cursor.                 *)

Wanted(q, d) ==
  LET x(e) == IF ValuesForKey(q) THEN e[2] ELSE e[1]
      from(e) == q.start = NoKey \/
                 IF q.reverse THEN x(e) <= q.start ELSE x(e) >= q.start
      to(e) == q.end = NoKey \/
               IF q.reverse THEN x(e) > q.end ELSE x(e) < q.end
  IN {e \in d : (ValuesForKey(q) => e[1] = q.key) /\ from(e) /\ to(e)}

Items(q, d) == {Item(q, e) : e \in Wanted(q, d)}

(* x comes before y in the direction of the query.                         *)
Ahead(q, x, y) == IF q.reverse THEN Before(y, x) ELSE Before(x, y)

(* The items in order, from the offset on, up to the limit.                *)
Answer(q, d) ==
  LET S == Items(q, d)
      n == Cardinality(S) - q.offset
      m == IF AtLimit(q, n) THEN q.limit ELSE n
      place(x) == Cardinality({y \in S : Ahead(q, y, x)})
  IN [i \in 1..(IF m > 0 THEN m ELSE 0) |->
        CHOOSE x \in S : place(x) = q.offset + i - 1]

(* Every variable has its type; the query counts no more than it can meet.  *)
TypeOK ==
  /\ db \subseteq Entries /\ view \subseteq Entries /\ stable \subseteq db
  /\ readTxn \in SUBSET Entries \cup {NoTxn}
  /\ renewed \in BOOLEAN
  /\ query \in Scans
  /\ at \in Entries \cup {NoEntry}
  /\ currentKey \in Keys \cup {NoKey}
  /\ count \in 0..(Cardinality(Entries) + MaxWrites + 1)
  /\ out \in Seq(Keys \X (Vals \cup {0}))
  /\ answer \in 0..Cardinality(Entries)
  /\ phase \in {"ready", "open", "done", "returned"}
  /\ writes \in 0..MaxWrites
  /\ jumped \subseteq Keys \X (Vals \cup {0}) \cup {NoEntry}

(* A query with a snapshot returns the entries the reference asks for, in   *)
(* order, whatever is committed and however often the shared read           *)
(* transaction is reset meanwhile: nothing twice, nothing past the end or   *)
(* the limit, and all of it when it runs to its end (read.js next(),        *)
(* returnEntry).                                                           *)
ScanExact ==
  ~OnlyCount(query) /\ query.snapshot =>
    LET a == IF phase = "ready" THEN <<>> ELSE Answer(query, view)
    IN IsPrefix(out, a) /\ (phase = "done" => out = a)

(* getCount, getKeysCount and getValuesCount return the number of entries   *)
(* the same query without a limit iterates over, and doesExist finds an     *)
(* entry exactly when it is there, although they count key by key where     *)
(* they can (doPosition with flag 0x1000).                                 *)
CountExact ==
  OnlyCount(query) /\ phase = "done" =>
    IF query.kind = "exists"
    THEN (answer > 0) = (<<query.key, query.start>> \in view)
    ELSE answer = Len(Answer([query EXCEPT !.limit = NoLimit], view))

(* Iteration and counting, which doPosition computes along different paths, *)
(* both agree with the reference definition of the query.                  *)
AnswersExact == ScanExact /\ CountExact

(* A query without a snapshot, which moves to a renewed transaction between *)
(* two calls of next(), still returns its entries in strict order: it never *)
(* goes back, repeats an entry or leaves its range (read.js next() after    *)
(* resetCursor).                                                           *)
RenewedOrder ==
  ~OnlyCount(query) /\ ~query.snapshot =>
    /\ \A i, j \in DOMAIN out : i < j =>
         /\ Ahead(query, out[i], out[j])
         /\ ~query.dupSort => out[i][1] # out[j][1]
    /\ Wanted(query, ToSet(out)) = ToSet(out)

(* A query without a snapshot, offset or limit that ran to its end returned *)
(* every entry of its range that was in the database the whole time, but    *)
(* for the entries a renewal landed on because the current key was gone:    *)
(* a renewal loses nothing else (read.js next(): position(0), iterate()).  *)
RanToEnd == /\ ~OnlyCount(query) /\ ~query.snapshot /\ phase = "done"
            /\ query.offset = 0 /\ query.limit = NoLimit

StableFound ==
  RanToEnd => Items(query, stable) \subseteq ToSet(out) \cup jumped

(* Such a query returns every entry that was there the whole time.  It does *)
(* not: position(0) lands on the entry after a removed key and iterate()    *)
(* goes past it (read.js next()).                                          *)
NothingLost == RanToEnd => Items(query, stable) \subseteq ToSet(out)
============================================================================
