----------------------------- MODULE EnvSyncProofs -----------------------------
(***************************************************************************)
(* Proofs about EnvSync, for any file size, any number of readers, callers *)
(* of mdb_env_sync, transactions and crashes, where all commits are of one *)
(* kind (OneKind).  IInv is the inductive invariant.  Its core is Held:    *)
(* the metas whose pages are all in the file and in no part of the free    *)
(* list that a transaction may take, now or after its commit.  The base,   *)
(* the flushed meta, the one that mdb_env_sync is flushing and those of    *)
(* the readers are held; what an opener goes on with (Chosen) is the       *)
(* flushed meta with overlapping sync and else the newest one.             *)
(***************************************************************************)
EXTENDS EnvSync, FiniteSetTheorems, WellFoundedInduction, TLAPS

-----------------------------------------------------------------------------
(* The inductive invariant. *)

\* One kind of commits: with overlapping sync none is flushed at once (as the write
\* thread makes them) and the file has a flushed meta; without it all of them are.
OneKind ==
  IF Overlapping THEN Flushed /\ NoSyncs \subseteq {TRUE} ELSE NoSyncs \subseteq {FALSE}

MetaLocations == Metas \cup {FlushedMeta}
Files == {cache, disk}

\* The meta that the next transaction starts from, and the one flushed last.
Base == cache[Slot(mti)]
LastFlushed == cache[FlushedMeta]

\* Metas of one transaction: one may have been marked as flushed.
Same(m, n) == m.tree = n.tree /\ m.free = n.free /\ m.last = n.last /\ m.done = n.done

\* The metas that have every page up to the last in the tree or in one record of the
\* free list.
Accounted ==
  {m \in Meta :
     /\ \A p \in Pages : m.tree[p] # 0 => p <= m.last
     /\ \A p \in Pages, j \in Ids : p \in m.free[j] => p <= m.last /\ m.tree[p] = 0
     /\ \A p \in Pages, j, k \in Ids : p \in m.free[j] /\ p \in m.free[k] => j = k
     /\ \A p \in Pages : p <= m.last /\ m.tree[p] = 0 => \E j \in Ids : p \in m.free[j]}

\* The metas whose free list has only keys of transactions up to theirs.
Keyed == {m \in Meta : \A j \in Ids : j = 0 \/ j > m.id => m.free[j] = {}}

\* No page of m is in the part of n's free list that was freed up to m.
Keeps(m, n) ==
  \A p \in Pages : m.tree[p] # 0 => p <= n.last /\ \A j \in Ids : j <= m.id => p \notin n.free[j]

\* The free list that a transaction saves, and its meta with it.
FreeList(w) ==
  [k \in Ids |->
     IF k = w.meta.id THEN w.freed
     ELSE IF k <= w.pglast THEN (IF k = w.pglast THEN w.pghead ELSE {})
     ELSE w.meta.free[k]]
Saved(w) == [w.meta EXCEPT !.free = FreeList(w)]

\* Transactions that were begun before the open one, and the metas made of them.
Past == 0 .. (IF wtxn.pc = "none" THEN stamp ELSE stamp - 1)
PastMetas ==
  {m \in Meta : m.id \in Past /\ m.done \subseteq Past /\ \A p \in Pages : m.tree[p] \in Past}
StampInv ==
  /\ mti \in Past
  /\ \A f \in Files, l \in MetaLocations : f[l] \in PastMetas
  /\ \A s \in Syncers : syncer[s].meta \in PastMetas

\* The first transactions of those in the base, up to any number.
Prefixes == {{t \in Base.done : t <= n} : n \in Past}

\* In which slot a meta is, how far the disk is behind, and what an opener goes on
\* with: the flushed meta with overlapping sync, else the newest.
SlotInv ==
  /\ \A f \in Files, s \in Metas : f[s].id > 0 => Slot(f[s].id) = s
  /\ \A s \in Metas : disk[s].id <= cache[s].id
FlushedInv ==
  /\ disk[FlushedMeta] = LastFlushed /\ ~LastFlushed.unsynced /\ LastFlushed.id > 0
  /\ \A f \in Files, s \in Metas :
       /\ f[s].unsynced \/ f[s].id <= LastFlushed.id
       /\ f[s].id = LastFlushed.id => Same(f[s], LastFlushed)
  /\ env = "rollback" => \A f \in Files : f[Slot(LastFlushed.id)] = LastFlushed
SyncedInv ==
  /\ env # "rollback"
  /\ \A s \in Metas :
       /\ disk[s] = cache[s] /\ cache[s] \in Keyed
       /\ cache[s].id = 0 => Same(cache[s], EmptyMeta)
Chosen == IF Overlapping THEN LastFlushed ELSE Latest(cache)
RecoveryInv ==
  /\ \A f \in Files, l \in MetaLocations : f[l] \in Accounted
  /\ IF Overlapping THEN FlushedInv ELSE SyncedInv
  /\ Chosen \in Keyed /\ acked \subseteq Chosen.done
  /\ Intact(Chosen, cache) /\ Intact(Chosen, disk)

\* The metas of which no page is written.
Held ==
  {m \in Meta :
     /\ m.id <= mti /\ pgoldest <= m.id
     /\ Intact(m, cache) /\ Keeps(m, Base)
     /\ wtxn.pc # "none" =>
          /\ wtxn.pglast <= m.id /\ Keeps(m, Saved(wtxn))
          /\ \A p \in Pages : m.tree[p] # 0 => wtxn.meta.tree[p] # wtxn.stamp}

\* An open environment goes on from the newest meta and holds it and the flushed one.
OpenInv ==
  /\ env # "open" =>
       /\ wtxn = NoTxn /\ synced = 0 /\ pgoldest = 0
       /\ syncer = [s \in Syncers |-> NoSync] /\ reader = [r \in Readers |-> NoRead]
  /\ env = "open" =>
       /\ Base.id = mti /\ Latest(cache) = Base /\ Base \in Keyed /\ Base \in Held
       /\ \A f \in Files, s \in Metas : f[s].id <= mti /\ (f[s].id = mti => Same(f[s], Base))
       /\ Overlapping =>
            synced <= LastFlushed.id /\ LastFlushed \in Held /\ LastFlushed.done \in Prefixes

\* The open transaction: what it saves accounts for every page.
TxnInv ==
  wtxn.pc # "none" =>
    /\ env = "open" /\ stamp > 0 /\ wtxn.stamp = stamp /\ wtxn.nosync = Overlapping
    /\ wtxn.meta.id = mti + 1 /\ wtxn.meta.done = Base.done \cup {stamp}
    /\ Base.last <= wtxn.meta.last /\ wtxn.pglast <= mti
    /\ \A p \in Pages : wtxn.meta.tree[p] \in {0, Base.tree[p], stamp}
    /\ Saved(wtxn) \in Accounted /\ Saved(wtxn) \in Keyed
    /\ wtxn.pc = "open" => wtxn.meta.free = Base.free
    /\ wtxn.pc = "flushed" =>
         /\ wtxn.meta.free = FreeList(wtxn) /\ wtxn.meta.unsynced = Overlapping
         /\ Intact(wtxn.meta, cache)
         /\ ~Overlapping => \A p \in Pages : wtxn.meta.tree[p] # 0 =>
                              disk[p] = wtxn.meta.tree[p] \/ p \in wtxn.pend

\* A call of mdb_env_sync: the transactions that it is to flush are in every newer
\* meta, and the one meta that it records next is held.
CallInv ==
  \A s \in Syncers : syncer[s].pc # "idle" =>
    /\ env = "open" /\ Overlapping /\ syncer[s].last <= mti
    /\ syncer[s].want \subseteq Base.done
    /\ syncer[s].last <= LastFlushed.id => syncer[s].want \subseteq LastFlushed.done
FlushInv ==
  \A s \in Syncers : syncer[s].pc = "fsync" =>
    LET m == syncer[s].meta
    IN  /\ \A t \in Syncers \ {s} : syncer[t].pc # "fsync"
        /\ m \in Held /\ m \in Accounted /\ m \in Keyed /\ LastFlushed.id <= m.id
        /\ LastFlushed.done \subseteq m.done /\ m.done \in Prefixes
        /\ \A f \in Files, l \in Metas : f[l].id = m.id => Same(f[l], m)
        /\ \A p \in Pages : m.tree[p] # 0 => disk[p] = m.tree[p] \/ p \in syncer[s].pend
        /\ \A t \in Syncers : syncer[t].pc # "idle" /\ syncer[t].last <= m.id =>
             syncer[t].want \subseteq m.done
        /\ syncer[s].last <= m.id

\* A reader holds the meta it has copied, or will copy, from where its slot points.
ReadsMeta(r) == IF reader[r].pc = "open" THEN reader[r].meta ELSE cache[Slot(reader[r].loaded)]
ReaderInv ==
  \A r \in Readers :
    /\ reader[r].pc # "none" => env = "open"
    /\ reader[r].pc \in {"stored", "claimed", "open"} => reader[r].slot = {reader[r].loaded}
    /\ reader[r].pc \in {"claimed", "open"} =>
         ReadsMeta(r) \in Held /\ reader[r].loaded <= ReadsMeta(r).id

IInv ==
  /\ TypeOK /\ StampInv /\ SlotInv /\ RecoveryInv /\ OpenInv /\ TxnInv
  /\ CallInv /\ FlushInv /\ ReaderInv

-----------------------------------------------------------------------------
(* Numbers, slots and files. *)

\* The least number of a set.
LEMMA Smallest == ASSUME NEW S \in SUBSET Nat, S # {} PROVE \E x \in S : \A y \in S : x <= y
<1> DEFINE R == {ss \in Nat \X Nat : ss[1] < ss[2]}
<1>1. IsWellFoundedOn(R, Nat) BY NatLessThanWellFounded DEF OpToRel
<1> HIDE DEF R
<1>2. PICK x \in S : \A y \in S : ~(<<y, x>> \in R) BY <1>1, WFMin
<1>3. ASSUME NEW y \in S PROVE x <= y
  <2>1. x \in Nat /\ y \in Nat OBVIOUS
  <2>2. ~(y < x) BY <1>2, <2>1 DEF R
  <2> QED BY <2>1, <2>2
<1> QED BY <1>3

\* What Min returns.
LEMMA MinIs ==
  ASSUME NEW S \in SUBSET Nat, S # {}
  PROVE  Min(S) \in S /\ \A y \in S : Min(S) <= y
BY Smallest DEF Min

\* Two transactions in a row use different slots.
LEMMA SlotFacts ==
  ASSUME NEW n \in Nat
  PROVE  Slot(n) \in Metas /\ Slot(n + 1) \in Metas /\ Slot(n + 1) # Slot(n)
BY DEF Slot, Metas

\* The locations of pages and metas.
LEMMA LocationFacts ==
  /\ Pages \subseteq Locations /\ MetaLocations \subseteq Locations /\ Metas \subseteq MetaLocations
  /\ FlushedMeta \in MetaLocations /\ FlushedMeta \notin Metas
  /\ \A p \in Pages : p \notin MetaLocations /\ p \in Nat /\ p > 1
  /\ Locations = Pages \cup MetaLocations
BY FileAssumption DEF Pages, MetaLocations, Metas, FlushedMeta, Locations

\* A file has a meta or a stamp at each location.
LEMMA TypedFiles ==
  ASSUME TypeOK, NEW f \in Files
  PROVE  /\ DOMAIN f = Locations
         /\ \A l \in MetaLocations : f[l] \in Meta
         /\ \A p \in Pages : f[p] \in Stamps
<1>1. /\ DOMAIN f = Locations
      /\ \A l \in Locations : f[l] \in (IF l \in Pages THEN Stamps ELSE Meta)
  BY DEF TypeOK, Files
<1> QED BY <1>1, LocationFacts

\* The fields of a meta.
LEMMA MetaFields ==
  ASSUME NEW m \in Meta
  PROVE  /\ m.id \in Ids /\ m.id \in Nat /\ m.unsynced \in BOOLEAN /\ m.tree \in [Pages -> Stamps]
         /\ m.free \in [Ids -> SUBSET Pages] /\ m.last \in 1 .. LastPage /\ m.done \subseteq Stamps
BY FileAssumption DEF Meta, Ids

\* The values that a new file's metas have.
LEMMA EmptyMetaFields ==
  /\ EmptyMeta \in Meta /\ EmptyMeta.id = 0 /\ EmptyMeta.last = 1 /\ EmptyMeta.done = {}
  /\ EmptyMeta.unsynced = Overlapping
  /\ \A p \in Pages : EmptyMeta.tree[p] = 0
  /\ \A k \in Ids : EmptyMeta.free[k] = {}
<1>1. EmptyMeta \in Meta
  BY FileAssumption DEF EmptyMeta, Meta, Ids, Stamps
<1> QED BY <1>1 DEF EmptyMeta

\* A new file has no page to account for.
LEMMA EmptyMetaAccounted == EmptyMeta \in Accounted /\ EmptyMeta \in Keyed
<1>1. \A p \in Pages : ~(p <= 1) BY LocationFacts, FileAssumption DEF Pages
<1> QED BY <1>1, EmptyMetaFields DEF Accounted, Keyed

\* A flushed meta is preferred to one that may not be, or that is older.
LEMMA SafeIsFlushed ==
  ASSUME NEW f, \A l \in MetaLocations : f[l] \in Meta, ~f[FlushedMeta].unsynced,
         f[FlushedMeta].id > 0,
         \A s \in Metas : f[s].unsynced \/ f[s].id <= f[FlushedMeta].id
  PROVE  Safe(f) = f[FlushedMeta]
<1> DEFINE m == f[FlushedMeta]
           n == Safer(f[0], f[1])
<1>1. /\ f[0] \in Meta /\ f[1] \in Meta /\ m \in Meta /\ n \in {f[0], f[1]}
      /\ f[0].unsynced \/ f[0].id <= m.id
      /\ f[1].unsynced \/ f[1].id <= m.id
  BY LocationFacts DEF Safer, MetaLocations, Metas
<1>2. /\ n \in Meta /\ (n.unsynced \/ n.id <= m.id) /\ ~m.unsynced /\ m.id # 0
  BY <1>1, MetaFields
<1> HIDE DEF m, n
<1>3. /\ n.id \in 0 .. MaxTxns + 1 /\ m.id \in 0 .. MaxTxns + 1
  BY <1>1, <1>2, MetaFields DEF Ids
<1>4. MaxTxns \in Nat /\ FlushedBias \in Nat /\ FlushedBias > MaxTxns + 1
  BY FileAssumption, BiasAssumption
<1>5. ~(Rank(n) > Rank(m))
  <2>1. Rank(m) = m.id + FlushedBias BY <1>2 DEF Rank
  <2>2. CASE n.unsynced
    <3>1. Rank(n) = n.id BY <1>3, <2>2 DEF Rank
    <3> QED BY <1>3, <1>4, <2>1, <3>1
  <2>3. CASE ~n.unsynced
    <3>1. Rank(n) = n.id + FlushedBias /\ n.id <= m.id BY <1>2, <2>3 DEF Rank
    <3> QED BY <1>3, <1>4, <2>1, <3>1
  <2> QED BY <2>2, <2>3
<1> QED BY <1>2, <1>5 DEF Safe, Safer, m, n

\* What an opener goes on with, and what Latest is.
LEMMA Latests ==
  ASSUME TypeOK, NEW f \in Files
  PROVE  /\ Latest(f) \in {f[0], f[1]} /\ Latest(f) \in Meta
         /\ \A s \in Metas : f[s].id <= Latest(f).id
<1>1. f[0] \in Meta /\ f[1] \in Meta BY TypedFiles DEF MetaLocations, Metas
<1>2. f[0].id \in Nat /\ f[1].id \in Nat BY <1>1, MetaFields
<1> QED BY <1>1, <1>2 DEF Latest, Newer, Metas

\* An opener of the file, or of what a machine crash leaves, goes on with Chosen.
LEMMA Recovers ==
  ASSUME TypeOK, RecoveryInv
  PROVE  \A f \in Files : Recovered(f) = Chosen
<1>1. CASE Overlapping
  <2>1. FlushedInv BY <1>1 DEF RecoveryInv
  <2> SUFFICES ASSUME NEW f \in Files PROVE Recovered(f) = Chosen OBVIOUS
  <2>2. f[FlushedMeta] = LastFlushed BY <2>1 DEF FlushedInv, Files, LastFlushed
  <2>3. Safe(f) = f[FlushedMeta]
    <3>1. \A l \in MetaLocations : f[l] \in Meta BY TypedFiles
    <3> QED BY <2>1, <2>2, <3>1, SafeIsFlushed DEF FlushedInv
  <2> QED BY <1>1, <2>2, <2>3 DEF Recovered, Chosen
<1>2. CASE ~Overlapping
  <2>1. disk[0] = cache[0] /\ disk[1] = cache[1] BY <1>2 DEF RecoveryInv, SyncedInv, Metas
  <2> QED BY <1>2, <2>1 DEF Recovered, Chosen, Latest, Files
<1> QED BY <1>1, <1>2, FileAssumption

\* What an opener goes on with is a meta.
LEMMA ChosenTyped == ASSUME TypeOK PROVE Chosen \in Meta
BY Latests, TypedFiles, LocationFacts DEF Chosen, LastFlushed, Files

-----------------------------------------------------------------------------
(* Steps that change neither the files nor the open transaction. *)

storeVars == <<cache, disk, env, mti, synced, pgoldest, wtxn, stamp, crashes>>

\* What the parts of the invariant are about stays the same in such a step.
LEMMA Unaffected ==
  ASSUME IInv, UNCHANGED storeVars
  PROVE  /\ Held' = Held /\ Base' = Base /\ LastFlushed' = LastFlushed /\ Chosen' = Chosen
         /\ PastMetas' = PastMetas /\ Past' = Past /\ Prefixes' = Prefixes
         /\ Latest(cache)' = Latest(cache)
         /\ SlotInv' /\ TxnInv' /\ (Overlapping => FlushedInv') /\ (~Overlapping => SyncedInv')
<1> USE DEF storeVars
<1>1. Base' = Base /\ LastFlushed' = LastFlushed /\ Chosen' = Chosen /\ Latest(cache)' = Latest(cache)
  BY DEF Base, LastFlushed, Chosen, Latest
<1>2. Held' = Held
  BY <1>1 DEF Held, Intact, Keeps, Saved, FreeList
<1>3. Past' = Past /\ PastMetas' = PastMetas BY DEF Past, PastMetas
<1>4. Prefixes' = Prefixes BY <1>1, <1>3 DEF Prefixes
<1>5. SlotInv' BY DEF IInv, SlotInv, Files
<1>6. TxnInv'
  <2>1. Saved(wtxn)' = Saved(wtxn) /\ FreeList(wtxn)' = FreeList(wtxn) BY DEF Saved, FreeList
  <2> QED BY <1>1, <2>1 DEF IInv, TxnInv, Intact
<1>7. Overlapping => FlushedInv' BY <1>1 DEF IInv, RecoveryInv, FlushedInv, Files, Same
<1>8. ~Overlapping => SyncedInv' BY DEF IInv, RecoveryInv, SyncedInv
<1> QED BY <1>1, <1>2, <1>3, <1>4, <1>5, <1>6, <1>7, <1>8

\* The parts that depend on the calls of mdb_env_sync and on the readers.
LEMMA OpenSame ==
  ASSUME IInv, UNCHANGED storeVars, env = "open"
  PROVE  OpenInv'
<1> USE DEF storeVars
<1>1. /\ Held' = Held /\ Base' = Base /\ LastFlushed' = LastFlushed /\ Prefixes' = Prefixes
      /\ Latest(cache)' = Latest(cache)
  BY Unaffected
<1> QED BY <1>1 DEF IInv, OpenInv, Files, Same

\* Recovery, with more reported to be durable.
LEMMA RecoverySame ==
  ASSUME IInv, UNCHANGED storeVars, acked' \subseteq Chosen.done
  PROVE  RecoveryInv'
<1> USE DEF storeVars
<1>1. Chosen' = Chosen /\ (Overlapping => FlushedInv') /\ (~Overlapping => SyncedInv') BY Unaffected
<1>2. Overlapping \in BOOLEAN BY FileAssumption
<1>3. \A f \in Files', l \in MetaLocations : f[l] \in Accounted BY DEF IInv, RecoveryInv, Files
<1> QED BY <1>1, <1>2, <1>3 DEF IInv, RecoveryInv, Intact

\* The calls of mdb_env_sync, when none of them takes a step.
LEMMA CallSame == ASSUME IInv, UNCHANGED storeVars, UNCHANGED syncer PROVE CallInv' /\ FlushInv'
<1> USE DEF storeVars
<1>1. /\ Held' = Held /\ Base' = Base /\ LastFlushed' = LastFlushed /\ Prefixes' = Prefixes
  BY Unaffected
<1>2. CallInv' BY <1>1 DEF IInv, CallInv
<1>3. FlushInv' BY <1>1 DEF IInv, FlushInv, Files, Same
<1> QED BY <1>2, <1>3

\* The readers, when none of them takes a step.
LEMMA ReaderSame == ASSUME IInv, UNCHANGED storeVars, UNCHANGED reader PROVE ReaderInv'
<1> USE DEF storeVars
<1>1. Held' = Held BY Unaffected
<1> QED BY <1>1 DEF IInv, ReaderInv, ReadsMeta

-----------------------------------------------------------------------------
(* Read transactions. *)

Reader == [pc : {"none", "loaded", "stored", "claimed", "open"}, loaded : Ids,
           slot : {{}} \cup {{k} : k \in Ids}, meta : Meta]

\* A reader may go on to a state whose meta is held, at the id in its slot or after it.
LEMMA ReaderStepKeeps ==
  ASSUME IInv, NEW r \in Readers, NEW v \in Reader, ReaderStep(r, v), env = "open",
         v.pc \in {"stored", "claimed", "open"} => v.slot = {v.loaded},
         v.pc \in {"claimed", "open"} =>
           LET m == IF v.pc = "open" THEN v.meta ELSE cache[Slot(v.loaded)]
           IN  m \in Held /\ v.loaded <= m.id
  PROVE  IInv'
<1>1. UNCHANGED storeVars /\ UNCHANGED <<syncer, acked>> /\ reader' = [reader EXCEPT ![r] = v]
  BY DEF ReaderStep, storeVars
<1>2. reader \in [Readers -> Reader] BY DEF IInv, TypeOK, Reader
<1>3. Held' = Held /\ PastMetas' = PastMetas /\ Past' = Past /\ SlotInv' /\ TxnInv' BY <1>1, Unaffected
<1>4. /\ reader' \in [Readers -> Reader] /\ reader'[r] = v
      /\ \A q \in Readers : q # r => reader'[q] = reader[q]
  BY <1>1, <1>2
<1>5. TypeOK' BY <1>1, <1>4 DEF IInv, TypeOK, storeVars, Reader
<1>6. StampInv' BY <1>1, <1>3 DEF IInv, StampInv, storeVars, Files
<1>7. RecoveryInv'
  <2>1. acked' \subseteq Chosen.done BY <1>1 DEF IInv, RecoveryInv
  <2> QED BY <1>1, <2>1, RecoverySame
<1>8. OpenInv' BY <1>1, OpenSame
<1>9. CallInv' /\ FlushInv' BY <1>1, CallSame
<1>10. ReaderInv'
  <2> SUFFICES ASSUME NEW q \in Readers
               PROVE  /\ reader'[q].pc # "none" => env' = "open"
                      /\ reader'[q].pc \in {"stored", "claimed", "open"} =>
                           reader'[q].slot = {reader'[q].loaded}
                      /\ reader'[q].pc \in {"claimed", "open"} =>
                           ReadsMeta(q)' \in Held' /\ reader'[q].loaded <= ReadsMeta(q)'.id
    BY DEF ReaderInv
  <2>1. env' = env /\ cache' = cache BY <1>1 DEF storeVars
  <2>2. CASE q = r BY <1>3, <1>4, <2>1, <2>2 DEF ReadsMeta
  <2>3. CASE q # r
    <3>1. reader'[q] = reader[q] BY <1>4, <2>3
    <3> QED BY <1>3, <2>1, <3>1 DEF IInv, ReaderInv, ReadsMeta
  <2> QED BY <2>2, <2>3
<1> QED BY <1>3, <1>5, <1>6, <1>7, <1>8, <1>9, <1>10 DEF IInv

\* Each step of a reader is of that form.
LEMMA ReadStepKeeps == ASSUME IInv, ReadStep PROVE IInv'
<1>1. reader \in [Readers -> Reader] /\ mti \in Ids BY DEF IInv, TypeOK, Reader
<1>2. PICK r \in Readers : \/ ReaderLoad(r) \/ ReaderStore(r) \/ ReaderRetry(r)
                           \/ ReaderOpen(r) \/ ReaderCopy(r) \/ ReaderEnd(r)
  BY DEF ReadStep
<1>3. reader[r] \in Reader BY <1>1
<1>4. reader[r].pc # "none" => env = "open" BY DEF IInv, ReaderInv
<1>5. CASE ReaderLoad(r)
  <2> DEFINE v == [reader[r] EXCEPT !.pc = "loaded", !.loaded = mti]
  <2>1. v \in Reader /\ v.pc = "loaded" BY <1>1, <1>3 DEF Reader
  <2>2. ReaderStep(r, v) /\ env = "open" BY <1>5 DEF ReaderLoad
  <2> HIDE DEF v
  <2> QED BY <2>1, <2>2, ReaderStepKeeps
<1>6. CASE ReaderStore(r)
  <2> DEFINE v == [reader[r] EXCEPT !.pc = "stored", !.slot = {reader[r].loaded}]
  <2>1. v \in Reader /\ v.pc = "stored" /\ v.slot = {v.loaded}
    <3>1. reader[r].loaded \in Ids BY <1>3 DEF Reader
    <3>2. {reader[r].loaded} \in {{}} \cup {{k} : k \in Ids} BY <3>1
    <3> QED BY <1>3, <3>2 DEF Reader
  <2>2. ReaderStep(r, v) /\ env = "open" BY <1>4, <1>6 DEF ReaderStore
  <2> HIDE DEF v
  <2> QED BY <2>1, <2>2, ReaderStepKeeps
<1>7. CASE ReaderRetry(r)
  <2> DEFINE v == [reader[r] EXCEPT !.pc = "loaded", !.loaded = mti]
  <2>1. v \in Reader /\ v.pc = "loaded" BY <1>1, <1>3 DEF Reader
  <2>2. ReaderStep(r, v) /\ env = "open" BY <1>4, <1>7 DEF ReaderRetry
  <2> HIDE DEF v
  <2> QED BY <2>1, <2>2, ReaderStepKeeps
<1>8. CASE ReaderOpen(r)
  <2> DEFINE v == [reader[r] EXCEPT !.pc = "claimed"]
  <2>1. v \in Reader /\ v.pc = "claimed" /\ v.slot = {mti} /\ v.loaded = reader[r].loaded
    BY <1>3, <1>8 DEF Reader, ReaderOpen
  <2>2. ReaderStep(r, v) /\ env = "open" BY <1>4, <1>8 DEF ReaderOpen
  <2>3. reader[r].loaded = mti
    <3>1. reader[r].slot = {mti} /\ reader[r].slot = {reader[r].loaded}
      BY <1>8 DEF ReaderOpen, IInv, ReaderInv
    <3> QED BY <3>1
  <2> HIDE DEF v
  <2>4. cache[Slot(v.loaded)] = Base BY <2>1, <2>3 DEF Base
  <2>5. Base \in Held /\ Base.id = mti BY <2>2 DEF IInv, OpenInv
  <2>6. v.loaded = mti /\ v.slot = {v.loaded} /\ v.loaded <= Base.id BY <1>1, <2>1, <2>3, <2>5 DEF Ids
  <2> QED BY <2>1, <2>2, <2>4, <2>5, <2>6, ReaderStepKeeps
<1>9. CASE ReaderCopy(r)
  <2> DEFINE v == [reader[r] EXCEPT !.pc = "open", !.meta = cache[Slot(reader[r].loaded)]]
  <2>1. /\ cache[Slot(reader[r].loaded)] \in Held
        /\ reader[r].loaded <= cache[Slot(reader[r].loaded)].id
        /\ reader[r].slot = {reader[r].loaded}
    BY <1>9 DEF ReaderCopy, IInv, ReaderInv, ReadsMeta
  <2>2. cache[Slot(reader[r].loaded)] \in Meta BY <2>1 DEF Held
  <2>3. /\ v \in Reader /\ v.pc = "open" /\ v.slot = reader[r].slot /\ v.loaded = reader[r].loaded
        /\ v.meta = cache[Slot(reader[r].loaded)]
    BY <1>3, <2>2 DEF Reader
  <2>4. ReaderStep(r, v) /\ env = "open" BY <1>4, <1>9 DEF ReaderCopy
  <2> HIDE DEF v
  <2> QED BY <2>1, <2>3, <2>4, ReaderStepKeeps
<1>10. CASE ReaderEnd(r)
  <2>1. NoRead \in Reader /\ NoRead.pc = "none"
    BY EmptyMetaFields, FileAssumption DEF NoRead, Reader, Ids
  <2>2. ReaderStep(r, NoRead) /\ env = "open" BY <1>4, <1>10 DEF ReaderEnd
  <2> QED BY <2>1, <2>2, ReaderStepKeeps
<1> QED BY <1>2, <1>5, <1>6, <1>7, <1>8, <1>9, <1>10

-----------------------------------------------------------------------------
(* Calls of mdb_env_sync, up to what they record. *)

Caller == [pc : {"idle", "wait", "fsync"}, last : Ids, want : SUBSET Stamps,
           meta : Meta, pend : SUBSET Locations]

\* What FlushInv says of a meta that is being flushed.
Flushing(m, pend) ==
  /\ m \in Held /\ m \in Accounted /\ m \in Keyed /\ LastFlushed.id <= m.id
  /\ LastFlushed.done \subseteq m.done /\ m.done \in Prefixes
  /\ \A f \in Files, l \in Metas : f[l].id = m.id => Same(f[l], m)
  /\ \A p \in Pages : m.tree[p] # 0 => disk[p] = m.tree[p] \/ p \in pend

\* A call may go on to a state that flushes a held meta, or none.
LEMMA SyncStepKeeps ==
  ASSUME IInv, NEW s \in Syncers, NEW v \in Caller, UNCHANGED storeVars, UNCHANGED reader,
         syncer' = [syncer EXCEPT ![s] = v], env = "open", v.meta \in PastMetas,
         acked' \subseteq Chosen.done,
         v.pc # "idle" =>
           /\ Overlapping /\ v.last <= mti /\ v.want \subseteq Base.done
           /\ v.last <= LastFlushed.id => v.want \subseteq LastFlushed.done
           /\ \A t \in Syncers \ {s} : syncer[t].pc = "fsync" /\ v.last <= syncer[t].meta.id =>
                v.want \subseteq syncer[t].meta.done,
         v.pc = "fsync" =>
           /\ Flushing(v.meta, v.pend) /\ v.last <= v.meta.id
           /\ \A t \in Syncers \ {s} : syncer[t].pc # "fsync"
           /\ \A t \in Syncers : syncer[t].pc # "idle" /\ syncer[t].last <= v.meta.id =>
                syncer[t].want \subseteq v.meta.done
           /\ v.want \subseteq v.meta.done
  PROVE  IInv'
<1>1. syncer \in [Syncers -> Caller] BY DEF IInv, TypeOK, Caller
<1>2. /\ syncer' \in [Syncers -> Caller] /\ syncer'[s] = v
      /\ \A t \in Syncers : t # s => syncer'[t] = syncer[t]
  BY <1>1
<1>3. /\ Held' = Held /\ Base' = Base /\ LastFlushed' = LastFlushed /\ Prefixes' = Prefixes
      /\ PastMetas' = PastMetas /\ Past' = Past /\ SlotInv' /\ TxnInv'
  BY Unaffected
<1>4. TypeOK'
  <2>1. acked' \subseteq Stamps BY ChosenTyped, MetaFields DEF IInv
  <2> QED BY <1>2, <2>1 DEF IInv, TypeOK, storeVars, Caller
<1>5. StampInv' BY <1>2, <1>3 DEF IInv, StampInv, storeVars, Files
<1>6. RecoveryInv' BY RecoverySame
<1>7. OpenInv' BY OpenSame
<1>8. ReaderInv' BY ReaderSame
<1>9. CallInv'
  <2> SUFFICES ASSUME NEW t \in Syncers, syncer'[t].pc # "idle"
               PROVE  /\ env' = "open" /\ Overlapping /\ syncer'[t].last <= mti'
                      /\ syncer'[t].want \subseteq Base'.done
                      /\ syncer'[t].last <= LastFlushed'.id =>
                           syncer'[t].want \subseteq LastFlushed'.done
    BY DEF CallInv
  <2>1. CASE t = s BY <1>2, <1>3, <2>1 DEF storeVars
  <2>2. CASE t # s
    <3>1. syncer'[t] = syncer[t] BY <1>2, <2>2
    <3> QED BY <1>3, <3>1 DEF IInv, CallInv, storeVars
  <2> QED BY <2>1, <2>2
<1>10. FlushInv'
  <2> SUFFICES ASSUME NEW t \in Syncers, syncer'[t].pc = "fsync"
               PROVE  /\ \A u \in Syncers \ {t} : syncer'[u].pc # "fsync"
                      /\ Flushing(syncer[t].meta, syncer[t].pend)'
                      /\ \A u \in Syncers :
                           syncer'[u].pc # "idle" /\ syncer'[u].last <= syncer'[t].meta.id =>
                             syncer'[u].want \subseteq syncer'[t].meta.done
                      /\ syncer'[t].last <= syncer'[t].meta.id
    BY DEF FlushInv, Flushing
  <2>1. disk' = disk /\ Files' = Files BY DEF storeVars, Files
  <2>2. CASE t = s
    <3>1. Flushing(v.meta, v.pend) /\ syncer'[t] = v BY <1>2, <2>2
    <3>2. Flushing(syncer[t].meta, syncer[t].pend)'
      BY <1>3, <2>1, <3>1 DEF Flushing, Same
    <3>3. \A u \in Syncers \ {t} : syncer'[u] = syncer[u] BY <1>2, <2>2
    <3> QED BY <2>2, <3>1, <3>2, <3>3
  <2>3. CASE t # s
    <3>1. syncer'[t] = syncer[t] BY <1>2, <2>3
    <3>2. syncer[t].pc = "fsync" BY <3>1
    <3>3. /\ Flushing(syncer[t].meta, syncer[t].pend) /\ \A u \in Syncers \ {t} : syncer[u].pc # "fsync"
          /\ \A u \in Syncers : syncer[u].pc # "idle" /\ syncer[u].last <= syncer[t].meta.id =>
               syncer[u].want \subseteq syncer[t].meta.done
          /\ syncer[t].last <= syncer[t].meta.id
      BY <3>2 DEF IInv, FlushInv, Flushing
    <3>4. Flushing(syncer[t].meta, syncer[t].pend)'
      BY <1>3, <2>1, <3>1, <3>3 DEF Flushing, Same
    <3>5. v.pc # "fsync" BY <2>3, <3>2
    <3>6. ASSUME NEW u \in Syncers, syncer'[u].pc # "idle", syncer'[u].last <= syncer[t].meta.id
          PROVE  syncer'[u].want \subseteq syncer[t].meta.done
      <4>1. CASE u = s BY <1>2, <2>3, <3>2, <3>6, <4>1
      <4>2. CASE u # s BY <1>2, <3>3, <3>6, <4>2
      <4> QED BY <4>1, <4>2
    <3>7. \A u \in Syncers \ {t} : syncer'[u].pc # "fsync" BY <1>2, <3>3, <3>5
    <3> QED BY <3>1, <3>3, <3>4, <3>6, <3>7
  <2> QED BY <2>2, <2>3
<1> QED BY <1>3, <1>4, <1>5, <1>6, <1>7, <1>8, <1>9, <1>10 DEF IInv

\* An idle caller.
LEMMA NoSyncFields ==
  NoSync \in Caller /\ NoSync.pc = "idle" /\ NoSync.meta = EmptyMeta
BY EmptyMetaFields, FileAssumption DEF NoSync, Caller, Ids

\* An empty meta is older than any transaction.
LEMMA EmptyMetaPast == ASSUME TypeOK, StampInv PROVE EmptyMeta \in PastMetas
<1>1. 0 \in Past BY FileAssumption DEF StampInv, Past, TypeOK, Ids, Stamps
<1> QED BY <1>1, EmptyMetaFields DEF PastMetas

\* A meta with the number of the base is that of the base.
LEMMA NewestIsBase ==
  ASSUME IInv, env = "open"
  PROVE  /\ Base \in Meta /\ Base.id = mti /\ mti \in Nat /\ Slot(mti) \in Metas /\ cache \in Files
         /\ cache[Slot(mti)] = Base
<1>1. mti \in Nat BY FileAssumption DEF IInv, TypeOK, Ids
<1> QED BY <1>1, SlotFacts, TypedFiles, LocationFacts DEF IInv, OpenInv, Base, Files

\* With overlapping sync the flushed meta is a prefix of the base.
LEMMA FlushedPrefix ==
  ASSUME IInv, env = "open", Overlapping
  PROVE  LastFlushed \in Meta /\ LastFlushed.done \subseteq Base.done /\ Chosen = LastFlushed
<1>1. LastFlushed \in Meta BY TypedFiles, LocationFacts DEF IInv, LastFlushed, Files
<1>2. LastFlushed.done \in Prefixes BY DEF IInv, OpenInv
<1> QED BY <1>1, <1>2 DEF Prefixes, Chosen

\* A call takes the number and the transactions of the base.
LEMMA SyncCallKeeps == ASSUME IInv, NEW s \in Syncers, SyncCall(s) PROVE IInv'
<1> DEFINE v == [syncer[s] EXCEPT !.pc = "wait", !.last = mti, !.want = cache[Slot(mti)].done]
<1>1. syncer[s] \in Caller /\ mti \in Ids BY DEF IInv, TypeOK, Caller
<1>2. /\ UNCHANGED storeVars /\ UNCHANGED <<reader, acked>> /\ syncer' = [syncer EXCEPT ![s] = v]
      /\ env = "open" /\ Overlapping
  BY DEF SyncCall, storeVars
<1>3. /\ Base \in Meta /\ Base.id = mti /\ mti \in Nat /\ cache \in Files /\ Slot(mti) \in Metas
      /\ cache[Slot(mti)] = Base
  BY <1>2, NewestIsBase
<1>4. Base.done \subseteq Stamps BY <1>3, MetaFields
<1>5. v \in Caller /\ v.pc = "wait" /\ v.last = mti /\ v.want = Base.done /\ v.meta = syncer[s].meta
  BY <1>1, <1>3, <1>4 DEF Caller
<1> HIDE DEF v
<1>6. v.meta \in PastMetas BY <1>5 DEF IInv, StampInv
<1>7. acked' \subseteq Chosen.done BY <1>2 DEF IInv, RecoveryInv
<1>8. v.last <= LastFlushed.id => v.want \subseteq LastFlushed.done
  <2>1. LastFlushed.id <= mti /\ LastFlushed \in Meta BY <1>2 DEF IInv, OpenInv, Held
  <2>2. cache[Slot(mti)].id = LastFlushed.id => Same(cache[Slot(mti)], LastFlushed)
    BY <1>2, <1>3 DEF IInv, RecoveryInv, FlushedInv
  <2>3. LastFlushed.id \in Nat BY <2>1, MetaFields
  <2> QED BY <1>3, <1>5, <2>1, <2>2, <2>3 DEF Same
<1>9. ASSUME NEW t \in Syncers, syncer[t].pc = "fsync", v.last <= syncer[t].meta.id
      PROVE  v.want \subseteq syncer[t].meta.done
  <2>1. syncer[t].meta \in Held BY <1>9 DEF IInv, FlushInv
  <2>2. cache[Slot(mti)].id = syncer[t].meta.id => Same(cache[Slot(mti)], syncer[t].meta)
    BY <1>3, <1>9 DEF IInv, FlushInv
  <2>3. syncer[t].meta.id \in Nat /\ syncer[t].meta.id <= mti BY <2>1, MetaFields DEF Held
  <2> QED BY <1>3, <1>5, <1>9, <2>2, <2>3 DEF Same
<1>10. v.last <= mti /\ v.want \subseteq Base.done BY <1>3, <1>5
<1>11. v.pc # "idle" /\ v.pc # "fsync" BY <1>5
<1> QED BY <1>2, <1>5, <1>6, <1>7, <1>8, <1>9, <1>10, <1>11, SyncStepKeeps

\* A call ends early: another one flushed what it asked for, or fdatasync failed.
LEMMA SyncEndKeeps ==
  ASSUME IInv, NEW s \in Syncers, SyncSkip(s) \/ SyncFails(s) PROVE IInv'
<1>1. /\ UNCHANGED storeVars /\ UNCHANGED reader /\ syncer' = [syncer EXCEPT ![s] = NoSync]
      /\ syncer[s].pc # "idle"
  BY DEF SyncSkip, SyncFails, storeVars
<1>2. /\ env = "open" /\ Overlapping
      /\ syncer[s].last <= LastFlushed.id => syncer[s].want \subseteq LastFlushed.done
  BY <1>1 DEF IInv, CallInv
<1>3. acked' \subseteq Chosen.done
  <2>1. acked \subseteq Chosen.done BY DEF IInv, RecoveryInv
  <2>2. CASE SyncSkip(s)
    <3>1. synced <= LastFlushed.id /\ synced >= syncer[s].last /\ LastFlushed \in Meta
      BY <1>2, <2>2, FlushedPrefix DEF IInv, OpenInv, SyncSkip
    <3>2. synced \in Nat /\ syncer[s].last \in Nat /\ LastFlushed.id \in Nat
      BY <3>1, MetaFields, FileAssumption DEF IInv, TypeOK, Ids
    <3>3. syncer[s].want \subseteq LastFlushed.done BY <1>2, <3>1, <3>2
    <3>4. acked' = acked \cup syncer[s].want BY <2>2 DEF SyncSkip
    <3> QED BY <1>2, <2>1, <3>3, <3>4, FlushedPrefix
  <2>3. CASE SyncFails(s) BY <2>1, <2>3 DEF SyncFails
  <2> QED BY <2>2, <2>3
<1>4. NoSync \in Caller /\ NoSync.pc = "idle" /\ NoSync.meta \in PastMetas
  BY NoSyncFields, EmptyMetaPast DEF IInv
<1> QED BY <1>1, <1>2, <1>3, <1>4, SyncStepKeeps

\* A call starts to flush the newest meta, which is the base.
LEMMA SyncStartKeeps == ASSUME IInv, NEW s \in Syncers, SyncStart(s) PROVE IInv'
<1> DEFINE v == [syncer[s] EXCEPT !.pc = "fsync", !.meta = Latest(cache),
                                  !.pend = mdb_env_sync0(cache, disk)]
<1>1. syncer[s] \in Caller BY DEF IInv, TypeOK, Caller
<1>2. /\ UNCHANGED storeVars /\ UNCHANGED <<reader, acked>> /\ syncer' = [syncer EXCEPT ![s] = v]
      /\ syncer[s].pc = "wait" /\ \A t \in Syncers : syncer[t].pc # "fsync"
  BY DEF SyncStart, storeVars, MutexFree
<1>3. /\ env = "open" /\ Overlapping /\ syncer[s].last <= mti /\ syncer[s].want \subseteq Base.done
      /\ syncer[s].last <= LastFlushed.id => syncer[s].want \subseteq LastFlushed.done
  BY <1>2 DEF IInv, CallInv
<1>4. Base \in Meta /\ Base.id = mti /\ mti \in Nat BY <1>3, NewestIsBase
<1>5. Latest(cache) = Base /\ Base \in Held /\ Base \in Keyed BY <1>3 DEF IInv, OpenInv
<1>6. mdb_env_sync0(cache, disk) \subseteq Locations BY DEF mdb_env_sync0
<1>7. /\ v \in Caller /\ v.pc = "fsync" /\ v.last = syncer[s].last /\ v.want = syncer[s].want
      /\ v.meta = Base /\ v.pend = mdb_env_sync0(cache, disk)
  BY <1>1, <1>4, <1>5, <1>6 DEF Caller
<1> HIDE DEF v
<1>8. Base \in PastMetas /\ Base \in Accounted
  <2>1. Slot(mti) \in MetaLocations BY <1>4, SlotFacts, LocationFacts
  <2> QED BY <2>1 DEF IInv, StampInv, RecoveryInv, Files, Base
<1>9. acked' \subseteq Chosen.done BY <1>2 DEF IInv, RecoveryInv
<1>10. Flushing(Base, v.pend)
  <2>1. LastFlushed.id <= mti /\ LastFlushed.done \subseteq Base.done
    BY <1>3, FlushedPrefix DEF IInv, OpenInv, Held
  <2>2. Base.done \in Prefixes
    <3>1. mti \in Past /\ Base.done \subseteq Past BY <1>8 DEF PastMetas, IInv, StampInv
    <3>2. stamp \in Nat BY FileAssumption DEF IInv, TypeOK, Stamps
    <3> DEFINE n == IF wtxn.pc = "none" THEN stamp ELSE stamp - 1
    <3>3. n \in Past /\ \A t \in Past : t <= n BY <3>1, <3>2 DEF Past
    <3>4. Base.done = {t \in Base.done : t <= n} BY <3>1, <3>3
    <3> QED BY <3>3, <3>4 DEF Prefixes
  <2>3. \A f \in Files, l \in Metas : f[l].id = Base.id => Same(f[l], Base)
    BY <1>3, <1>4 DEF IInv, OpenInv
  <2>4. ASSUME NEW p \in Pages, Base.tree[p] # 0 PROVE disk[p] = Base.tree[p] \/ p \in v.pend
    <3>1. cache[p] = Base.tree[p] BY <1>5, <2>4 DEF Held, Intact
    <3> QED BY <1>7, <3>1, LocationFacts DEF mdb_env_sync0
  <2> QED BY <1>4, <1>5, <1>8, <2>1, <2>2, <2>3, <2>4 DEF Flushing
<1>11. \A t \in Syncers : syncer[t].pc # "idle" => syncer[t].want \subseteq Base.done
  BY DEF IInv, CallInv
<1>12. Flushing(v.meta, v.pend) /\ v.last <= v.meta.id BY <1>3, <1>4, <1>7, <1>10
<1>13. v.meta \in PastMetas /\ v.want \subseteq v.meta.done /\ v.want \subseteq Base.done
  BY <1>3, <1>7, <1>8
<1>14. /\ \A t \in Syncers : syncer[t].pc # "idle" => syncer[t].want \subseteq v.meta.done
       /\ v.last <= mti /\ (v.last <= LastFlushed.id => v.want \subseteq LastFlushed.done)
  BY <1>3, <1>7, <1>11
<1> QED BY <1>2, <1>3, <1>7, <1>9, <1>12, <1>13, <1>14, SyncStepKeeps

-----------------------------------------------------------------------------
(* Steps that leave the metas in the page cache alone. *)

\* The metas that OpenInv, FlushInv and ReaderInv hold.
Kept ==
  {Base} \cup (IF Overlapping THEN {LastFlushed} ELSE {})
    \cup {syncer[s].meta : s \in {t \in Syncers : syncer[t].pc = "fsync"}}
    \cup {ReadsMeta(r) : r \in {q \in Readers : reader[q].pc \in {"claimed", "open"}}}

\* They are held.
LEMMA KeptHeld == ASSUME IInv, env = "open" PROVE Kept \subseteq Held
<1>1. Base \in Held /\ (Overlapping => LastFlushed \in Held) BY DEF IInv, OpenInv
<1>2. \A s \in Syncers : syncer[s].pc = "fsync" => syncer[s].meta \in Held BY DEF IInv, FlushInv
<1>3. \A r \in Readers : reader[r].pc \in {"claimed", "open"} => ReadsMeta(r) \in Held
  BY DEF IInv, ReaderInv
<1> QED BY <1>1, <1>2, <1>3, FileAssumption DEF Kept

QuietVars == <<env, mti, synced, reader, crashes, acked>>

\* The metas of a file after a step that may have written some of them back.
Quiet ==
  /\ UNCHANGED QuietVars
  /\ \A l \in MetaLocations : cache'[l] = cache[l] /\ disk'[l] \in {disk[l], cache[l]}
  /\ \A s \in Syncers : /\ syncer'[s].pc = syncer[s].pc /\ syncer'[s].last = syncer[s].last
                        /\ syncer'[s].want = syncer[s].want /\ syncer'[s].meta = syncer[s].meta

\* Such a step leaves the base, the flushed meta and the newest one alone.
LEMMA QuietMetas ==
  ASSUME IInv, Quiet
  PROVE  /\ Base' = Base /\ LastFlushed' = LastFlushed /\ Chosen' = Chosen
         /\ Latest(cache)' = Latest(cache)
         /\ \A l \in MetaLocations : cache'[l] = cache[l]
         /\ \A f \in Files', l \in MetaLocations : \E g \in Files : f[l] = g[l]
<1>1. mti \in Nat BY FileAssumption DEF IInv, TypeOK, Ids
<1>2. /\ Slot(mti) \in MetaLocations /\ FlushedMeta \in MetaLocations
      /\ 0 \in MetaLocations /\ 1 \in MetaLocations
  BY <1>1, SlotFacts, LocationFacts DEF Metas
<1>3. mti' = mti /\ \A l \in MetaLocations : cache'[l] = cache[l] BY DEF Quiet, QuietVars
<1>4. Base' = Base /\ LastFlushed' = LastFlushed /\ Latest(cache)' = Latest(cache)
  BY <1>2, <1>3 DEF Base, LastFlushed, Latest
<1>5. Chosen' = Chosen BY <1>4 DEF Chosen
<1>6. \A f \in Files', l \in MetaLocations : \E g \in Files : f[l] = g[l] BY DEF Quiet, Files
<1> QED BY <1>3, <1>4, <1>5, <1>6

\* It keeps the invariant if the metas in use stay held and no page of them is lost.
LEMMA QuietKeeps ==
  ASSUME IInv, TypeOK', TxnInv', Quiet,
         Past \subseteq Past', env = "open" => Kept \subseteq Held',
         env # "open" => wtxn' = wtxn /\ pgoldest' = pgoldest /\ syncer' = syncer,
         Intact(Chosen, cache'), Intact(Chosen, disk'),
         \A s \in Syncers : syncer[s].pc = "fsync" =>
           \A p \in Pages : syncer[s].meta.tree[p] # 0 =>
             disk'[p] = syncer[s].meta.tree[p] \/ p \in syncer'[s].pend
  PROVE  IInv'
<1>1. /\ Base' = Base /\ LastFlushed' = LastFlushed /\ Chosen' = Chosen
      /\ Latest(cache)' = Latest(cache)
      /\ \A l \in MetaLocations : cache'[l] = cache[l]
      /\ \A f \in Files', l \in MetaLocations : \E g \in Files : f[l] = g[l]
  BY QuietMetas
<1>2. /\ \A l \in MetaLocations : disk'[l] \in {disk[l], cache[l]}
      /\ env' = env /\ mti' = mti /\ synced' = synced /\ reader' = reader /\ acked' = acked
  BY DEF Quiet, QuietVars
<1>3. \A s \in Syncers : /\ syncer'[s].pc = syncer[s].pc /\ syncer'[s].last = syncer[s].last
                         /\ syncer'[s].want = syncer[s].want /\ syncer'[s].meta = syncer[s].meta
  BY DEF Quiet
<1>4. Metas \subseteq MetaLocations /\ FlushedMeta \in MetaLocations /\ Overlapping \in BOOLEAN
  BY LocationFacts, FileAssumption
<1>5. PastMetas \subseteq PastMetas' BY DEF PastMetas
<1>6. StampInv'
  <2>1. mti' \in Past' /\ \A s \in Syncers : syncer'[s].meta \in PastMetas'
    BY <1>2, <1>3, <1>5 DEF IInv, StampInv
  <2>2. \A f \in Files', l \in MetaLocations : f[l] \in PastMetas'
    BY <1>1, <1>5 DEF IInv, StampInv
  <2> QED BY <2>1, <2>2 DEF StampInv
<1>7. SlotInv'
  <2>1. \A f \in Files', s \in Metas : f[s].id > 0 => Slot(f[s].id) = s
    BY <1>1, <1>4 DEF IInv, SlotInv
  <2>2. ASSUME NEW s \in Metas PROVE disk'[s].id <= cache'[s].id
    <3>1. cache[s] \in Meta BY <1>4, TypedFiles DEF IInv, Files
    <3>2. cache[s].id <= cache[s].id BY <3>1, MetaFields
    <3> QED BY <1>1, <1>2, <1>4, <3>2 DEF IInv, SlotInv
  <2> QED BY <2>1, <2>2 DEF SlotInv
<1>8. RecoveryInv'
  <2>1. \A f \in Files', l \in MetaLocations : f[l] \in Accounted BY <1>1 DEF IInv, RecoveryInv
  <2>2. ASSUME Overlapping PROVE FlushedInv'
    <3>1. FlushedInv BY <2>2 DEF IInv, RecoveryInv
    <3>2. disk'[FlushedMeta] = LastFlushed BY <1>2, <1>4, <3>1 DEF FlushedInv, LastFlushed
    <3>3. ASSUME NEW f \in Files', NEW s \in Metas
          PROVE  /\ f[s].unsynced \/ f[s].id <= LastFlushed.id
                 /\ f[s].id = LastFlushed.id => Same(f[s], LastFlushed)
      BY <1>1, <1>4, <3>1 DEF FlushedInv
    <3>4. ASSUME env = "rollback", NEW f \in Files' PROVE f[Slot(LastFlushed.id)] = LastFlushed
      <4>1. LastFlushed \in Meta BY <1>4, TypedFiles DEF IInv, LastFlushed, Files
      <4>2. Slot(LastFlushed.id) \in MetaLocations BY <1>4, <4>1, MetaFields, SlotFacts
      <4> QED BY <1>1, <3>1, <3>4, <4>2 DEF FlushedInv
    <3> QED BY <1>1, <1>2, <3>1, <3>2, <3>3, <3>4 DEF FlushedInv
  <2>3. ASSUME ~Overlapping PROVE SyncedInv'
    <3>1. SyncedInv BY <2>3 DEF IInv, RecoveryInv
    <3> QED BY <1>1, <1>2, <1>4, <3>1 DEF SyncedInv
  <2>4. Chosen' \in Keyed /\ acked' \subseteq Chosen'.done BY <1>1, <1>2 DEF IInv, RecoveryInv
  <2>5. Intact(Chosen', cache') /\ Intact(Chosen', disk') BY <1>1
  <2>6. Intact(Chosen, cache)' /\ Intact(Chosen, disk)' BY <2>5 DEF Intact
  <2> QED BY <1>4, <2>1, <2>2, <2>3, <2>4, <2>6 DEF RecoveryInv
<1>9. \A n \in Prefixes : n \in Prefixes' BY <1>1 DEF Prefixes
<1>10. OpenInv'
  <2>1. CASE env # "open" BY <1>2, <2>1 DEF IInv, OpenInv
  <2>2. CASE env = "open"
    <3>1. Base \in Held' /\ (Overlapping => LastFlushed \in Held') BY <2>2 DEF Kept
    <3>2. \A f \in Files', s \in Metas : f[s].id <= mti /\ (f[s].id = mti => Same(f[s], Base))
      BY <1>1, <1>4, <2>2 DEF IInv, OpenInv
    <3> QED BY <1>1, <1>2, <1>9, <2>2, <3>1, <3>2 DEF IInv, OpenInv
  <2> QED BY <2>1, <2>2
<1>11. CallInv' BY <1>1, <1>2, <1>3 DEF IInv, CallInv
<1>12. FlushInv'
  <2> SUFFICES ASSUME NEW s \in Syncers, syncer'[s].pc = "fsync"
               PROVE  /\ \A t \in Syncers \ {s} : syncer'[t].pc # "fsync"
                      /\ Flushing(syncer[s].meta, syncer[s].pend)'
                      /\ \A t \in Syncers :
                           syncer'[t].pc # "idle" /\ syncer'[t].last <= syncer'[s].meta.id =>
                             syncer'[t].want \subseteq syncer'[s].meta.done
                      /\ syncer'[s].last <= syncer'[s].meta.id
    BY DEF FlushInv, Flushing
  <2>1. syncer[s].pc = "fsync" /\ env = "open" BY <1>3 DEF IInv, CallInv
  <2>2. /\ Flushing(syncer[s].meta, syncer[s].pend) /\ \A t \in Syncers \ {s} : syncer[t].pc # "fsync"
        /\ \A t \in Syncers : syncer[t].pc # "idle" /\ syncer[t].last <= syncer[s].meta.id =>
             syncer[t].want \subseteq syncer[s].meta.done
        /\ syncer[s].last <= syncer[s].meta.id
    BY <2>1 DEF IInv, FlushInv, Flushing
  <2>3. syncer[s].meta \in Held' BY <2>1 DEF Kept
  <2>4. \A f \in Files', l \in Metas : f[l].id = syncer[s].meta.id => Same(f[l], syncer[s].meta)
    BY <1>1, <1>4, <2>2 DEF Flushing
  <2>5. Flushing(syncer[s].meta, syncer[s].pend)'
    BY <1>1, <1>3, <1>9, <2>1, <2>2, <2>3, <2>4 DEF Flushing, Same
  <2> QED BY <1>3, <2>2, <2>5
<1>13. ReaderInv'
  <2> SUFFICES ASSUME NEW r \in Readers, reader[r].pc \in {"claimed", "open"}
               PROVE  ReadsMeta(r)' = ReadsMeta(r) /\ ReadsMeta(r) \in Held'
    BY <1>2 DEF IInv, ReaderInv
  <2>1. env = "open" /\ reader[r].loaded \in Nat BY FileAssumption DEF IInv, ReaderInv, TypeOK, Ids
  <2>2. Slot(reader[r].loaded) \in MetaLocations BY <1>4, <2>1, SlotFacts
  <2>3. ReadsMeta(r)' = ReadsMeta(r) BY <1>1, <1>2, <2>2 DEF ReadsMeta
  <2>4. ReadsMeta(r) \in Held' BY <2>1 DEF Kept
  <2> QED BY <2>3, <2>4
<1> QED BY <1>6, <1>7, <1>8, <1>10, <1>11, <1>12, <1>13 DEF IInv

-----------------------------------------------------------------------------
(* Beginning and ending a transaction. *)

Writer == [pc : {"none", "open", "flushed"}, nosync : BOOLEAN, stamp : Stamps, meta : Meta,
           freed : SUBSET Pages, pghead : SUBSET Pages, pglast : Ids, pend : SUBSET Locations]

fileVars == <<cache, disk, env, mti, synced, syncer, reader, crashes, acked>>

\* QuietKeeps for the steps of a transaction that write nothing to the file.
LEMMA TxnStepKeeps ==
  ASSUME IInv, UNCHANGED fileVars, env = "open", TypeOK', TxnInv',
         Past \subseteq Past', Kept \subseteq Held'
  PROVE  IInv'
<1>1. Quiet BY DEF Quiet, QuietVars, fileVars
<1>2. Intact(Chosen, cache') /\ Intact(Chosen, disk')
  <2>1. cache' = cache /\ disk' = disk BY DEF fileVars
  <2> QED BY <2>1 DEF IInv, RecoveryInv
<1>3. \A s \in Syncers : syncer[s].pc = "fsync" =>
        \A p \in Pages : syncer[s].meta.tree[p] # 0 =>
          disk'[p] = syncer[s].meta.tree[p] \/ p \in syncer'[s].pend
  BY DEF IInv, FlushInv, fileVars
<1> QED BY <1>1, <1>2, <1>3, QuietKeeps

\* No transaction.
LEMMA NoTxnFields == NoTxn \in Writer /\ NoTxn.pc = "none" /\ NoTxn.pend = {}
BY EmptyMetaFields, FileAssumption DEF NoTxn, Writer, Ids, Stamps

\* An abort, and a commit that failed.
LEMMA TxnEndKeeps == ASSUME IInv, mdb_txn_end \/ CommitFails PROVE IInv'
<1>1. UNCHANGED fileVars /\ UNCHANGED <<stamp, pgoldest>> /\ wtxn' = NoTxn /\ wtxn.pc # "none"
  BY DEF mdb_txn_end, CommitFails, fileVars
<1>2. env = "open" BY <1>1 DEF IInv, TxnInv
<1>3. TypeOK' BY <1>1, NoTxnFields DEF IInv, TypeOK, Writer, fileVars
<1>4. TxnInv' BY <1>1, NoTxnFields DEF TxnInv
<1>5. Past \subseteq Past'
  <2>1. stamp \in Nat BY FileAssumption DEF IInv, TypeOK, Stamps
  <2>2. Past = 0 .. stamp - 1 BY <1>1 DEF Past
  <2>3. Past' = 0 .. stamp BY <1>1, NoTxnFields DEF Past
  <2> QED BY <2>1, <2>2, <2>3
<1>6. Held \subseteq Held'
  <2>1. Base' = Base BY <1>1 DEF Base, fileVars
  <2> QED BY <1>1, <2>1, NoTxnFields DEF Held, fileVars
<1>7. Kept \subseteq Held' BY <1>2, <1>6, KeptHeld
<1> QED BY <1>1, <1>2, <1>3, <1>4, <1>5, <1>7, TxnStepKeeps

\* A new transaction saves, so far, the free list of the base.
LEMMA TxnBeginKeeps ==
  ASSUME IInv, OneKind, NEW nosync \in NoSyncs, mdb_txn_begin(nosync) PROVE IInv'
<1> DEFINE meta == [cache[Slot(mti)] EXCEPT !.id = mti + 1, !.done = @ \cup {stamp + 1}]
           w == [NoTxn EXCEPT !.pc = "open", !.nosync = nosync, !.stamp = stamp + 1, !.meta = meta]
<1>1. /\ UNCHANGED fileVars /\ UNCHANGED pgoldest /\ wtxn' = w /\ stamp' = stamp + 1
      /\ wtxn.pc = "none" /\ env = "open" /\ stamp < MaxTxns
  BY DEF mdb_txn_begin, fileVars
<1>2. /\ stamp \in Nat /\ stamp + 1 \in Stamps /\ stamp + 1 \in 1 .. MaxTxns /\ MaxTxns \in Nat
      /\ nosync = Overlapping /\ nosync \in BOOLEAN
  <2>1. stamp \in 0 .. MaxTxns /\ MaxTxns \in Nat BY FileAssumption DEF IInv, TypeOK, Stamps
  <2>2. nosync = Overlapping /\ nosync \in BOOLEAN BY FileAssumption DEF OneKind
  <2>3. stamp + 1 \in 1 .. MaxTxns BY <1>1, <2>1
  <2> QED BY <2>1, <2>2, <2>3 DEF Stamps
<1>3. Past = 0 .. stamp /\ mti \in Past BY <1>1 DEF Past, IInv, StampInv
<1>4. mti \in 0 .. stamp /\ mti + 1 \in Ids BY <1>1, <1>2, <1>3 DEF Ids
<1>5. Base \in Meta /\ Base.id = mti /\ mti \in Nat /\ Slot(mti) \in Metas /\ Base = cache[Slot(mti)]
  BY <1>1, NewestIsBase DEF Base
<1>6. /\ Base \in Accounted /\ Base \in Keyed /\ Base \in PastMetas
  <2>1. Slot(mti) \in MetaLocations /\ cache \in Files BY <1>5, LocationFacts DEF Files
  <2> QED BY <1>1, <1>5, <2>1 DEF IInv, StampInv, RecoveryInv, OpenInv
<1>7. /\ meta \in Meta /\ meta.id = mti + 1 /\ meta.done = Base.done \cup {stamp + 1}
      /\ meta.tree = Base.tree /\ meta.free = Base.free /\ meta.last = Base.last
  <2>1. Base.done \subseteq Stamps BY <1>5, MetaFields
  <2> QED BY <1>2, <1>4, <1>5, <2>1 DEF Meta
<1> HIDE DEF meta
<1>8. /\ w \in Writer /\ w.pc = "open" /\ w.nosync = Overlapping /\ w.stamp = stamp + 1 /\ w.meta = meta
      /\ w.freed = {} /\ w.pghead = {} /\ w.pglast = 0
  <2>1. /\ NoTxn \in Writer /\ NoTxn.freed = {} /\ NoTxn.pghead = {} /\ NoTxn.pglast = 0
    BY NoTxnFields DEF NoTxn
  <2> QED BY <1>2, <1>7, <2>1 DEF Writer
<1> HIDE DEF w
<1>9. TypeOK' BY <1>1, <1>2, <1>8 DEF IInv, TypeOK, Writer, fileVars
<1>10. Past' = 0 .. stamp BY <1>1, <1>2, <1>8 DEF Past
<1>11. FreeList(w) = Base.free
  <2>1. Base.free \in [Ids -> SUBSET Pages] BY <1>5, MetaFields
  <2>2. ASSUME NEW k \in Ids PROVE FreeList(w)[k] = Base.free[k]
    <3>1. k \in Nat BY FileAssumption DEF Ids
    <3>2. k = 0 \/ k > mti => Base.free[k] = {} BY <1>5, <1>6 DEF Keyed
    <3>3. /\ w.meta.id = mti + 1 /\ w.freed = {} /\ w.pglast = 0 /\ w.pghead = {}
          /\ w.meta.free = Base.free
      BY <1>7, <1>8
    <3>4. FreeList(w)[k] = IF k = w.meta.id THEN w.freed
                           ELSE IF k <= w.pglast THEN (IF k = w.pglast THEN w.pghead ELSE {})
                           ELSE w.meta.free[k]
      BY DEF FreeList
    <3>5. CASE k = mti + 1 BY <1>5, <3>2, <3>3, <3>4, <3>5
    <3>6. CASE k # mti + 1 /\ k = 0 BY <3>2, <3>3, <3>4, <3>6
    <3>7. CASE k # mti + 1 /\ k # 0
      <4>1. ~(k <= w.pglast) BY <3>1, <3>3, <3>7
      <4> QED BY <3>3, <3>4, <3>7, <4>1
    <3> QED BY <3>5, <3>6, <3>7
  <2>3. DOMAIN FreeList(w) = Ids /\ FreeList(w) = [k \in Ids |-> FreeList(w)[k]] BY DEF FreeList
  <2> QED BY <2>1, <2>2, <2>3
<1>12. /\ Saved(w) \in Meta /\ Saved(w).id = mti + 1 /\ Saved(w).tree = Base.tree
       /\ Saved(w).free = Base.free /\ Saved(w).last = Base.last
  <2>1. Base.free \in [Ids -> SUBSET Pages] BY <1>5, MetaFields
  <2> QED BY <1>7, <1>8, <1>11, <2>1 DEF Saved, Meta
<1>13. TxnInv'
  <2>1. Base' = Base /\ env' = env /\ mti' = mti BY <1>1 DEF Base, fileVars
  <2>2. Base.last <= meta.last /\ w.pglast <= mti
    <3>1. Base.last \in 1 .. LastPage BY <1>5, MetaFields
    <3> QED BY <1>5, <1>7, <1>8, <3>1
  <2>3. Saved(w) \in Accounted BY <1>6, <1>12 DEF Accounted
  <2>4. Saved(w) \in Keyed
    <3>1. \A j \in Ids : j = 0 \/ j > mti + 1 => Base.free[j] = {}
      <4>1. \A j \in Ids : j > mti + 1 => j > mti BY <1>5, FileAssumption DEF Ids
      <4> QED BY <1>5, <1>6, <4>1 DEF Keyed
    <3> QED BY <1>12, <3>1 DEF Keyed
  <2>5. \A p \in Pages : meta.tree[p] \in {0, Base.tree[p], stamp + 1} BY <1>7
  <2>6. stamp + 1 > 0 BY <1>2
  <2>7. Saved(wtxn)' = Saved(w) BY <1>1 DEF Saved, FreeList
  <2> QED BY <1>1, <1>7, <1>8, <2>1, <2>2, <2>3, <2>4, <2>5, <2>6, <2>7 DEF TxnInv
<1>14. Held \subseteq Held'
  <2> SUFFICES ASSUME NEW m \in Held PROVE m \in Held' OBVIOUS
  <2>1. /\ m \in Meta /\ m.id <= mti /\ pgoldest <= m.id /\ Intact(m, cache) /\ Keeps(m, Base)
    BY DEF Held
  <2>2. Base' = Base /\ cache' = cache /\ mti' = mti BY <1>1 DEF Base, fileVars
  <2>3. m.id \in Nat BY <2>1, MetaFields
  <2>4. w.pglast <= m.id BY <1>8, <2>3
  <2>5. Keeps(m, Saved(w)) BY <1>12, <2>1 DEF Keeps
  <2>6. \A p \in Pages : w.meta.tree[p] # stamp + 1
    <3>1. \A p \in Pages : Base.tree[p] \in 0 .. stamp BY <1>3, <1>6 DEF PastMetas
    <3> QED BY <1>2, <1>7, <1>8, <3>1
  <2>7. Intact(m, cache)' /\ Keeps(m, Base)' BY <2>1, <2>2 DEF Intact, Keeps
  <2>8. Keeps(m, Saved(wtxn))' BY <1>1, <2>5 DEF Keeps, Saved, FreeList
  <2> QED BY <1>1, <1>8, <2>1, <2>2, <2>4, <2>6, <2>7, <2>8 DEF Held
<1>15. Past \subseteq Past' /\ Kept \subseteq Held' BY <1>1, <1>3, <1>10, <1>14, KeptHeld
<1> QED BY <1>1, <1>9, <1>13, <1>15, TxnStepKeeps

-----------------------------------------------------------------------------
(* Page allocation. *)

\* What the loop takes for the oldest transaction is not newer than any held meta.
LEMMA OldestKept ==
  ASSUME IInv, env = "open", wtxn.pc = "open"
  PROVE  Oldest \in Ids /\ \A m \in Kept : Oldest <= m.id
<1> DEFINE first == IF Overlapping THEN synced ELSE wtxn.meta.id - 1
           S == {first} \cup UNION {reader[r].slot : r \in Readers}
<1>1. Base \in Meta /\ Base.id = mti /\ mti \in Nat BY NewestIsBase
<1>2. /\ synced \in Ids /\ mti \in Ids /\ pgoldest \in Ids /\ wtxn.meta.id = mti + 1
      /\ \A r \in Readers : reader[r].slot \subseteq Ids
  <2>1. \A r \in Readers : reader[r].slot \in {{}} \cup {{k} : k \in Ids} BY DEF IInv, TypeOK
  <2>2. \A r \in Readers : reader[r].slot \subseteq Ids BY <2>1
  <2>3. wtxn.meta.id = mti + 1 BY DEF IInv, TxnInv
  <2> QED BY <2>2, <2>3 DEF IInv, TypeOK
<1>3. first \in Ids BY <1>1, <1>2
<1>4. Ids \subseteq Nat BY FileAssumption DEF Ids
<1>5. S \subseteq Ids /\ S # {} BY <1>2, <1>3
<1>6. Min(S) \in Ids /\ \A y \in S : Min(S) <= y
  <2>1. S \in SUBSET Nat BY <1>4, <1>5
  <2> HIDE DEF S
  <2> QED BY <1>5, <2>1, MinIs
<1>7. mdb_find_oldest = Min(S) BY DEF mdb_find_oldest
<1>8. Oldest \in {mdb_find_oldest, pgoldest} BY DEF Oldest
<1>9. \A m \in Kept : m \in Held /\ m.id \in Nat /\ m.id <= mti /\ pgoldest <= m.id
  BY KeptHeld, MetaFields DEF Held
<1>10. \A m \in Kept : Min(S) <= m.id
  <2> SUFFICES ASSUME NEW m \in Kept PROVE Min(S) <= m.id OBVIOUS
  <2>1. m.id \in Nat /\ Min(S) \in Nat /\ first \in Nat /\ first \in S BY <1>3, <1>4, <1>6, <1>9
  <2> HIDE DEF S
  <2>2. CASE m.id >= first BY <1>6, <2>1, <2>2
  <2>3. ASSUME NEW r \in Readers, reader[r].pc \in {"claimed", "open"}, m = ReadsMeta(r)
        PROVE  Min(S) <= m.id
    <3>1. reader[r].slot = {reader[r].loaded} /\ reader[r].loaded <= m.id BY <2>3 DEF IInv, ReaderInv
    <3>2. reader[r].loaded \in S BY <3>1 DEF S
    <3>3. reader[r].loaded \in Nat BY <1>2, <1>4, <3>1
    <3> QED BY <1>6, <2>1, <3>1, <3>2, <3>3
  <2>4. ASSUME Overlapping
        PROVE  synced <= LastFlushed.id /\ LastFlushed.id \in Nat /\ LastFlushed.id <= mti
    <3>1. synced <= LastFlushed.id /\ LastFlushed \in Held BY <2>4 DEF IInv, OpenInv
    <3> QED BY <3>1, MetaFields DEF Held
  <2>5. CASE m = Base
    <3>1. CASE Overlapping
      <4>1. synced \in Nat BY <1>2, <1>4
      <4>2. m.id >= first BY <1>1, <2>4, <2>5, <3>1, <4>1
      <4> QED BY <2>2, <4>2
    <3>2. CASE ~Overlapping BY <1>1, <1>2, <2>2, <2>5, <3>2
    <3> QED BY <3>1, <3>2
  <2>6. CASE Overlapping /\ m = LastFlushed BY <2>1, <2>2, <2>4, <2>6
  <2>7. ASSUME NEW s \in Syncers, syncer[s].pc = "fsync", m = syncer[s].meta PROVE Min(S) <= m.id
    <3>1. Overlapping /\ LastFlushed.id <= m.id BY <2>7 DEF IInv, CallInv, FlushInv
    <3>2. synced \in Nat BY <1>2, <1>4
    <3>3. m.id >= first BY <2>1, <2>4, <3>1, <3>2
    <3> QED BY <2>2, <3>3
  <2> QED BY <2>3, <2>5, <2>6, <2>7 DEF Kept
<1> QED BY <1>2, <1>6, <1>7, <1>8, <1>9, <1>10

\* Fetching a record does not change what the transaction saves.
LEMMA FetchedKeeps ==
  ASSUME IInv, wtxn.pc = "open"
  PROVE  /\ Fetched \in Writer /\ Fetched.pc = "open" /\ Fetched.nosync = wtxn.nosync
         /\ Fetched.stamp = wtxn.stamp /\ Fetched.meta = wtxn.meta /\ Fetched.freed = wtxn.freed
         /\ FreeList(Fetched) = FreeList(wtxn) /\ Fetched.pglast <= mti
         /\ \A m \in Kept : Fetched.pglast <= m.id
<1>1. env = "open" /\ wtxn.meta.id = mti + 1 /\ wtxn.meta.free = Base.free /\ wtxn.pglast <= mti
  BY DEF IInv, TxnInv
<1>2. wtxn \in Writer /\ mti \in Nat BY FileAssumption DEF IInv, TypeOK, Writer, Ids
<1>3. wtxn.meta \in Meta /\ wtxn.pglast \in Ids BY <1>2 DEF Writer
<1>4. \A m \in Kept : m.id \in Nat /\ wtxn.pglast <= m.id
  BY <1>1, KeptHeld, MetaFields DEF Held
<1>5. CASE wtxn.pghead # {} \/ Records = {} \/ Oldest <= Min(Records)
  <2>1. Fetched = wtxn BY <1>5 DEF Fetched
  <2> QED BY <1>1, <1>2, <1>4, <2>1
<1>6. CASE wtxn.pghead = {} /\ Records # {} /\ ~(Oldest <= Min(Records))
  <2> DEFINE q == Min(Records)
  <2>1. Ids \subseteq Nat BY FileAssumption DEF Ids
  <2>2. Records \in SUBSET Nat BY <2>1 DEF Records
  <2>3. q \in Records /\ \A k \in Records : q <= k BY <1>6, <2>2, MinIs
  <2>4. Fetched = [wtxn EXCEPT !.pghead = wtxn.meta.free[q], !.pglast = q] BY <1>6 DEF Fetched
  <2>5. Oldest \in Nat /\ ~(Oldest <= q) /\ \A m \in Kept : Oldest <= m.id
    BY <1>1, <1>6, <2>1, OldestKept
  <2> HIDE DEF q
  <2>6. q \in Ids /\ q \in Nat /\ q > wtxn.pglast /\ wtxn.meta.free[q] # {} BY <2>1, <2>3 DEF Records
  <2>7. \A m \in Kept : q <= m.id BY <1>4, <2>5, <2>6
  <2>8. q <= mti
    <3>1. Base \in Keyed /\ Base.id = mti BY <1>1 DEF IInv, OpenInv
    <3>2. ~(q > mti) BY <1>1, <2>6, <3>1 DEF Keyed
    <3> QED BY <1>2, <2>6, <3>2
  <2>9. wtxn.meta.free[q] \subseteq Pages BY <1>3, <2>6, MetaFields
  <2>10. /\ Fetched \in Writer /\ Fetched.pc = "open" /\ Fetched.nosync = wtxn.nosync
         /\ Fetched.stamp = wtxn.stamp /\ Fetched.meta = wtxn.meta /\ Fetched.freed = wtxn.freed
         /\ Fetched.pglast = q /\ Fetched.pghead = wtxn.meta.free[q]
    BY <1>2, <2>4, <2>6, <2>9 DEF Writer
  <2>11. FreeList(Fetched) = FreeList(wtxn)
    <3>1. ASSUME NEW k \in Ids PROVE FreeList(Fetched)[k] = FreeList(wtxn)[k]
      <4>1. FreeList(Fetched)[k] = IF k = mti + 1 THEN wtxn.freed
                                   ELSE IF k <= q THEN (IF k = q THEN wtxn.meta.free[q] ELSE {})
                                   ELSE wtxn.meta.free[k]
        BY <1>1, <2>10 DEF FreeList
      <4>2. FreeList(wtxn)[k] = IF k = mti + 1 THEN wtxn.freed
                                ELSE IF k <= wtxn.pglast THEN {} ELSE wtxn.meta.free[k]
        BY <1>1, <1>6 DEF FreeList
      <4>3. k \in Nat /\ wtxn.pglast \in Nat BY <1>3, <2>1
      <4>4. k > wtxn.pglast /\ k < q => wtxn.meta.free[k] = {}
        <5>1. k < q => k \notin Records BY <2>3, <2>6, <4>3 DEF q
        <5> QED BY <5>1 DEF Records
      <4>5. CASE k = mti + 1 BY <4>1, <4>2, <4>5
      <4>6. CASE k # mti + 1 /\ k <= wtxn.pglast
        <5>1. k <= q /\ k # q BY <2>6, <4>3, <4>6
        <5> QED BY <4>1, <4>2, <4>6, <5>1
      <4>7. CASE k # mti + 1 /\ ~(k <= wtxn.pglast)
        <5>1. FreeList(wtxn)[k] = wtxn.meta.free[k] BY <4>2, <4>7
        <5>2. CASE k = q BY <2>6, <4>1, <4>7, <5>1, <5>2
        <5>3. CASE k < q
          <6>1. k <= q /\ k # q /\ k > wtxn.pglast BY <2>6, <4>3, <4>7, <5>3
          <6> QED BY <4>1, <4>4, <4>7, <5>1, <5>3, <6>1
        <5>4. CASE k > q
          <6>1. ~(k <= q) BY <2>6, <4>3, <5>4
          <6> QED BY <4>1, <4>7, <5>1, <6>1
        <5> QED BY <2>6, <4>3, <5>2, <5>3, <5>4
      <4> QED BY <4>5, <4>6, <4>7
    <3>2. /\ FreeList(Fetched) = [k \in Ids |-> FreeList(Fetched)[k]]
          /\ FreeList(wtxn) = [k \in Ids |-> FreeList(wtxn)[k]]
      BY DEF FreeList
    <3> QED BY <3>1, <3>2
  <2> QED BY <2>7, <2>8, <2>10, <2>11
<1> QED BY <1>5, <1>6

\* The transaction after it wrote NewPage in the place of the pages in old.
LEMMA Written ==
  ASSUME IInv, wtxn.pc = "open", NEW old \in SUBSET Pages, WritePage(old), NewPage \in Pages
  PROVE  /\ wtxn' \in Writer /\ wtxn'.pc = "open" /\ wtxn'.nosync = wtxn.nosync
         /\ wtxn'.stamp = wtxn.stamp /\ wtxn'.pglast = Fetched.pglast
         /\ wtxn'.freed = wtxn.freed \cup old /\ wtxn'.pghead = Fetched.pghead \ {NewPage}
         /\ wtxn'.meta.id = wtxn.meta.id /\ wtxn'.meta.done = wtxn.meta.done
         /\ wtxn'.meta.free = wtxn.meta.free
         /\ wtxn'.meta.last = IF Fetched.pghead # {} THEN wtxn.meta.last ELSE NewPage
         /\ \A p \in Pages : wtxn'.meta.tree[p] = IF p = NewPage THEN wtxn.stamp
                                                  ELSE IF p \in old THEN 0 ELSE wtxn.meta.tree[p]
<1> DEFINE F == Fetched
           a == mdb_page_alloc
           tree == [p \in Pages |-> IF p = NewPage THEN wtxn.stamp
                                    ELSE IF p \in old THEN 0 ELSE wtxn.meta.tree[p]]
<1>1. /\ F \in Writer /\ F.pc = "open" /\ F.nosync = wtxn.nosync /\ F.stamp = wtxn.stamp
      /\ F.meta = wtxn.meta /\ F.freed = wtxn.freed
  BY FetchedKeeps
<1>2. F.meta \in Meta /\ F.stamp \in Stamps /\ F.freed \in SUBSET Pages /\ F.pghead \in SUBSET Pages
  BY <1>1 DEF Writer
<1>3. NewPage \in 1 .. LastPage BY FileAssumption DEF Pages
<1>4. /\ a \in Writer /\ a.pc = "open" /\ a.nosync = wtxn.nosync /\ a.stamp = wtxn.stamp
      /\ a.pglast = F.pglast /\ a.freed = wtxn.freed /\ a.pghead = F.pghead \ {NewPage}
      /\ a.meta.id = wtxn.meta.id /\ a.meta.done = wtxn.meta.done /\ a.meta.free = wtxn.meta.free
      /\ a.meta.tree = wtxn.meta.tree
      /\ a.meta.last = IF F.pghead # {} THEN wtxn.meta.last ELSE NewPage
  <2>1. CASE F.pghead # {}
    <3>1. a = [F EXCEPT !.pghead = F.pghead \ {NewPage}] BY <2>1 DEF mdb_page_alloc
    <3> HIDE DEF F, a
    <3> QED BY <1>1, <1>2, <2>1, <3>1 DEF Writer
  <2>2. CASE F.pghead = {}
    <3>1. a = [F EXCEPT !.meta.last = NewPage] BY <2>2 DEF mdb_page_alloc
    <3> DEFINE m == [F.meta EXCEPT !.last = NewPage]
    <3>2. a = [F EXCEPT !.meta = m] BY <1>1, <1>2, <3>1 DEF Writer
    <3> HIDE DEF F, a
    <3>3. /\ m \in Meta /\ m.id = wtxn.meta.id /\ m.done = wtxn.meta.done
          /\ m.free = wtxn.meta.free /\ m.tree = wtxn.meta.tree /\ m.last = NewPage
      BY <1>1, <1>2, <1>3 DEF Meta
    <3> HIDE DEF m
    <3> QED BY <1>1, <1>2, <2>2, <3>2, <3>3 DEF Writer
  <2> QED BY <2>1, <2>2
<1>5. wtxn' = [a EXCEPT !.freed = @ \cup old,
                        !.meta.tree = [p \in Pages |-> IF p = NewPage THEN wtxn.stamp
                                                       ELSE IF p \in old THEN 0 ELSE @[p]]]
  BY DEF WritePage
<1>6. a.meta \in Meta /\ a.freed \in SUBSET Pages BY <1>4 DEF Writer
<1>7. tree \in [Pages -> Stamps]
  <2>1. wtxn.meta.tree \in [Pages -> Stamps] BY <1>4, <1>6, MetaFields
  <2>2. 0 \in Stamps /\ wtxn.stamp \in Stamps BY <1>1, <1>2, FileAssumption DEF Stamps
  <2> QED BY <2>1, <2>2
<1> HIDE DEF F, a
<1> DEFINE m == [a.meta EXCEPT !.tree = tree]
           b == [a EXCEPT !.freed = wtxn.freed \cup old]
<1>8. wtxn' = [b EXCEPT !.meta = m]
  <2>1. wtxn' = [[a EXCEPT !.freed = a.freed \cup old] EXCEPT !.meta.tree =
                   [p \in Pages |-> IF p = NewPage THEN wtxn.stamp
                                    ELSE IF p \in old THEN 0 ELSE a.meta.tree[p]]]
    BY <1>4, <1>5 DEF Writer
  <2>2. a.freed = wtxn.freed /\ a.meta.tree = wtxn.meta.tree BY <1>4
  <2>3. [p \in Pages |-> IF p = NewPage THEN wtxn.stamp
                         ELSE IF p \in old THEN 0 ELSE a.meta.tree[p]] = tree
    BY <2>2
  <2>4. wtxn' = [b EXCEPT !.meta.tree = tree] BY <2>1, <2>2, <2>3
  <2>5. b.meta = a.meta BY <1>4 DEF Writer
  <2> QED BY <2>4, <2>5
<1>9. /\ m \in Meta /\ m.id = wtxn.meta.id /\ m.done = wtxn.meta.done /\ m.free = wtxn.meta.free
      /\ m.last = (IF F.pghead # {} THEN wtxn.meta.last ELSE NewPage) /\ m.tree = tree
  <2> HIDE DEF tree
  <2>1. m \in Meta /\ m.tree = tree /\ m.id = a.meta.id /\ m.done = a.meta.done /\ m.free = a.meta.free
        /\ m.last = a.meta.last
    BY <1>6, <1>7 DEF Meta
  <2> HIDE DEF m
  <2> QED BY <1>4, <2>1
<1>10. /\ b \in Writer /\ b.pc = "open" /\ b.nosync = wtxn.nosync /\ b.stamp = wtxn.stamp
       /\ b.pglast = F.pglast /\ b.freed = wtxn.freed \cup old /\ b.pghead = F.pghead \ {NewPage}
  BY <1>4, <1>6 DEF Writer
<1> HIDE DEF m, b
<1>11. /\ wtxn' \in Writer /\ wtxn'.pc = "open" /\ wtxn'.nosync = wtxn.nosync
       /\ wtxn'.stamp = wtxn.stamp /\ wtxn'.pglast = F.pglast
       /\ wtxn'.freed = wtxn.freed \cup old /\ wtxn'.pghead = F.pghead \ {NewPage}
       /\ wtxn'.meta = m
  BY <1>8, <1>9, <1>10 DEF Writer
<1>12. \A p \in Pages : wtxn'.meta.tree[p] = IF p = NewPage THEN wtxn.stamp
                                             ELSE IF p \in old THEN 0 ELSE wtxn.meta.tree[p]
  BY <1>9, <1>11
<1> QED BY <1>9, <1>11, <1>12 DEF F

\* The new page is in the part of the free list that no held meta reaches, or beyond
\* the last page.
LEMMA NewPageIs ==
  ASSUME IInv, wtxn.pc = "open", NewPage <= LastPage
  PROVE  /\ NewPage \in Pages
         /\ Fetched.pghead # {} =>
              NewPage \in Saved(wtxn).free[Fetched.pglast] /\ NewPage <= wtxn.meta.last
         /\ Fetched.pghead = {} => NewPage = wtxn.meta.last + 1
         /\ wtxn.meta.tree[NewPage] = 0
<1>1. /\ Fetched \in Writer /\ Fetched.meta = wtxn.meta /\ FreeList(Fetched) = FreeList(wtxn)
      /\ Fetched.pglast <= mti
  BY FetchedKeeps
<1>2. wtxn.meta.id = mti + 1 /\ Saved(wtxn) \in Accounted BY DEF IInv, TxnInv
<1>3. wtxn.meta \in Meta /\ wtxn \in Writer /\ mti \in Nat
  BY FileAssumption DEF IInv, TypeOK, Writer, Ids
<1>4. /\ Saved(wtxn).tree = wtxn.meta.tree /\ Saved(wtxn).last = wtxn.meta.last
      /\ Saved(wtxn).free = FreeList(wtxn)
  BY <1>3 DEF Saved, Meta
<1>5. wtxn.meta.last \in 1 .. LastPage BY <1>3, MetaFields
<1>6. CASE Fetched.pghead # {}
  <2>1. Fetched.pghead \in SUBSET Pages /\ Fetched.pglast \in Ids BY <1>1 DEF Writer
  <2>2. Fetched.pghead \in SUBSET Nat /\ Fetched.pglast \in Nat
    BY <2>1, FileAssumption, LocationFacts DEF Ids
  <2>3. NewPage \in Fetched.pghead BY <1>6, <2>2, MinIs DEF NewPage
  <2>4. FreeList(Fetched)[Fetched.pglast] = Fetched.pghead
    <3>1. Fetched.meta.id = mti + 1 /\ Fetched.pglast # mti + 1 /\ Fetched.pglast <= Fetched.pglast
      BY <1>1, <1>2, <1>3, <2>2
    <3> QED BY <2>1, <3>1 DEF FreeList
  <2>5. NewPage \in Saved(wtxn).free[Fetched.pglast] BY <1>1, <1>4, <2>3, <2>4
  <2>6. NewPage <= wtxn.meta.last /\ wtxn.meta.tree[NewPage] = 0
    BY <1>2, <1>4, <2>1, <2>3, <2>5 DEF Accounted
  <2> QED BY <1>6, <2>1, <2>3, <2>5, <2>6
<1>7. CASE Fetched.pghead = {}
  <2>1. NewPage = wtxn.meta.last + 1 BY <1>7 DEF NewPage
  <2>2. NewPage \in Pages BY <1>5, <2>1, FileAssumption DEF Pages
  <2>3. ~(NewPage <= wtxn.meta.last) BY <1>5, <2>1
  <2>4. wtxn.meta.tree[NewPage] = 0 BY <1>2, <1>4, <2>2, <2>3 DEF Accounted
  <2> QED BY <1>7, <2>1, <2>2, <2>4
<1> QED BY <1>6, <1>7

\* The pages in old move from the tree to the free list, NewPage the other way.
LEMMA WrittenFree ==
  ASSUME IInv, wtxn.pc = "open", NEW old \in SUBSET Pages, WritePage(old)
  PROVE  /\ Saved(wtxn') \in Meta /\ Saved(wtxn').tree = wtxn'.meta.tree
         /\ Saved(wtxn').last = wtxn'.meta.last /\ Saved(wtxn').id = mti + 1
         /\ \A p \in Pages, k \in Ids :
              p \in Saved(wtxn').free[k] <=>
                (p \in Saved(wtxn).free[k] /\ p # NewPage) \/ (p \in old /\ k = mti + 1)
<1> DEFINE N == NewPage
           F == Fetched
<1>1. NewPage <= LastPage BY DEF WritePage
<1>2. /\ N \in Pages /\ wtxn.meta.tree[N] = 0
      /\ F.pghead # {} => N \in Saved(wtxn).free[F.pglast] /\ N <= wtxn.meta.last
      /\ F.pghead = {} => N = wtxn.meta.last + 1
  BY <1>1, NewPageIs
<1>3. /\ wtxn' \in Writer /\ wtxn'.pglast = F.pglast /\ wtxn'.freed = wtxn.freed \cup old
      /\ wtxn'.pghead = F.pghead \ {N} /\ wtxn'.meta.id = wtxn.meta.id
      /\ wtxn'.meta.free = wtxn.meta.free
  BY <1>2, Written
<1>4. /\ F \in Writer /\ F.meta = wtxn.meta /\ F.freed = wtxn.freed
      /\ FreeList(F) = FreeList(wtxn) /\ F.pglast <= mti
  BY FetchedKeeps
<1>5. wtxn.meta.id = mti + 1 /\ Saved(wtxn) \in Accounted BY DEF IInv, TxnInv
<1>6. wtxn.meta \in Meta /\ wtxn \in Writer /\ mti \in Nat /\ F.pglast \in Ids /\ mti + 1 \in Ids
  <2>1. mti \in Nat /\ wtxn \in Writer BY FileAssumption DEF IInv, TypeOK, Writer, Ids
  <2>2. wtxn.meta \in Meta /\ F.pglast \in Ids BY <1>4, <2>1 DEF Writer
  <2>3. mti + 1 \in Ids BY <1>5, <2>2, MetaFields
  <2> QED BY <2>1, <2>2, <2>3
<1>7. Ids \subseteq Nat BY FileAssumption DEF Ids
<1>8. Saved(wtxn).last = wtxn.meta.last /\ Saved(wtxn).free = FreeList(wtxn)
  BY <1>6 DEF Saved, Meta
<1> HIDE DEF N, F
<1>9. ASSUME NEW j \in Ids, N \in Saved(wtxn).free[j] PROVE F.pghead # {} /\ j = F.pglast
  <2>1. N <= wtxn.meta.last BY <1>2, <1>5, <1>8, <1>9 DEF Accounted
  <2>2. wtxn.meta.last \in Nat BY <1>6, MetaFields
  <2>3. F.pghead # {} BY <1>2, <2>1, <2>2
  <2> QED BY <1>2, <1>5, <1>6, <1>9, <2>3 DEF Accounted
<1>10. wtxn'.meta \in Meta BY <1>3 DEF Writer
<1>11. FreeList(wtxn') \in [Ids -> SUBSET Pages]
  <2>1. wtxn'.freed \in SUBSET Pages /\ wtxn'.pghead \in SUBSET Pages BY <1>3 DEF Writer
  <2>2. wtxn'.meta.free \in [Ids -> SUBSET Pages] BY <1>10, MetaFields
  <2> QED BY <2>1, <2>2 DEF FreeList
<1>12. /\ Saved(wtxn') \in Meta /\ Saved(wtxn').tree = wtxn'.meta.tree
       /\ Saved(wtxn').last = wtxn'.meta.last /\ Saved(wtxn').id = mti + 1
       /\ Saved(wtxn').free = FreeList(wtxn')
  <2>1. wtxn'.meta.id = mti + 1 BY <1>3, <1>5
  <2> QED BY <1>10, <1>11, <2>1 DEF Saved, Meta
<1>13. ASSUME NEW k \in Ids
       PROVE  FreeList(wtxn')[k] = (FreeList(wtxn)[k] \ {N}) \cup (IF k = mti + 1 THEN old ELSE {})
  <2>1. k \in Nat /\ F.pglast \in Nat BY <1>6, <1>7
  <2>2. FreeList(wtxn')[k] = IF k = mti + 1 THEN wtxn.freed \cup old
                             ELSE IF k <= F.pglast THEN (IF k = F.pglast THEN F.pghead \ {N} ELSE {})
                             ELSE wtxn.meta.free[k]
    BY <1>3, <1>5 DEF FreeList
  <2>3. FreeList(wtxn)[k] = IF k = mti + 1 THEN wtxn.freed
                            ELSE IF k <= F.pglast THEN (IF k = F.pglast THEN F.pghead ELSE {})
                            ELSE wtxn.meta.free[k]
    <3>1. FreeList(F)[k] = IF k = mti + 1 THEN wtxn.freed
                           ELSE IF k <= F.pglast THEN (IF k = F.pglast THEN F.pghead ELSE {})
                           ELSE wtxn.meta.free[k]
      BY <1>4, <1>5 DEF FreeList
    <3> QED BY <1>4, <3>1
  <2>4. k # F.pglast => N \notin FreeList(wtxn)[k] BY <1>8, <1>9
  <2>5. CASE k = mti + 1
    <3>1. k # F.pglast BY <1>4, <1>6, <2>1, <2>5
    <3> QED BY <2>2, <2>3, <2>4, <2>5, <3>1
  <2>6. CASE k # mti + 1 /\ k = F.pglast
    <3>1. k <= F.pglast BY <2>1, <2>6
    <3> QED BY <2>2, <2>3, <2>6, <3>1
  <2>7. CASE k # mti + 1 /\ k # F.pglast BY <2>2, <2>3, <2>4, <2>7
  <2> QED BY <2>5, <2>6, <2>7
<1>14. ASSUME NEW p \in Pages, NEW k \in Ids
       PROVE  p \in Saved(wtxn').free[k] <=>
                (p \in Saved(wtxn).free[k] /\ p # N) \/ (p \in old /\ k = mti + 1)
  BY <1>8, <1>12, <1>13
<1> QED BY <1>12, <1>14 DEF N

\* A page that is written is in no held meta.
LEMMA WriteKeeps ==
  ASSUME IInv, NEW old \in SUBSET Pages, \A p \in old : wtxn.meta.tree[p] # 0, WritePage(old)
  PROVE  IInv'
<1> DEFINE N == NewPage
           S == Saved(wtxn)
           T == Saved(wtxn')
<1>1. UNCHANGED fileVars /\ UNCHANGED stamp /\ wtxn.pc = "open" /\ N <= LastPage
  BY DEF WritePage, fileVars
<1>2. /\ env = "open" /\ stamp > 0 /\ wtxn.stamp = stamp /\ wtxn.nosync = Overlapping
      /\ wtxn.meta.id = mti + 1 /\ wtxn.meta.done = Base.done \cup {stamp}
      /\ Base.last <= wtxn.meta.last /\ wtxn.pglast <= mti
      /\ \A p \in Pages : wtxn.meta.tree[p] \in {0, Base.tree[p], stamp}
      /\ S \in Accounted /\ S \in Keyed /\ wtxn.meta.free = Base.free
  BY <1>1 DEF IInv, TxnInv
<1>3. /\ wtxn' \in Writer /\ wtxn'.pc = "open" /\ wtxn'.nosync = wtxn.nosync
      /\ wtxn'.stamp = wtxn.stamp /\ wtxn'.pglast = Fetched.pglast
      /\ wtxn'.meta.id = wtxn.meta.id /\ wtxn'.meta.done = wtxn.meta.done
      /\ wtxn'.meta.free = wtxn.meta.free
      /\ wtxn'.meta.last = IF Fetched.pghead # {} THEN wtxn.meta.last ELSE N
      /\ \A p \in Pages : wtxn'.meta.tree[p] = IF p = N THEN wtxn.stamp
                                               ELSE IF p \in old THEN 0 ELSE wtxn.meta.tree[p]
  BY <1>1, NewPageIs, Written
<1>4. /\ N \in Pages /\ wtxn.meta.tree[N] = 0
      /\ Fetched.pghead # {} => N \in S.free[Fetched.pglast] /\ N <= wtxn.meta.last
      /\ Fetched.pghead = {} => N = wtxn.meta.last + 1
  BY <1>1, NewPageIs
<1>5. /\ T \in Meta /\ T.tree = wtxn'.meta.tree /\ T.last = wtxn'.meta.last /\ T.id = mti + 1
      /\ \A p \in Pages, k \in Ids :
           p \in T.free[k] <=> (p \in S.free[k] /\ p # N) \/ (p \in old /\ k = mti + 1)
  BY <1>1, WrittenFree
<1>6. Fetched.pglast <= mti /\ Fetched.pglast \in Ids /\ \A m \in Kept : Fetched.pglast <= m.id
  BY <1>1, FetchedKeeps DEF Writer
<1>7. wtxn.meta \in Meta /\ wtxn'.meta \in Meta /\ mti \in Nat /\ mti + 1 \in Ids /\ stamp \in Nat
  <2>1. wtxn \in Writer /\ mti \in Nat /\ stamp \in Nat
    BY FileAssumption DEF IInv, TypeOK, Writer, Ids, Stamps
  <2>2. wtxn.meta \in Meta /\ wtxn'.meta \in Meta BY <1>3, <2>1 DEF Writer
  <2> QED BY <1>2, <2>1, <2>2, MetaFields
<1>8. S.tree = wtxn.meta.tree /\ S.last = wtxn.meta.last /\ S.id = mti + 1 /\ S \in Meta
  <2>1. S.tree = wtxn.meta.tree /\ S.last = wtxn.meta.last /\ S.id = wtxn.meta.id
    BY <1>7 DEF Saved, Meta
  <2> QED BY <1>2, <2>1 DEF Accounted
<1>9. Ids \subseteq Nat /\ Pages \subseteq Nat BY FileAssumption, LocationFacts DEF Ids
<1>10. T.last \in Nat /\ S.last \in Nat /\ S.last <= T.last /\ N <= T.last /\ N \in Nat
  <2>1. T.last \in Nat /\ S.last \in Nat /\ N \in Nat BY <1>4, <1>5, <1>8, <1>9, MetaFields
  <2>2. T.last = IF Fetched.pghead # {} THEN S.last ELSE N BY <1>3, <1>5, <1>8
  <2> QED BY <1>4, <1>8, <2>1, <2>2
<1> HIDE DEF N, S, T
<1>11. \A p \in Pages : p <= T.last => p <= S.last \/ p = N
  <2>1. T.last = IF Fetched.pghead # {} THEN S.last ELSE N BY <1>3, <1>5, <1>8
  <2>2. Fetched.pghead = {} => N = S.last + 1 BY <1>4, <1>8
  <2> QED BY <1>9, <1>10, <2>1, <2>2
<1>12. \A p \in Pages : T.tree[p] = IF p = N THEN stamp ELSE IF p \in old THEN 0 ELSE S.tree[p]
  BY <1>2, <1>3, <1>5, <1>8
<1>13. S.tree[N] = 0 /\ N \notin old /\ \A p \in old : S.tree[p] # 0 BY <1>4, <1>8
<1>14. /\ \A p \in Pages : S.tree[p] # 0 => p <= S.last
       /\ \A p \in Pages, j \in Ids : p \in S.free[j] => p <= S.last /\ S.tree[p] = 0
       /\ \A p \in Pages, j, k \in Ids : p \in S.free[j] /\ p \in S.free[k] => j = k
       /\ \A p \in Pages : p <= S.last /\ S.tree[p] = 0 => \E j \in Ids : p \in S.free[j]
  BY <1>2 DEF Accounted
<1>15. T \in Accounted
  <2>1. ASSUME NEW p \in Pages, T.tree[p] # 0 PROVE p <= T.last
    <3>1. p = N \/ p <= S.last BY <1>12, <1>14, <2>1
    <3> QED BY <1>9, <1>10, <3>1
  <2>2. ASSUME NEW p \in Pages, NEW j \in Ids, p \in T.free[j] PROVE p <= T.last /\ T.tree[p] = 0
    <3>1. (p \in S.free[j] /\ p # N) \/ p \in old BY <1>5, <2>2
    <3>2. p <= S.last /\ T.tree[p] = 0 BY <1>12, <1>13, <1>14, <3>1
    <3> QED BY <1>9, <1>10, <3>2
  <2>3. ASSUME NEW p \in Pages, NEW j \in Ids, NEW k \in Ids, p \in T.free[j], p \in T.free[k]
        PROVE  j = k
    <3>1. p \in old => p \notin S.free[j] /\ p \notin S.free[k] BY <1>13, <1>14
    <3> QED BY <1>5, <1>14, <2>3, <3>1
  <2>4. ASSUME NEW p \in Pages, p <= T.last, T.tree[p] = 0 PROVE \E j \in Ids : p \in T.free[j]
    <3>1. p # N BY <1>2, <1>7, <1>12, <2>4
    <3>2. CASE p \in old
      <4>1. p \in T.free[mti + 1] BY <1>5, <1>7, <3>2
      <4> QED BY <1>7, <4>1
    <3>3. CASE p \notin old
      <4>1. p <= S.last /\ S.tree[p] = 0 BY <1>11, <1>12, <2>4, <3>1, <3>3
      <4>2. PICK j \in Ids : p \in S.free[j] BY <1>14, <4>1
      <4>3. p \in T.free[j] BY <1>5, <3>1, <4>2
      <4> QED BY <4>3
    <3> QED BY <3>2, <3>3
  <2> QED BY <1>5, <2>1, <2>2, <2>3, <2>4 DEF Accounted
<1>16. T \in Keyed
  <2> SUFFICES ASSUME NEW j \in Ids, j = 0 \/ j > mti + 1 PROVE T.free[j] = {}
    BY <1>5 DEF Keyed
  <2>1. j # mti + 1 BY <1>7, <1>9
  <2>2. S.free[j] = {} BY <1>2, <1>8 DEF Keyed
  <2>3. T.free[j] \subseteq Pages BY <1>5, MetaFields
  <2> QED BY <1>5, <2>1, <2>2, <2>3
<1>17. TypeOK'
  <2>1. pgoldest' \in Ids
    <3>1. pgoldest' \in {Oldest, pgoldest} BY DEF WritePage
    <3> QED BY <1>1, <1>2, <3>1, OldestKept DEF IInv, TypeOK
  <2> QED BY <1>1, <1>3, <2>1 DEF IInv, TypeOK, Writer, fileVars
<1>18. TxnInv'
  <2>1. Base' = Base /\ env' = env /\ mti' = mti BY <1>1 DEF Base, fileVars
  <2>2. T = Saved(wtxn)' BY DEF T, Saved, FreeList
  <2>3. Base.last <= wtxn'.meta.last
    <3>1. Base.last \in Nat BY <1>2, NewestIsBase, MetaFields
    <3> QED BY <1>2, <1>5, <1>8, <1>10, <3>1
  <2>4. \A p \in Pages : wtxn'.meta.tree[p] \in {0, Base.tree[p], stamp} BY <1>2, <1>3
  <2> QED BY <1>1, <1>2, <1>3, <1>6, <1>15, <1>16, <2>1, <2>2, <2>3, <2>4 DEF TxnInv
<1>19. Kept \subseteq Held'
  <2> SUFFICES ASSUME NEW m \in Kept PROVE m \in Held' OBVIOUS
  <2>1. Base' = Base /\ cache' = cache /\ mti' = mti BY <1>1 DEF Base, fileVars
  <2>2. m \in Held BY <1>2, KeptHeld
  <2>3. /\ m \in Meta /\ m.id <= mti /\ pgoldest <= m.id /\ Intact(m, cache) /\ Keeps(m, Base)
        /\ Keeps(m, S) /\ \A p \in Pages : m.tree[p] # 0 => wtxn.meta.tree[p] # stamp
    BY <1>1, <1>2, <2>2 DEF Held, S
  <2>4. m.id \in Nat BY <2>3, MetaFields
  <2>5. pgoldest' <= m.id
    <3>1. pgoldest' \in {Oldest, pgoldest} BY DEF WritePage
    <3> QED BY <1>1, <1>2, <2>3, <3>1, OldestKept
  <2>6. Keeps(m, T)
    <3> SUFFICES ASSUME NEW p \in Pages, m.tree[p] # 0
                 PROVE  p <= T.last /\ \A j \in Ids : j <= m.id => p \notin T.free[j]
      BY DEF Keeps
    <3>1. p <= S.last /\ \A j \in Ids : j <= m.id => p \notin S.free[j] BY <2>3 DEF Keeps
    <3>2. p <= T.last BY <1>9, <1>10, <3>1
    <3>3. ASSUME NEW j \in Ids, j <= m.id PROVE p \notin T.free[j]
      <4>1. j # mti + 1 BY <1>7, <1>9, <2>3, <2>4, <3>3
      <4> QED BY <1>5, <3>1, <3>3, <4>1
    <3> QED BY <3>2, <3>3
  <2>7. ASSUME NEW p \in Pages, m.tree[p] # 0 PROVE wtxn'.meta.tree[p] # stamp
    <3>1. p # N
      <4>1. CASE Fetched.pghead # {}
        <5>1. p \notin S.free[Fetched.pglast] BY <1>6, <2>3, <2>7 DEF Keeps
        <5> QED BY <1>4, <4>1, <5>1
      <4>2. CASE Fetched.pghead = {}
        <5>1. p <= S.last BY <2>3, <2>7 DEF Keeps
        <5>2. N = S.last + 1 BY <1>4, <1>8, <4>2
        <5> QED BY <1>9, <1>10, <5>1, <5>2
      <4> QED BY <4>1, <4>2
    <3>2. wtxn.meta.tree[p] # stamp BY <2>3, <2>7
    <3>3. stamp # 0 BY <1>2, <1>7
    <3> QED BY <1>3, <3>1, <3>2, <3>3
  <2>8. Intact(m, cache)' /\ Keeps(m, Base)' BY <2>1, <2>3 DEF Intact, Keeps
  <2>9. Keeps(m, Saved(wtxn))' BY <2>6 DEF Keeps, T, Saved, FreeList
  <2> QED BY <1>2, <1>3, <1>6, <2>1, <2>3, <2>5, <2>7, <2>8, <2>9 DEF Held
<1>20. Past \subseteq Past' BY <1>1, <1>3 DEF Past
<1> QED BY <1>1, <1>2, <1>17, <1>18, <1>19, <1>20, TxnStepKeeps

\* A page is copied, or a new one is written.
LEMMA PageStepKeeps == ASSUME IInv, mdb_page_touch \/ mdb_page_new PROVE IInv'
<1>1. CASE mdb_page_touch
  <2>1. PICK p \in Pages : wtxn.meta.tree[p] \notin {0, wtxn.stamp} /\ WritePage({p})
    BY <1>1 DEF mdb_page_touch
  <2>2. {p} \in SUBSET Pages /\ \A q \in {p} : wtxn.meta.tree[q] # 0 BY <2>1
  <2> QED BY <2>1, <2>2, WriteKeeps
<1>2. CASE mdb_page_new
  <2>1. {} \in SUBSET Pages /\ \A q \in {} : wtxn.meta.tree[q] # 0 OBVIOUS
  <2> QED BY <1>2, <2>1, WriteKeeps DEF mdb_page_new
<1> QED BY <1>1, <1>2

-----------------------------------------------------------------------------
(* The commit: the pages, then the meta page. *)

\* While a transaction is open, what an opener would go on with is held.
LEMMA ChosenHeld == ASSUME IInv, env = "open" PROVE Chosen \in Held
<1>1. Overlapping \in BOOLEAN BY FileAssumption
<1>2. CASE Overlapping BY <1>2 DEF IInv, OpenInv, Chosen
<1>3. CASE ~Overlapping BY <1>3 DEF IInv, OpenInv, Chosen
<1> QED BY <1>1, <1>2, <1>3

\* The pages written to the file are in no held meta.
LEMMA PageFlushKeeps == ASSUME IInv, mdb_page_flush PROVE IInv'
<1> DEFINE pend == IF wtxn.nosync THEN {} ELSE mdb_env_sync0(cache', disk)
           meta == [wtxn.meta EXCEPT !.free = FreeList(wtxn), !.unsynced = wtxn.nosync /\ Overlapping]
<1>1. /\ wtxn.pc = "open" /\ TxnPages # {}
      /\ cache' = [l \in Locations |-> IF l \in TxnPages THEN wtxn.stamp ELSE cache[l]]
      /\ UNCHANGED <<disk, env, mti, synced, pgoldest, syncer, reader, stamp, crashes, acked>>
  BY DEF mdb_page_flush
<1>2. wtxn' = [wtxn EXCEPT !.pc = "flushed", !.meta.free = FreeList(wtxn),
                           !.meta.unsynced = wtxn.nosync /\ Overlapping, !.pend = pend]
  BY DEF mdb_page_flush, mdb_freelist_save, FreeList
<1>3. wtxn \in Writer /\ wtxn.meta \in Meta BY DEF IInv, TypeOK, Writer
<1>4. /\ env = "open" /\ stamp > 0 /\ wtxn.stamp = stamp /\ wtxn.nosync = Overlapping
      /\ wtxn.meta.id = mti + 1 /\ wtxn.meta.done = Base.done \cup {stamp}
      /\ Base.last <= wtxn.meta.last /\ wtxn.pglast <= mti
      /\ \A p \in Pages : wtxn.meta.tree[p] \in {0, Base.tree[p], stamp}
      /\ Saved(wtxn) \in Accounted /\ Saved(wtxn) \in Keyed
  BY <1>1 DEF IInv, TxnInv
<1>5. pend \in SUBSET Locations BY DEF mdb_env_sync0
<1>6. FreeList(wtxn) \in [Ids -> SUBSET Pages]
  <2>1. wtxn.freed \in SUBSET Pages /\ wtxn.pghead \in SUBSET Pages BY <1>3 DEF Writer
  <2>2. wtxn.meta.free \in [Ids -> SUBSET Pages] BY <1>3, MetaFields
  <2> QED BY <2>1, <2>2 DEF FreeList
<1>7. /\ meta \in Meta /\ meta.id = wtxn.meta.id /\ meta.done = wtxn.meta.done
      /\ meta.tree = wtxn.meta.tree /\ meta.last = wtxn.meta.last /\ meta.free = FreeList(wtxn)
      /\ meta.unsynced = Overlapping
  <2>1. (wtxn.nosync /\ Overlapping) = Overlapping /\ Overlapping \in BOOLEAN BY <1>4, FileAssumption
  <2>2. meta = [wtxn.meta EXCEPT !.free = FreeList(wtxn), !.unsynced = Overlapping] BY <2>1
  <2> QED BY <1>3, <1>6, <2>1, <2>2 DEF Meta
<1>8. wtxn' = [wtxn EXCEPT !.pc = "flushed", !.meta = meta, !.pend = pend]
  <2> HIDE DEF pend
  <2> QED BY <1>2, <1>3 DEF Writer
<1> HIDE DEF pend, meta
<1>9. /\ wtxn' \in Writer /\ wtxn'.pc = "flushed" /\ wtxn'.nosync = wtxn.nosync
      /\ wtxn'.stamp = wtxn.stamp /\ wtxn'.meta = meta /\ wtxn'.freed = wtxn.freed
      /\ wtxn'.pghead = wtxn.pghead /\ wtxn'.pglast = wtxn.pglast /\ wtxn'.pend = pend
  BY <1>3, <1>5, <1>7, <1>8 DEF Writer
<1>10. FreeList(wtxn') = FreeList(wtxn)
  <2>1. ASSUME NEW k \in Ids PROVE FreeList(wtxn')[k] = FreeList(wtxn)[k]
    BY <1>7, <1>9 DEF FreeList
  <2>2. /\ FreeList(wtxn') = [k \in Ids |-> FreeList(wtxn')[k]]
        /\ FreeList(wtxn) = [k \in Ids |-> FreeList(wtxn)[k]]
    BY DEF FreeList
  <2> QED BY <2>1, <2>2
<1>11. Saved(wtxn').free = Saved(wtxn).free /\ Saved(wtxn').last = Saved(wtxn).last
  BY <1>3, <1>7, <1>9, <1>10 DEF Saved, Meta
<1>12. Saved(wtxn') \in Accounted /\ Saved(wtxn') \in Keyed
  <2>1. /\ Saved(wtxn).tree = wtxn.meta.tree /\ Saved(wtxn).last = wtxn.meta.last
        /\ Saved(wtxn).free = FreeList(wtxn) /\ Saved(wtxn).id = wtxn.meta.id
    BY <1>3 DEF Saved, Meta
  <2>2. /\ Saved(wtxn') \in Meta
        /\ Saved(wtxn').tree = wtxn.meta.tree /\ Saved(wtxn').last = wtxn.meta.last
        /\ Saved(wtxn').free = FreeList(wtxn) /\ Saved(wtxn').id = wtxn.meta.id
    BY <1>6, <1>7, <1>9, <1>10 DEF Saved, Meta
  <2> QED BY <1>4, <2>1, <2>2 DEF Accounted, Keyed
<1>13. TxnPages \subseteq Pages /\ \A l \in MetaLocations : cache'[l] = cache[l]
  <2>1. TxnPages \subseteq Pages BY DEF TxnPages
  <2> QED BY <1>1, <2>1, LocationFacts
<1>14. Quiet BY <1>1, <1>13 DEF Quiet, QuietVars
<1>15. Base' = Base BY <1>14, QuietMetas
<1>16. \A m \in Held : Intact(m, cache')
  <2> SUFFICES ASSUME NEW m \in Held, NEW p \in Pages, m.tree[p] # 0 PROVE cache'[p] = m.tree[p]
    BY DEF Intact
  <2>1. cache[p] = m.tree[p] /\ p \notin TxnPages BY <1>1, <1>4 DEF Held, Intact, TxnPages
  <2> QED BY <1>1, <2>1, LocationFacts
<1>17. Held \subseteq Held'
  <2> SUFFICES ASSUME NEW m \in Held PROVE m \in Held' OBVIOUS
  <2>1. /\ m \in Meta /\ m.id <= mti /\ pgoldest <= m.id /\ Keeps(m, Base)
        /\ wtxn.pglast <= m.id /\ Keeps(m, Saved(wtxn))
        /\ \A p \in Pages : m.tree[p] # 0 => wtxn.meta.tree[p] # wtxn.stamp
    BY <1>1 DEF Held
  <2>2. Intact(m, cache)' BY <1>16 DEF Intact
  <2>3. Keeps(m, Base)' BY <1>15, <2>1 DEF Keeps
  <2>4. Keeps(m, Saved(wtxn')) BY <1>11, <2>1 DEF Keeps
  <2>5. Keeps(m, Saved(wtxn))' BY <2>4 DEF Keeps, Saved, FreeList
  <2> QED BY <1>1, <1>7, <1>9, <2>1, <2>2, <2>3, <2>5 DEF Held
<1>18. TypeOK'
  <2>1. DOMAIN cache' = Locations /\ disk' = disk BY <1>1
  <2>2. ASSUME NEW l \in Locations PROVE cache'[l] \in (IF l \in Pages THEN Stamps ELSE Meta)
    <3>1. cache[l] \in (IF l \in Pages THEN Stamps ELSE Meta) BY DEF IInv, TypeOK
    <3>2. wtxn.stamp \in Stamps BY <1>3 DEF Writer
    <3> QED BY <1>1, <1>13, <3>1, <3>2
  <2> QED BY <1>1, <1>9, <2>1, <2>2 DEF IInv, TypeOK, Writer
<1>19. Intact(wtxn'.meta, cache')
  <2> SUFFICES ASSUME NEW p \in Pages, meta.tree[p] # 0 PROVE cache'[p] = meta.tree[p]
    BY <1>9 DEF Intact
  <2>1. CASE p \in TxnPages BY <1>1, <1>7, <2>1, LocationFacts DEF TxnPages
  <2>2. CASE p \notin TxnPages
    <3>1. meta.tree[p] = Base.tree[p] BY <1>4, <1>7, <2>2 DEF TxnPages
    <3>2. cache[p] = Base.tree[p] BY <1>4, <3>1 DEF IInv, OpenInv, Held, Intact
    <3> QED BY <1>1, <2>2, <3>1, <3>2, LocationFacts
  <2> QED BY <2>1, <2>2
<1>20. TxnInv'
  <2>1. ASSUME ~Overlapping, NEW p \in Pages, wtxn'.meta.tree[p] # 0
        PROVE  disk[p] = wtxn'.meta.tree[p] \/ p \in wtxn'.pend
    <3>1. cache'[p] = wtxn'.meta.tree[p] BY <1>19, <2>1 DEF Intact
    <3>2. wtxn'.pend = {l \in Locations : cache'[l] # disk[l]}
      BY <1>4, <1>9, <2>1 DEF pend, mdb_env_sync0
    <3> QED BY <3>1, <3>2, LocationFacts
  <2>2. Saved(wtxn') = Saved(wtxn)' /\ FreeList(wtxn') = FreeList(wtxn)' BY DEF Saved, FreeList
  <2>3. Intact(wtxn.meta, cache)' BY <1>19 DEF Intact
  <2> QED BY <1>1, <1>4, <1>7, <1>9, <1>10, <1>12, <1>15, <2>1, <2>2, <2>3 DEF TxnInv
<1>21. Past \subseteq Past' BY <1>1, <1>9 DEF Past
<1>22. Intact(Chosen, cache') /\ Intact(Chosen, disk')
  BY <1>1, <1>4, <1>16, ChosenHeld DEF IInv, RecoveryInv
<1>23. Kept \subseteq Held' BY <1>4, <1>17, KeptHeld
<1>24. \A s \in Syncers : syncer[s].pc = "fsync" =>
         \A p \in Pages : syncer[s].meta.tree[p] # 0 =>
           disk'[p] = syncer[s].meta.tree[p] \/ p \in syncer'[s].pend
  BY <1>1 DEF IInv, FlushInv
<1> QED BY <1>4, <1>14, <1>18, <1>20, <1>21, <1>22, <1>23, <1>24, QuietKeeps

\* A committed transaction's meta, and what it becomes the base of.
LEMMA WriteMetaKeeps == ASSUME IInv, mdb_env_write_meta PROVE IInv'
<1> DEFINE W == wtxn.meta
           slot == Slot(W.id)
<1>1. /\ wtxn.pc = "flushed" /\ wtxn.pend = {} /\ mti' = W.id /\ wtxn' = NoTxn
      /\ cache' = [cache EXCEPT ![slot] = W]
      /\ disk' = IF wtxn.nosync THEN disk ELSE [disk EXCEPT ![slot] = W]
      /\ synced' = IF wtxn.nosync THEN synced ELSE W.id
      /\ acked' = IF wtxn.nosync THEN acked ELSE acked \cup {wtxn.stamp}
      /\ UNCHANGED <<env, pgoldest, syncer, reader, stamp, crashes>>
  BY DEF mdb_env_write_meta
<1>2. /\ env = "open" /\ stamp > 0 /\ wtxn.stamp = stamp /\ wtxn.nosync = Overlapping
      /\ W.id = mti + 1 /\ W.done = Base.done \cup {stamp}
      /\ Base.last <= W.last /\ wtxn.pglast <= mti
      /\ \A p \in Pages : W.tree[p] \in {0, Base.tree[p], stamp}
      /\ Saved(wtxn) \in Accounted /\ Saved(wtxn) \in Keyed
      /\ W.free = FreeList(wtxn) /\ W.unsynced = Overlapping /\ Intact(W, cache)
      /\ ~Overlapping => \A p \in Pages : W.tree[p] # 0 => disk[p] = W.tree[p]
  BY <1>1 DEF IInv, TxnInv
<1>3. /\ wtxn \in Writer /\ W \in Meta /\ mti \in Nat /\ stamp \in Nat /\ Overlapping \in BOOLEAN
      /\ stamp \in Stamps /\ acked \subseteq Stamps /\ synced \in Ids /\ W.id \in Ids
  <2>1. wtxn \in Writer BY DEF IInv, TypeOK, Writer
  <2>2. W \in Meta BY <2>1 DEF Writer
  <2>3. mti \in Nat /\ stamp \in Nat BY FileAssumption DEF IInv, TypeOK, Ids, Stamps
  <2> QED BY <2>1, <2>2, <2>3, MetaFields, FileAssumption DEF IInv, TypeOK
<1>4. Saved(wtxn) = W
  <2>1. Saved(wtxn) = [W EXCEPT !.free = W.free] BY <1>2 DEF Saved
  <2> QED BY <1>3, <2>1 DEF Meta
<1>5. W \in Accounted /\ W \in Keyed BY <1>2, <1>4
<1>6. Base \in Meta /\ Base.id = mti /\ Slot(mti) \in Metas /\ Base = cache[Slot(mti)]
  BY <1>2, NewestIsBase DEF Base
<1>7. slot \in Metas /\ slot # Slot(mti) BY <1>2, <1>3, SlotFacts
<1> HIDE DEF W, slot
<1>8. slot \in MetaLocations /\ FlushedMeta \in MetaLocations /\ slot # FlushedMeta
      /\ MetaLocations \subseteq Locations /\ Pages \subseteq Locations /\ Metas \subseteq MetaLocations
      /\ \A p \in Pages : p # slot
  BY <1>7, LocationFacts
<1>9. DOMAIN cache = Locations /\ DOMAIN disk = Locations BY DEF IInv, TypeOK
<1>10. /\ cache'[slot] = W /\ \A l \in Locations : l # slot => cache'[l] = cache[l]
       /\ DOMAIN cache' = Locations
  BY <1>1, <1>8, <1>9
<1>11. /\ disk'[slot] = (IF Overlapping THEN disk[slot] ELSE W)
       /\ \A l \in Locations : l # slot => disk'[l] = disk[l]
       /\ DOMAIN disk' = Locations
  BY <1>1, <1>2, <1>3, <1>8, <1>9
<1>12. Base' = W /\ LastFlushed' = LastFlushed
  BY <1>1, <1>8, <1>10 DEF Base, LastFlushed, slot
<1>13. \A f \in Files, s \in Metas : f[s].id <= mti /\ f[s] \in Meta /\ f[s].id \in Nat
  <2>1. \A f \in Files, s \in Metas : f[s] \in Meta BY <1>8, TypedFiles DEF IInv
  <2> QED BY <1>2, <2>1, MetaFields DEF IInv, OpenInv
<1>14. Metas = {0, 1} /\ mti + 1 > mti BY <1>3 DEF Metas
<1>15. \A f \in Files', l \in MetaLocations : (f[l] = W /\ l = slot) \/ \E g \in Files : f[l] = g[l]
  <2>1. \A l \in MetaLocations : (cache'[l] = W /\ l = slot) \/ cache'[l] = cache[l] BY <1>8, <1>10
  <2>2. \A l \in MetaLocations : (disk'[l] = W /\ l = slot) \/ disk'[l] = disk[l] BY <1>3, <1>8, <1>11
  <2> QED BY <2>1, <2>2 DEF Files
<1>16. Past = 0 .. stamp - 1 /\ Past' = 0 .. stamp
  BY <1>1, NoTxnFields DEF Past
<1>17. W \in PastMetas'
  <2>1. Base \in PastMetas /\ mti \in Past BY <1>6, <1>8 DEF IInv, StampInv, Files
  <2>2. W.id \in 0 .. stamp BY <1>2, <1>3, <1>16, <2>1
  <2>3. Base.done \subseteq 0 .. stamp - 1 BY <1>16, <2>1 DEF PastMetas
  <2>4. W.done \subseteq 0 .. stamp
    <3>1. 0 .. stamp - 1 \subseteq 0 .. stamp /\ stamp \in 0 .. stamp BY <1>3
    <3> QED BY <1>2, <2>3, <3>1
  <2>5. ASSUME NEW p \in Pages PROVE W.tree[p] \in 0 .. stamp
    <3>1. Base.tree[p] \in 0 .. stamp - 1 BY <1>16, <2>1 DEF PastMetas
    <3> QED BY <1>2, <1>3, <3>1
  <2> QED BY <1>3, <1>16, <2>2, <2>4, <2>5 DEF PastMetas
<1>18. StampInv'
  <2>1. Past \subseteq Past' BY <1>3, <1>16
  <2>2. PastMetas \subseteq PastMetas' BY <2>1 DEF PastMetas
  <2>3. mti' \in Past' BY <1>1, <1>17 DEF PastMetas, W
  <2>4. \A f \in Files', l \in MetaLocations : f[l] \in PastMetas'
    BY <1>15, <1>17, <2>2 DEF IInv, StampInv
  <2>5. \A s \in Syncers : syncer'[s].meta \in PastMetas' BY <1>1, <2>2 DEF IInv, StampInv
  <2> QED BY <2>3, <2>4, <2>5 DEF StampInv
<1>19. SlotInv'
  <2>1. \A f \in Files', s \in Metas : f[s].id > 0 => Slot(f[s].id) = s
    BY <1>8, <1>15 DEF IInv, SlotInv, slot
  <2>2. ASSUME NEW s \in Metas PROVE disk'[s].id <= cache'[s].id
    <3>1. CASE s # slot BY <1>8, <1>10, <1>11, <2>2, <3>1 DEF IInv, SlotInv
    <3>2. CASE s = slot /\ Overlapping
      <4>1. disk[slot].id <= mti /\ disk[slot].id \in Nat BY <1>7, <1>13 DEF Files
      <4>2. disk[slot].id <= mti + 1 BY <1>3, <4>1
      <4> QED BY <1>2, <1>10, <1>11, <3>2, <4>2 DEF W
    <3>3. CASE s = slot /\ ~Overlapping
      <4>1. W.id <= W.id BY <1>3, MetaFields
      <4> QED BY <1>10, <1>11, <3>3, <4>1
    <3> QED BY <1>3, <3>1, <3>2, <3>3
  <2> QED BY <2>1, <2>2 DEF SlotInv
<1>20. Latest(cache)' = W
  <2>1. W.id = mti + 1 BY <1>2 DEF W
  <2>2. \A s \in Metas : s # slot => cache'[s] \in Meta /\ cache'[s].id <= mti /\ cache'[s].id \in Nat
    BY <1>8, <1>10, <1>13 DEF Files
  <2>3. Latest(cache)' = IF cache'[0].id >= cache'[1].id THEN cache'[0] ELSE cache'[1]
    BY DEF Latest, Newer
  <2>4. CASE slot = 0
    <3>1. cache'[0] = W /\ cache'[1].id <= mti /\ cache'[1].id \in Nat BY <1>10, <1>14, <2>2, <2>4
    <3>2. W.id >= cache'[1].id BY <1>3, <2>1, <3>1
    <3> QED BY <2>3, <3>1, <3>2
  <2>5. CASE slot = 1
    <3>1. cache'[1] = W /\ cache'[0].id <= mti /\ cache'[0].id \in Nat BY <1>10, <1>14, <2>2, <2>5
    <3>2. ~(cache'[0].id >= W.id) BY <1>3, <2>1, <3>1
    <3> QED BY <2>3, <3>1, <3>2
  <2> QED BY <1>7, <1>14, <2>4, <2>5
<1>21. \A p \in Pages : cache'[p] = cache[p] /\ disk'[p] = disk[p] BY <1>8, <1>10, <1>11
<1>22. Chosen' = IF Overlapping THEN LastFlushed ELSE W BY <1>12, <1>20 DEF Chosen
<1>23. acked \subseteq Chosen.done /\ Intact(Chosen, cache) /\ Intact(Chosen, disk) /\ Chosen \in Keyed
  BY DEF IInv, RecoveryInv
<1>24. RecoveryInv'
  <2>1. \A f \in Files', l \in MetaLocations : f[l] \in Accounted
    BY <1>5, <1>15 DEF IInv, RecoveryInv
  <2>2. CASE Overlapping
    <3>1. FlushedInv /\ LastFlushed.id <= mti /\ LastFlushed \in Meta
      BY <1>2, <2>2 DEF IInv, RecoveryInv, OpenInv, Held
    <3>2. LastFlushed.id \in Nat /\ W.id # LastFlushed.id
      <4>1. LastFlushed.id \in Nat BY <3>1, MetaFields
      <4> QED BY <1>2, <1>3, <3>1, <4>1 DEF W
    <3>3. disk'[FlushedMeta] = LastFlushed BY <1>8, <1>11, <3>1 DEF FlushedInv
    <3>4. \A f \in Files', s \in Metas :
            /\ f[s].unsynced \/ f[s].id <= LastFlushed.id
            /\ f[s].id = LastFlushed.id => Same(f[s], LastFlushed)
      <4> SUFFICES ASSUME NEW f \in Files', NEW s \in Metas
                   PROVE  /\ f[s].unsynced \/ f[s].id <= LastFlushed.id
                          /\ f[s].id = LastFlushed.id => Same(f[s], LastFlushed)
        OBVIOUS
      <4>1. CASE f[s] = W BY <1>2, <2>2, <3>2, <4>1 DEF W
      <4>2. CASE \E g \in Files : f[s] = g[s] BY <3>1, <4>2 DEF FlushedInv
      <4> QED BY <1>8, <1>15, <4>1, <4>2
    <3>5. FlushedInv' BY <1>1, <1>2, <1>12, <3>1, <3>3, <3>4 DEF FlushedInv
    <3>6. Chosen' = Chosen /\ acked' = acked BY <1>1, <1>2, <1>22, <2>2 DEF Chosen
    <3>7. Intact(Chosen, cache)' /\ Intact(Chosen, disk)' BY <1>21, <1>23, <3>6 DEF Intact
    <3> QED BY <1>23, <2>1, <2>2, <3>5, <3>6, <3>7 DEF RecoveryInv
  <2>3. CASE ~Overlapping
    <3>1. SyncedInv BY <2>3 DEF IInv, RecoveryInv
    <3>2. ASSUME NEW s \in Metas
          PROVE  /\ disk'[s] = cache'[s] /\ cache'[s] \in Keyed
                 /\ cache'[s].id = 0 => Same(cache'[s], EmptyMeta)
      <4>1. CASE s = slot
        <5>1. W.id # 0 BY <1>2, <1>3 DEF W
        <5> QED BY <1>5, <1>10, <1>11, <2>3, <4>1, <5>1
      <4>2. CASE s # slot
        <5>1. s \in Locations /\ disk'[s] = disk[s] /\ cache'[s] = cache[s]
          BY <1>8, <1>10, <1>11, <4>2
        <5> QED BY <3>1, <5>1 DEF SyncedInv
      <4> QED BY <4>1, <4>2
    <3>3. SyncedInv' BY <1>1, <1>2, <3>2 DEF SyncedInv
    <3>4. Chosen' = W /\ Chosen = Base BY <1>2, <1>22, <2>3 DEF IInv, OpenInv, Chosen
    <3>5. acked' \subseteq W.done BY <1>1, <1>2, <1>23, <2>3, <3>4 DEF W
    <3>6. Intact(W, cache') /\ Intact(W, disk') BY <1>2, <1>21, <2>3 DEF Intact, W
    <3>7. Intact(Chosen, cache)' /\ Intact(Chosen, disk)' BY <3>4, <3>6 DEF Intact
    <3> QED BY <1>5, <2>1, <2>3, <3>3, <3>4, <3>5, <3>7 DEF RecoveryInv
  <2> QED BY <1>3, <2>2, <2>3
<1>25. Held \subseteq Held'
  <2> SUFFICES ASSUME NEW m \in Held PROVE m \in Held' OBVIOUS
  <2>1. m \in Meta /\ m.id <= mti /\ pgoldest <= m.id /\ Intact(m, cache) /\ Keeps(m, W)
    BY <1>1, <1>4 DEF Held
  <2>2. m.id <= mti'
    <3>1. m.id \in Nat BY <2>1, MetaFields
    <3> QED BY <1>1, <1>2, <1>3, <2>1, <3>1 DEF W
  <2>3. Intact(m, cache)' /\ Keeps(m, Base)' BY <1>12, <1>21, <2>1 DEF Intact, Keeps
  <2> QED BY <1>1, <2>1, <2>2, <2>3, NoTxnFields DEF Held
<1>26. W \in Held'
  <2>1. W.id <= mti' /\ pgoldest <= W.id
    <3>1. pgoldest <= mti /\ pgoldest \in Nat
      BY <1>2, <1>6, FileAssumption DEF IInv, OpenInv, Held, TypeOK, Ids
    <3> QED BY <1>1, <1>2, <1>3, <3>1 DEF W
  <2>2. Intact(W, cache) BY <1>2 DEF W
  <2>4. Keeps(W, W) BY <1>5 DEF Keeps, Accounted
  <2>5. W \in Meta /\ Keeps(W, Base') BY <1>3, <1>12, <2>4
  <2>6. Intact(W, cache') BY <2>2, <1>21 DEF Intact
  <2>7. wtxn'.pc = "none" /\ pgoldest' = pgoldest BY <1>1, NoTxnFields
  <2> QED BY <2>1, <2>5, <2>6, <2>7 DEF Held, Intact, Keeps
<1>27. Prefixes \subseteq Prefixes'
  <2> SUFFICES ASSUME NEW n \in Past PROVE {t \in Base.done : t <= n} \in Prefixes'
    BY DEF Prefixes
  <2>1. n \in Past' /\ ~(stamp <= n) BY <1>3, <1>16
  <2>2. Base'.done = Base.done \cup {stamp} BY <1>2, <1>12 DEF W
  <2>3. {t \in Base.done : t <= n} = {t \in Base'.done : t <= n} BY <2>1, <2>2
  <2> QED BY <2>1, <2>3 DEF Prefixes
<1>28. OpenInv'
  <2>1. \A f \in Files', s \in Metas : f[s].id <= mti' /\ (f[s].id = mti' => Same(f[s], W))
    <3> SUFFICES ASSUME NEW f \in Files', NEW s \in Metas
                 PROVE  f[s].id <= mti' /\ (f[s].id = mti' => Same(f[s], W))
      OBVIOUS
    <3>1. W.id = mti + 1 /\ mti' = mti + 1 BY <1>1, <1>2 DEF W
    <3>2. CASE f[s] = W BY <1>3, <3>1, <3>2 DEF Same
    <3>3. CASE \E g \in Files : f[s] = g[s]
      <4>1. f[s].id <= mti /\ f[s].id \in Nat BY <1>13, <3>3
      <4> QED BY <1>3, <3>1, <4>1
    <3> QED BY <1>8, <1>15, <3>2, <3>3
  <2>2. Overlapping =>
          synced' <= LastFlushed'.id /\ LastFlushed' \in Held' /\ LastFlushed'.done \in Prefixes'
    BY <1>1, <1>2, <1>12, <1>25, <1>27 DEF IInv, OpenInv
  <2>3. mti' = W.id BY <1>1 DEF W
  <2> QED BY <1>1, <1>2, <1>5, <1>12, <1>20, <1>26, <2>1, <2>2, <2>3 DEF OpenInv
<1>29. TxnInv' BY <1>1, NoTxnFields DEF TxnInv
<1>30. W.id = mti + 1 /\ mti' = mti + 1 /\ W.done = Base.done \cup {stamp} BY <1>1, <1>2 DEF W
<1>31. CallInv'
  <2>1. \A s \in Syncers : syncer[s].last \in Nat
    <3>1. \A s \in Syncers : syncer[s].last \in Ids BY DEF IInv, TypeOK
    <3> QED BY <3>1, FileAssumption DEF Ids
  <2>2. \A s \in Syncers : syncer[s].last <= mti => syncer[s].last <= mti' BY <1>3, <1>30, <2>1
  <2> QED BY <1>1, <1>12, <1>30, <2>2 DEF IInv, CallInv
<1>32. FlushInv'
  <2> SUFFICES ASSUME NEW s \in Syncers, syncer'[s].pc = "fsync"
               PROVE  /\ \A t \in Syncers \ {s} : syncer'[t].pc # "fsync"
                      /\ Flushing(syncer[s].meta, syncer[s].pend)'
                      /\ \A t \in Syncers :
                           syncer'[t].pc # "idle" /\ syncer'[t].last <= syncer'[s].meta.id =>
                             syncer'[t].want \subseteq syncer'[s].meta.done
                      /\ syncer'[s].last <= syncer'[s].meta.id
    BY DEF FlushInv, Flushing
  <2>1. syncer' = syncer /\ syncer[s].pc = "fsync" BY <1>1
  <2>2. /\ Flushing(syncer[s].meta, syncer[s].pend) /\ \A t \in Syncers \ {s} : syncer[t].pc # "fsync"
        /\ \A t \in Syncers : syncer[t].pc # "idle" /\ syncer[t].last <= syncer[s].meta.id =>
             syncer[t].want \subseteq syncer[s].meta.done
        /\ syncer[s].last <= syncer[s].meta.id
    BY <2>1 DEF IInv, FlushInv, Flushing
  <2>3. syncer[s].meta.id <= mti /\ syncer[s].meta.id \in Nat BY <2>2, MetaFields DEF Flushing, Held
  <2>4. \A f \in Files', l \in Metas : f[l].id = syncer[s].meta.id => Same(f[l], syncer[s].meta)
    <3>1. W.id # syncer[s].meta.id BY <1>3, <1>30, <2>3
    <3> QED BY <1>8, <1>15, <2>2, <3>1 DEF Flushing
  <2>5. Flushing(syncer[s].meta, syncer[s].pend)'
    BY <1>12, <1>21, <1>25, <1>27, <2>1, <2>2, <2>4 DEF Flushing, Same
  <2> QED BY <2>1, <2>2, <2>5
<1>33. ReaderInv'
  <2> SUFFICES ASSUME NEW r \in Readers, reader[r].pc \in {"claimed", "open"}
               PROVE  ReadsMeta(r)' \in Held' /\ reader[r].loaded <= ReadsMeta(r)'.id
    BY <1>1 DEF IInv, ReaderInv
  <2>1. ReadsMeta(r) \in Held /\ reader[r].loaded <= ReadsMeta(r).id BY DEF IInv, ReaderInv
  <2>2. reader[r].loaded \in Nat BY FileAssumption DEF IInv, TypeOK, Ids
  <2>3. ReadsMeta(r)' = ReadsMeta(r) \/ ReadsMeta(r)' = W
    <3>1. Slot(reader[r].loaded) \in Locations BY <1>8, <2>2, SlotFacts
    <3>2. cache'[Slot(reader[r].loaded)] \in {cache[Slot(reader[r].loaded)], W} BY <1>10, <3>1
    <3> QED BY <1>1, <3>2 DEF ReadsMeta
  <2>4. CASE ReadsMeta(r)' = ReadsMeta(r) BY <1>25, <2>1, <2>4
  <2>5. CASE ReadsMeta(r)' = W
    <3>1. ReadsMeta(r).id <= mti /\ ReadsMeta(r).id \in Nat BY <2>1, MetaFields DEF Held
    <3>2. reader[r].loaded <= W.id BY <1>3, <1>30, <2>1, <2>2, <3>1
    <3> QED BY <1>26, <2>5, <3>2
  <2> QED BY <2>3, <2>4, <2>5
<1>34. TypeOK'
  <2>1. ASSUME NEW l \in Locations PROVE cache'[l] \in (IF l \in Pages THEN Stamps ELSE Meta)
    <3>1. cache[l] \in (IF l \in Pages THEN Stamps ELSE Meta) BY DEF IInv, TypeOK
    <3> QED BY <1>3, <1>8, <1>10, <3>1
  <2>2. ASSUME NEW l \in Locations PROVE disk'[l] \in (IF l \in Pages THEN Stamps ELSE Meta)
    <3>1. disk[l] \in (IF l \in Pages THEN Stamps ELSE Meta) BY DEF IInv, TypeOK
    <3> QED BY <1>3, <1>8, <1>11, <3>1
  <2>3. mti' \in Ids /\ synced' \in Ids BY <1>1, <1>3 DEF W
  <2>4. acked' \subseteq Stamps BY <1>1, <1>2, <1>3
  <2> QED BY <1>1, <1>10, <1>11, <2>1, <2>2, <2>3, <2>4, NoTxnFields DEF IInv, TypeOK, Writer
<1> QED BY <1>18, <1>19, <1>24, <1>28, <1>29, <1>31, <1>32, <1>33, <1>34 DEF IInv

-----------------------------------------------------------------------------
(* The flushed meta, and the operating system. *)

\* The transactions of the base, all of them.
LEMMA WholePrefix ==
  ASSUME NEW n \in Nat, NEW past, past = 0 .. n, NEW done \in SUBSET past
  PROVE  done \in {{t \in done : t <= k} : k \in past}
<1>1. n \in past OBVIOUS
<1>2. \A t \in done : t <= n OBVIOUS
<1>3. done = {t \in done : t <= n} BY <1>2
<1> QED BY <1>1, <1>3

\* The flushed meta goes to the one that was held while fdatasync ran.
LEMMA SyncWriteKeeps == ASSUME IInv, NEW s \in Syncers, SyncWriteMeta(s) PROVE IInv'
<1> DEFINE m == syncer[s].meta
           fl == [m EXCEPT !.unsynced = FALSE]
<1>1. /\ syncer[s].pc = "fsync" /\ syncer[s].pend = {}
      /\ cache' = [cache EXCEPT ![FlushedMeta] = fl] /\ disk' = [disk EXCEPT ![FlushedMeta] = fl]
      /\ synced' = fl.id /\ acked' = acked \cup syncer[s].want
      /\ syncer' = [syncer EXCEPT ![s] = NoSync]
      /\ UNCHANGED <<env, mti, pgoldest, wtxn, reader, stamp, crashes>>
  BY DEF SyncWriteMeta
<1>2. /\ env = "open" /\ Overlapping BY <1>1 DEF IInv, CallInv
<1>3. /\ \A t \in Syncers \ {s} : syncer[t].pc # "fsync"
      /\ m \in Held /\ m \in Accounted /\ m \in Keyed /\ LastFlushed.id <= m.id
      /\ LastFlushed.done \subseteq m.done /\ m.done \in Prefixes
      /\ \A f \in Files, l \in Metas : f[l].id = m.id => Same(f[l], m)
      /\ \A p \in Pages : m.tree[p] # 0 => disk[p] = m.tree[p] \/ p \in syncer[s].pend
      /\ \A t \in Syncers : syncer[t].pc # "idle" /\ syncer[t].last <= m.id =>
           syncer[t].want \subseteq m.done
      /\ syncer[s].last <= m.id
  BY <1>1 DEF IInv, FlushInv
<1>4. FlushedInv BY <1>2 DEF IInv, RecoveryInv
<1>5. /\ syncer \in [Syncers -> Caller] /\ m \in Meta /\ m \in PastMetas
  BY DEF IInv, TypeOK, Caller, StampInv
<1>6. /\ fl \in Meta /\ fl.id = m.id /\ fl.tree = m.tree /\ fl.free = m.free /\ fl.last = m.last
      /\ fl.done = m.done /\ ~fl.unsynced
  BY <1>5 DEF Meta
<1> HIDE DEF m, fl
<1>7. /\ fl \in Accounted /\ fl \in Keyed /\ fl \in PastMetas /\ fl \in Held
      /\ fl.id \in Nat /\ fl.id \in Ids /\ fl.id > 0
  <2>1. fl.id \in Nat /\ fl.id \in Ids BY <1>6, MetaFields
  <2>2. LastFlushed.id > 0 /\ LastFlushed.id \in Nat
    <3>1. LastFlushed \in Meta BY TypedFiles, LocationFacts DEF IInv, LastFlushed, Files
    <3> QED BY <1>4, <3>1, MetaFields DEF FlushedInv
  <2>3. fl.id > 0 BY <1>3, <1>6, <2>1, <2>2
  <2>4. fl \in Accounted BY <1>3, <1>6 DEF Accounted
  <2>5. fl \in Keyed BY <1>3, <1>6 DEF Keyed
  <2>6. fl \in PastMetas BY <1>5, <1>6 DEF PastMetas
  <2>7. fl \in Held BY <1>3, <1>6 DEF Held, Intact, Keeps
  <2> QED BY <2>1, <2>3, <2>4, <2>5, <2>6, <2>7
<1>8. /\ FlushedMeta \in Locations /\ FlushedMeta \notin Pages /\ FlushedMeta \notin Metas
      /\ Metas \subseteq MetaLocations /\ MetaLocations \subseteq Locations /\ Pages \subseteq Locations
  BY LocationFacts
<1>9. DOMAIN cache = Locations /\ DOMAIN disk = Locations BY DEF IInv, TypeOK
<1>10. /\ cache'[FlushedMeta] = fl /\ disk'[FlushedMeta] = fl
       /\ DOMAIN cache' = Locations /\ DOMAIN disk' = Locations
       /\ \A l \in Locations : l # FlushedMeta => cache'[l] = cache[l] /\ disk'[l] = disk[l]
  BY <1>1, <1>8, <1>9
<1>11. /\ \A p \in Pages : cache'[p] = cache[p] /\ disk'[p] = disk[p]
       /\ \A l \in Metas : cache'[l] = cache[l] /\ disk'[l] = disk[l]
  BY <1>8, <1>10
<1>12. \A f \in Files', l \in MetaLocations :
         (f[l] = fl /\ l = FlushedMeta) \/ (l # FlushedMeta /\ \E g \in Files : f[l] = g[l])
  BY <1>8, <1>10 DEF Files
<1>13. \A f \in Files', l \in Metas : \E g \in Files : f[l] = g[l] BY <1>11 DEF Files
<1>14. mti \in Nat /\ Slot(mti) \in Metas /\ 0 \in Metas /\ 1 \in Metas
  BY <1>2, NewestIsBase DEF Metas
<1>15. Base' = Base /\ Latest(cache)' = Latest(cache) /\ LastFlushed' = fl
  <2>1. mti' = mti BY <1>1
  <2> QED BY <1>10, <1>11, <1>14, <2>1 DEF Base, Latest, LastFlushed
<1>16. Held' = Held
  <2>1. \A x \in Meta : Intact(x, cache') <=> Intact(x, cache) BY <1>11 DEF Intact
  <2>2. mti' = mti /\ pgoldest' = pgoldest /\ wtxn' = wtxn BY <1>1
  <2>3. ASSUME NEW x \in Meta PROVE x \in Held' <=> x \in Held
    <3>1. Intact(x, cache)' <=> Intact(x, cache) BY <2>1 DEF Intact
    <3>2. Keeps(x, Base)' <=> Keeps(x, Base) BY <1>15 DEF Keeps
    <3>3. Keeps(x, Saved(wtxn))' <=> Keeps(x, Saved(wtxn)) BY <2>2 DEF Keeps, Saved, FreeList
    <3> QED BY <2>2, <3>1, <3>2, <3>3 DEF Held
  <2>4. Held \subseteq Meta /\ Held' \subseteq Meta BY DEF Held
  <2> QED BY <2>3, <2>4
<1>17. Past' = Past /\ PastMetas' = PastMetas /\ Prefixes' = Prefixes
  BY <1>1, <1>15 DEF Past, PastMetas, Prefixes
<1>18. /\ syncer' \in [Syncers -> Caller] /\ syncer'[s].pc = "idle" /\ syncer'[s].meta = EmptyMeta
       /\ \A t \in Syncers : t # s => syncer'[t] = syncer[t]
  BY <1>1, <1>5, NoSyncFields
<1>19. /\ syncer[s].want \subseteq m.done /\ syncer[s].want \in SUBSET Stamps
       /\ acked \subseteq LastFlushed.done
  <2>1. syncer[s].want \subseteq m.done BY <1>1, <1>3
  <2>2. syncer[s].want \in SUBSET Stamps BY <1>5 DEF Caller
  <2> QED BY <1>2, <2>1, <2>2 DEF IInv, RecoveryInv, Chosen
<1>20. TypeOK'
  <2>1. ASSUME NEW l \in Locations
        PROVE  /\ cache'[l] \in (IF l \in Pages THEN Stamps ELSE Meta)
               /\ disk'[l] \in (IF l \in Pages THEN Stamps ELSE Meta)
    <3>1. /\ cache[l] \in (IF l \in Pages THEN Stamps ELSE Meta)
          /\ disk[l] \in (IF l \in Pages THEN Stamps ELSE Meta)
      BY DEF IInv, TypeOK
    <3> QED BY <1>6, <1>8, <1>10, <3>1
  <2>2. synced' \in Ids BY <1>1, <1>7
  <2>3. acked' \subseteq Stamps BY <1>1, <1>19 DEF IInv, TypeOK
  <2> QED BY <1>1, <1>10, <1>18, <2>1, <2>2, <2>3 DEF IInv, TypeOK, Caller
<1>21. StampInv'
  <2>1. \A t \in Syncers : syncer'[t].meta \in PastMetas
    BY <1>18, EmptyMetaPast DEF IInv, StampInv
  <2>2. \A f \in Files', l \in MetaLocations : f[l] \in PastMetas BY <1>7, <1>12 DEF IInv, StampInv
  <2> QED BY <1>1, <1>17, <2>1, <2>2 DEF IInv, StampInv
<1>22. SlotInv'
  <2>1. \A f \in Files', l \in Metas : f[l].id > 0 => Slot(f[l].id) = l
    BY <1>13 DEF IInv, SlotInv
  <2>2. \A l \in Metas : disk'[l].id <= cache'[l].id BY <1>11 DEF IInv, SlotInv
  <2> QED BY <2>1, <2>2 DEF SlotInv
<1>23. RecoveryInv'
  <2>1. \A f \in Files', l \in MetaLocations : f[l] \in Accounted BY <1>7, <1>12 DEF IInv, RecoveryInv
  <2>2. \A f \in Files', l \in Metas : f[l].unsynced \/ f[l].id <= fl.id
    <3> SUFFICES ASSUME NEW f \in Files', NEW l \in Metas PROVE f[l].unsynced \/ f[l].id <= fl.id
      OBVIOUS
    <3>1. PICK g \in Files : f[l] = g[l] BY <1>13
    <3>2. g[l].unsynced \/ g[l].id <= LastFlushed.id BY <1>4 DEF FlushedInv
    <3>3. g[l] \in Meta /\ LastFlushed \in Meta
      BY <1>8, TypedFiles, LocationFacts DEF IInv, LastFlushed, Files
    <3>4. g[l].id \in Nat /\ LastFlushed.id \in Nat BY <3>3, MetaFields
    <3>5. CASE g[l].unsynced BY <3>1, <3>5
    <3>6. CASE g[l].id <= LastFlushed.id
      <4>1. g[l].id <= fl.id BY <1>3, <1>6, <1>7, <3>4, <3>6
      <4> QED BY <3>1, <4>1
    <3> QED BY <3>2, <3>5, <3>6
  <2>3. \A f \in Files', l \in Metas : f[l].id = fl.id => Same(f[l], fl)
    BY <1>3, <1>6, <1>13 DEF Same
  <2>4. FlushedInv' BY <1>1, <1>2, <1>6, <1>7, <1>10, <1>15, <2>2, <2>3 DEF FlushedInv
  <2>5. Chosen' = fl BY <1>2, <1>15 DEF Chosen
  <2>6. acked' \subseteq fl.done BY <1>1, <1>3, <1>6, <1>19
  <2>7. Intact(fl, cache') /\ Intact(fl, disk')
    <3>1. Intact(fl, cache) BY <1>7 DEF Held
    <3>2. Intact(fl, disk) BY <1>1, <1>3, <1>6 DEF Intact
    <3> QED BY <1>11, <3>1, <3>2 DEF Intact
  <2>8. Intact(Chosen', cache') /\ Intact(Chosen', disk') BY <2>5, <2>7
  <2>9. Intact(Chosen, cache)' /\ Intact(Chosen, disk)' BY <2>8 DEF Intact
  <2> QED BY <1>2, <1>7, <2>1, <2>4, <2>5, <2>6, <2>9 DEF RecoveryInv
<1>24. OpenInv'
  <2>1. \A f \in Files', l \in Metas : f[l].id <= mti /\ (f[l].id = mti => Same(f[l], Base))
    BY <1>2, <1>13 DEF IInv, OpenInv
  <2>2. synced' <= LastFlushed'.id BY <1>1, <1>7, <1>15
  <2>3. LastFlushed' \in Held' /\ LastFlushed'.done \in Prefixes'
    BY <1>3, <1>6, <1>7, <1>15, <1>16, <1>17
  <2> QED BY <1>1, <1>2, <1>15, <1>16, <2>1, <2>2, <2>3 DEF IInv, OpenInv
<1>25. TxnInv'
  <2>1. Intact(wtxn.meta, cache) => Intact(wtxn.meta, cache') BY <1>11 DEF Intact
  <2>2. Intact(wtxn.meta, cache)' <=> Intact(wtxn.meta, cache') BY <1>1 DEF Intact
  <2>3. Saved(wtxn)' = Saved(wtxn) /\ FreeList(wtxn)' = FreeList(wtxn) BY <1>1 DEF Saved, FreeList
  <2> QED BY <1>1, <1>2, <1>15, <2>1, <2>2, <2>3 DEF IInv, TxnInv
<1>26. CallInv'
  <2> SUFFICES ASSUME NEW t \in Syncers, syncer'[t].pc # "idle"
               PROVE  /\ env' = "open" /\ Overlapping /\ syncer'[t].last <= mti'
                      /\ syncer'[t].want \subseteq Base'.done
                      /\ syncer'[t].last <= LastFlushed'.id =>
                           syncer'[t].want \subseteq LastFlushed'.done
    BY DEF CallInv
  <2>1. t # s /\ syncer'[t] = syncer[t] BY <1>18
  <2> QED BY <1>1, <1>2, <1>3, <1>6, <1>15, <2>1 DEF IInv, CallInv
<1>27. FlushInv' BY <1>3, <1>18 DEF FlushInv
<1>28. ReaderInv'
  <2> SUFFICES ASSUME NEW r \in Readers, reader[r].pc \in {"claimed", "open"}
               PROVE  ReadsMeta(r)' = ReadsMeta(r)
    BY <1>1, <1>16 DEF IInv, ReaderInv
  <2>1. reader[r].loaded \in Nat BY FileAssumption DEF IInv, TypeOK, Ids
  <2>2. Slot(reader[r].loaded) \in Metas BY <2>1, SlotFacts
  <2> QED BY <1>1, <1>11, <2>2 DEF ReadsMeta
<1> QED BY <1>20, <1>21, <1>22, <1>23, <1>24, <1>25, <1>26, <1>27, <1>28 DEF IInv

\* The operating system writes a location back.
LEMMA WriteBackKeeps == ASSUME IInv, NEW l \in Locations, WriteBack(l) PROVE IInv'
<1>1. /\ disk' = [disk EXCEPT ![l] = cache[l]]
      /\ wtxn' = [wtxn EXCEPT !.pend = @ \ {l}]
      /\ syncer' = [s \in Syncers |-> [syncer[s] EXCEPT !.pend = @ \ {l}]]
      /\ UNCHANGED <<cache, env, mti, synced, pgoldest, reader, stamp, crashes, acked>>
  BY DEF WriteBack
<1>2. wtxn \in Writer /\ syncer \in [Syncers -> Caller] BY DEF IInv, TypeOK, Writer, Caller
<1>3. /\ wtxn' \in Writer /\ wtxn'.pc = wtxn.pc /\ wtxn'.nosync = wtxn.nosync
      /\ wtxn'.stamp = wtxn.stamp /\ wtxn'.meta = wtxn.meta /\ wtxn'.freed = wtxn.freed
      /\ wtxn'.pghead = wtxn.pghead /\ wtxn'.pglast = wtxn.pglast /\ wtxn'.pend = wtxn.pend \ {l}
  BY <1>1, <1>2 DEF Writer
<1>4. /\ syncer' \in [Syncers -> Caller]
      /\ \A s \in Syncers : /\ syncer'[s].pc = syncer[s].pc /\ syncer'[s].last = syncer[s].last
                            /\ syncer'[s].want = syncer[s].want /\ syncer'[s].meta = syncer[s].meta
                            /\ syncer'[s].pend = syncer[s].pend \ {l}
  <2>1. ASSUME NEW s \in Syncers
        PROVE  /\ syncer'[s] \in Caller
               /\ syncer'[s].pc = syncer[s].pc /\ syncer'[s].last = syncer[s].last
               /\ syncer'[s].want = syncer[s].want /\ syncer'[s].meta = syncer[s].meta
               /\ syncer'[s].pend = syncer[s].pend \ {l}
    <3>1. syncer[s] \in Caller BY <1>2
    <3>2. syncer'[s] = [syncer[s] EXCEPT !.pend = @ \ {l}] BY <1>1
    <3> QED BY <3>1, <3>2 DEF Caller
  <2> QED BY <1>1, <2>1
<1>5. /\ DOMAIN disk' = Locations /\ disk'[l] = cache[l]
      /\ \A k \in Locations : k # l => disk'[k] = disk[k]
  BY <1>1 DEF IInv, TypeOK
<1>6. Pages \subseteq Locations /\ MetaLocations \subseteq Locations BY LocationFacts
<1>7. Quiet BY <1>1, <1>4, <1>5, <1>6 DEF Quiet, QuietVars
<1>8. TypeOK'
  <2>1. ASSUME NEW k \in Locations PROVE disk'[k] \in (IF k \in Pages THEN Stamps ELSE Meta)
    <3>1. /\ disk[k] \in (IF k \in Pages THEN Stamps ELSE Meta)
          /\ cache[k] \in (IF k \in Pages THEN Stamps ELSE Meta)
      BY DEF IInv, TypeOK
    <3>2. CASE k = l BY <1>5, <3>1, <3>2
    <3>3. CASE k # l BY <1>5, <3>1, <3>3
    <3> QED BY <3>2, <3>3
  <2>2. \A f \in {cache', disk'} :
          /\ DOMAIN f = Locations
          /\ \A k \in Locations : f[k] \in (IF k \in Pages THEN Stamps ELSE Meta)
    BY <1>1, <1>5, <2>1 DEF IInv, TypeOK
  <2>3. wtxn' \in Writer /\ syncer' \in [Syncers -> Caller] BY <1>3, <1>4
  <2> QED BY <1>1, <2>2, <2>3 DEF IInv, TypeOK, Writer, Caller
<1>9. Base' = Base BY <1>7, QuietMetas
<1>10. FreeList(wtxn') = FreeList(wtxn) /\ Saved(wtxn') = Saved(wtxn) BY <1>3 DEF FreeList, Saved
<1>11. Saved(wtxn') = Saved(wtxn)' /\ FreeList(wtxn') = FreeList(wtxn)' BY DEF FreeList, Saved
<1>12. TxnInv'
  <2> SUFFICES ASSUME wtxn.pc # "none" PROVE TxnInv'
    BY <1>3 DEF TxnInv
  <2>1. ASSUME ~Overlapping, wtxn.pc = "flushed", NEW p \in Pages, wtxn.meta.tree[p] # 0
        PROVE  disk'[p] = wtxn.meta.tree[p] \/ p \in wtxn'.pend
    <3>1. disk[p] = wtxn.meta.tree[p] \/ p \in wtxn.pend BY <2>1 DEF IInv, TxnInv
    <3>2. cache[p] = wtxn.meta.tree[p] BY <2>1 DEF IInv, TxnInv, Intact
    <3> QED BY <1>3, <1>5, <1>6, <3>1, <3>2
  <2>2. Intact(wtxn.meta, cache)' <=> Intact(wtxn.meta, cache) BY <1>1, <1>3 DEF Intact
  <2> QED BY <1>1, <1>3, <1>9, <1>10, <1>11, <2>1, <2>2 DEF IInv, TxnInv
<1>13. Held \subseteq Held'
  <2> SUFFICES ASSUME NEW m \in Held PROVE m \in Held' OBVIOUS
  <2>1. m \in Meta /\ m.id <= mti /\ pgoldest <= m.id /\ Intact(m, cache) /\ Keeps(m, Base)
    BY DEF Held
  <2>2. wtxn.pc # "none" =>
          /\ wtxn.pglast <= m.id /\ Keeps(m, Saved(wtxn))
          /\ \A p \in Pages : m.tree[p] # 0 => wtxn.meta.tree[p] # wtxn.stamp
    BY DEF Held
  <2>3. Intact(m, cache)' /\ Keeps(m, Base)' BY <1>1, <1>9, <2>1 DEF Intact, Keeps
  <2>4. Keeps(m, Saved(wtxn)) => Keeps(m, Saved(wtxn)') BY <1>10, <1>11
  <2>5. Keeps(m, Saved(wtxn)') <=> Keeps(m, Saved(wtxn))' BY DEF Keeps
  <2> QED BY <1>1, <1>3, <2>1, <2>2, <2>3, <2>4, <2>5 DEF Held
<1>14. Past \subseteq Past' BY <1>1, <1>3 DEF Past
<1>15. env = "open" => Kept \subseteq Held' BY <1>13, KeptHeld
<1>16. ASSUME env # "open" PROVE wtxn' = wtxn /\ pgoldest' = pgoldest /\ syncer' = syncer
  <2>1. wtxn = NoTxn /\ syncer = [s \in Syncers |-> NoSync] BY <1>16 DEF IInv, OpenInv
  <2>2. wtxn' = wtxn
    <3>1. wtxn' = [wtxn EXCEPT !.pend = wtxn.pend] BY <1>1, <1>2, <2>1 DEF NoTxn, Writer
    <3> QED BY <1>2, <3>1 DEF Writer
  <2>3. ASSUME NEW s \in Syncers PROVE syncer'[s] = syncer[s]
    <3>1. syncer[s] = NoSync /\ syncer[s] \in Caller /\ syncer[s].pend = {} BY <1>2, <2>1 DEF NoSync
    <3>2. syncer'[s] = [syncer[s] EXCEPT !.pend = syncer[s].pend \ {l}] BY <1>1
    <3>3. syncer'[s] = [syncer[s] EXCEPT !.pend = syncer[s].pend] BY <3>1, <3>2
    <3> QED BY <3>1, <3>3 DEF Caller
  <2> QED BY <1>1, <1>2, <1>4, <2>2, <2>3
<1>17. Intact(Chosen, cache') /\ Intact(Chosen, disk')
  <2>1. Intact(Chosen, cache) /\ Intact(Chosen, disk) BY DEF IInv, RecoveryInv
  <2> QED BY <1>1, <1>5, <1>6, <2>1 DEF Intact
<1>18. ASSUME NEW s \in Syncers, syncer[s].pc = "fsync", NEW p \in Pages, syncer[s].meta.tree[p] # 0
       PROVE  disk'[p] = syncer[s].meta.tree[p] \/ p \in syncer'[s].pend
  <2>1. disk[p] = syncer[s].meta.tree[p] \/ p \in syncer[s].pend BY <1>18 DEF IInv, FlushInv
  <2>2. cache[p] = syncer[s].meta.tree[p] BY <1>18 DEF IInv, FlushInv, Held, Intact
  <2> QED BY <1>4, <1>5, <1>6, <2>1, <2>2
<1> QED BY <1>7, <1>8, <1>12, <1>14, <1>15, <1>16, <1>17, <1>18, QuietKeeps

-----------------------------------------------------------------------------
(* Crashes and recovery. *)

\* No transaction is open and nothing is flushed or read.
NoCalls ==
  /\ wtxn = NoTxn /\ synced = 0 /\ pgoldest = 0
  /\ syncer = [s \in Syncers |-> NoSync] /\ reader = [r \in Readers |-> NoRead]

\* The parts of the invariant about calls then hold.
LEMMA NoCallsKeep ==
  ASSUME NoCalls', TypeOK', StampInv', SlotInv', RecoveryInv', OpenInv'
  PROVE  IInv'
<1>1. TxnInv' BY NoTxnFields DEF NoCalls, TxnInv
<1>2. \A s \in Syncers : syncer'[s].pc = "idle" BY NoSyncFields DEF NoCalls
<1>3. CallInv' /\ FlushInv' BY <1>2 DEF CallInv, FlushInv
<1>4. \A r \in Readers : reader'[r].pc = "none" BY DEF NoCalls, NoRead
<1>5. ReaderInv' BY <1>4 DEF ReaderInv
<1> QED BY <1>1, <1>3, <1>5 DEF IInv

\* The variables of a process that has no calls.
LEMMA NoCallsTyped ==
  ASSUME NoCalls
  PROVE  /\ synced \in Ids /\ pgoldest \in Ids /\ wtxn \in Writer
         /\ syncer \in [Syncers -> Caller] /\ reader \in [Readers -> Reader]
         /\ Past = 0 .. stamp
<1>1. NoRead \in Reader BY EmptyMetaFields, FileAssumption DEF NoRead, Reader, Ids
<1> QED BY <1>1, NoTxnFields, NoSyncFields, FileAssumption DEF NoCalls, Ids, Past

\* The process ends, or the machine crashes: Chosen stays as it was.
LEMMA CrashKeeps == ASSUME IInv, NEW machine \in BOOLEAN, Crash(machine) PROVE IInv'
<1>1. /\ env' = "down" /\ mti' = 0 /\ NoCalls' /\ UNCHANGED <<disk, stamp, acked>>
      /\ cache' \in Files /\ crashes' = crashes + 1 /\ crashes < MaxCrashes
  BY DEF Crash, NewProcess, NoCalls, Files
<1>2. Files' \subseteq Files BY <1>1 DEF Files
<1>3. synced' = 0 /\ pgoldest' = 0 /\ wtxn' = NoTxn BY <1>1 DEF NoCalls
<1>4. TypeOK'
  <2>1. \A f \in {cache', disk'} :
          /\ DOMAIN f = Locations
          /\ \A l \in Locations : f[l] \in (IF l \in Pages THEN Stamps ELSE Meta)
    BY <1>1 DEF IInv, TypeOK, Files
  <2>2. crashes' \in 0 .. MaxCrashes /\ 0 \in Ids BY <1>1, FileAssumption DEF IInv, TypeOK, Ids
  <2>3. /\ wtxn' \in Writer /\ syncer' = [s \in Syncers |-> NoSync]
        /\ reader' = [r \in Readers |-> NoRead]
        /\ NoSync \in Caller /\ NoRead \in Reader
    BY <1>1, NoTxnFields, NoSyncFields, EmptyMetaFields, FileAssumption DEF NoCalls, NoRead, Reader, Ids
  <2> QED BY <1>1, <1>3, <2>1, <2>2, <2>3 DEF IInv, TypeOK, Writer, Caller, Reader
<1>5. stamp \in Nat /\ Past' = 0 .. stamp /\ Past \subseteq Past' /\ 0 \in Past'
  <2>1. stamp \in Nat BY FileAssumption DEF IInv, TypeOK, Stamps
  <2>2. Past' = 0 .. stamp BY <1>1, <1>3, NoTxnFields DEF Past
  <2>3. Past \subseteq 0 .. stamp BY <2>1 DEF Past
  <2> QED BY <2>1, <2>2, <2>3
<1>6. PastMetas \subseteq PastMetas' BY <1>5 DEF PastMetas
<1>7. StampInv'
  <2>1. EmptyMeta \in PastMetas' BY <1>6, EmptyMetaPast DEF IInv
  <2>2. \A s \in Syncers : syncer'[s].meta = EmptyMeta BY <1>1, NoSyncFields DEF NoCalls
  <2> QED BY <1>1, <1>2, <1>5, <1>6, <2>1, <2>2 DEF IInv, StampInv
<1>8. SlotInv'
  <2>1. \A s \in Metas : disk[s].id <= disk[s].id
    <3>1. \A s \in Metas : disk[s] \in Meta BY TypedFiles, LocationFacts DEF IInv, Files
    <3> QED BY <3>1, MetaFields
  <2> QED BY <1>1, <1>2, <2>1 DEF IInv, SlotInv, Files
<1>9. Chosen' = Chosen
  <2>1. CASE Overlapping
    <3>1. disk[FlushedMeta] = cache[FlushedMeta]
      BY <2>1 DEF IInv, RecoveryInv, FlushedInv, LastFlushed
    <3> QED BY <1>1, <2>1, <3>1 DEF Chosen, LastFlushed, Files
  <2>2. CASE ~Overlapping
    <3>1. disk[0] = cache[0] /\ disk[1] = cache[1]
      BY <2>2 DEF IInv, RecoveryInv, SyncedInv, Metas
    <3> QED BY <1>1, <2>2, <3>1 DEF Chosen, Latest, Files
  <2> QED BY <2>1, <2>2, FileAssumption
<1>10. RecoveryInv'
  <2>1. \A f \in Files', l \in MetaLocations : f[l] \in Accounted BY <1>2 DEF IInv, RecoveryInv
  <2>2. CASE Overlapping
    <3>1. FlushedInv BY <2>2 DEF IInv, RecoveryInv
    <3>2. LastFlushed' = LastFlushed BY <1>9, <2>2 DEF Chosen
    <3>3. FlushedInv' BY <1>1, <1>2, <3>1, <3>2 DEF FlushedInv
    <3>4. /\ Chosen' \in Keyed /\ acked' \subseteq Chosen'.done
          /\ Intact(Chosen', cache') /\ Intact(Chosen', disk')
      BY <1>1, <1>9 DEF IInv, RecoveryInv, Files
    <3>5. Intact(Chosen, cache)' /\ Intact(Chosen, disk)' BY <3>4 DEF Intact
    <3> QED BY <2>1, <2>2, <3>3, <3>4, <3>5 DEF RecoveryInv
  <2>3. CASE ~Overlapping
    <3>1. SyncedInv BY <2>3 DEF IInv, RecoveryInv
    <3>2. SyncedInv' BY <1>1, <3>1 DEF SyncedInv, Files
    <3>4. /\ Chosen' \in Keyed /\ acked' \subseteq Chosen'.done
          /\ Intact(Chosen', cache') /\ Intact(Chosen', disk')
      BY <1>1, <1>9 DEF IInv, RecoveryInv, Files
    <3>5. Intact(Chosen, cache)' /\ Intact(Chosen, disk)' BY <3>4 DEF Intact
    <3> QED BY <2>1, <2>3, <3>2, <3>4, <3>5 DEF RecoveryInv
  <2> QED BY <2>2, <2>3, FileAssumption
<1>11. OpenInv' BY <1>1 DEF OpenInv, NoCalls
<1> QED BY <1>1, <1>4, <1>7, <1>8, <1>10, <1>11, NoCallsKeep

\* What the two steps of a rollback have in common.
LEMMA PutKeeps ==
  ASSUME IInv, NoCalls, NEW m \in Meta, PutMeta(m), Overlapping,
         m \in PastMetas, m.id <= LastFlushed.id, Same(m, LastFlushed), ~m.unsynced,
         UNCHANGED <<synced, pgoldest, wtxn, syncer, reader, stamp, crashes, acked>>,
         env' \in {"open", "rollback"}, mti' \in Past,
         env' = "rollback" => m = LastFlushed
  PROVE  /\ NoCalls' /\ TypeOK' /\ StampInv' /\ SlotInv' /\ RecoveryInv' /\ LastFlushed' = LastFlushed
         /\ \A f \in Files' : f[Slot(m.id)] = m
         /\ \A f \in Files', s \in MetaLocations :
              (f[s] = m /\ s = Slot(m.id)) \/ (s # Slot(m.id) /\ \E g \in Files : f[s] = g[s])
         /\ \A p \in Pages : cache'[p] = cache[p] /\ disk'[p] = disk[p]
         /\ cache' = [cache EXCEPT ![Slot(m.id)] = m] /\ disk' = [disk EXCEPT ![Slot(m.id)] = m]
<1> DEFINE slot == Slot(m.id)
<1>1. cache' = [cache EXCEPT ![slot] = m] /\ disk' = [disk EXCEPT ![slot] = m] BY DEF PutMeta
<1>2. m.id \in Nat /\ slot \in Metas BY MetaFields, SlotFacts
<1> HIDE DEF slot
<1>3. /\ slot \in MetaLocations /\ FlushedMeta \in MetaLocations /\ slot # FlushedMeta
      /\ MetaLocations \subseteq Locations /\ Pages \subseteq Locations /\ Metas \subseteq MetaLocations
      /\ \A p \in Pages : p # slot
  BY <1>2, LocationFacts
<1>4. DOMAIN cache = Locations /\ DOMAIN disk = Locations BY DEF IInv, TypeOK
<1>5. /\ cache'[slot] = m /\ \A l \in Locations : l # slot => cache'[l] = cache[l]
      /\ disk'[slot] = m /\ \A l \in Locations : l # slot => disk'[l] = disk[l]
      /\ DOMAIN cache' = Locations /\ DOMAIN disk' = Locations
  BY <1>1, <1>3, <1>4
<1>6. \A f \in Files' : f[slot] = m BY <1>5 DEF Files
<1>7. \A f \in Files', s \in MetaLocations :
        (f[s] = m /\ s = slot) \/ (s # slot /\ \E g \in Files : f[s] = g[s])
  BY <1>3, <1>5 DEF Files
<1>8. \A p \in Pages : cache'[p] = cache[p] /\ disk'[p] = disk[p] BY <1>3, <1>5
<1>9. LastFlushed' = LastFlushed /\ FlushedInv BY <1>3, <1>5 DEF LastFlushed, IInv, RecoveryInv
<1>10. NoCalls' BY DEF NoCalls
<1>11. Past' = Past /\ PastMetas' = PastMetas BY DEF Past, PastMetas
<1>12. TypeOK'
  <2>1. ASSUME NEW l \in Locations
        PROVE  /\ cache'[l] \in (IF l \in Pages THEN Stamps ELSE Meta)
               /\ disk'[l] \in (IF l \in Pages THEN Stamps ELSE Meta)
    <3>1. /\ cache[l] \in (IF l \in Pages THEN Stamps ELSE Meta)
          /\ disk[l] \in (IF l \in Pages THEN Stamps ELSE Meta)
      BY DEF IInv, TypeOK
    <3>2. CASE l = slot BY <1>3, <1>5, <3>2
    <3>3. CASE l # slot BY <1>5, <3>1, <3>3
    <3> QED BY <3>2, <3>3
  <2>2. mti' \in Ids
    <3>1. stamp \in 0 .. MaxTxns /\ MaxTxns \in Nat BY FileAssumption DEF IInv, TypeOK, Stamps
    <3> QED BY <3>1, NoTxnFields DEF Past, Ids, NoCalls
  <2> QED BY <1>5, <2>1, <2>2 DEF IInv, TypeOK
<1>13. StampInv' BY <1>7, <1>11 DEF IInv, StampInv
<1>14. SlotInv'
  <2>1. \A f \in Files', s \in Metas : f[s].id > 0 => Slot(f[s].id) = s
    BY <1>3, <1>7 DEF IInv, SlotInv, slot
  <2>2. ASSUME NEW s \in Metas PROVE disk'[s].id <= cache'[s].id
    <3>1. CASE s = slot BY <1>2, <1>5, <3>1
    <3>2. CASE s # slot BY <1>3, <1>5, <3>2 DEF IInv, SlotInv
    <3> QED BY <3>1, <3>2
  <2> QED BY <2>1, <2>2 DEF SlotInv
<1>15. RecoveryInv'
  <2>1. LastFlushed \in Accounted BY <1>3 DEF IInv, RecoveryInv, LastFlushed, Files
  <2>2. m \in Accounted BY <2>1 DEF Accounted, Same
  <2>3. \A f \in Files', l \in MetaLocations : f[l] \in Accounted
    BY <1>7, <2>2 DEF IInv, RecoveryInv
  <2>4. \A f \in Files', s \in Metas :
          /\ f[s].unsynced \/ f[s].id <= LastFlushed.id
          /\ f[s].id = LastFlushed.id => Same(f[s], LastFlushed)
    BY <1>3, <1>7, <1>9 DEF FlushedInv
  <2>5. disk'[FlushedMeta] = LastFlushed BY <1>3, <1>5, <1>9 DEF FlushedInv
  <2>6. env' = "rollback" => \A f \in Files' : f[Slot(LastFlushed.id)] = LastFlushed
    BY <1>6 DEF slot
  <2>7. FlushedInv' BY <1>9, <2>4, <2>5, <2>6 DEF FlushedInv
  <2>8. Chosen' = Chosen BY <1>9 DEF Chosen
  <2>9. Chosen' \in Keyed /\ acked' \subseteq Chosen'.done BY <2>8 DEF IInv, RecoveryInv
  <2>10. Intact(Chosen, cache)' /\ Intact(Chosen, disk)' BY <1>8, <2>8 DEF IInv, RecoveryInv, Intact
  <2> QED BY <2>3, <2>7, <2>9, <2>10 DEF RecoveryInv
<1> QED BY <1>1, <1>6, <1>7, <1>8, <1>9, <1>10, <1>12, <1>13, <1>14, <1>15 DEF slot

\* Between two processes nothing runs; a rollback goes to the flushed meta.
LEMMA DownFacts ==
  ASSUME IInv, env # "open"
  PROVE  /\ NoCalls /\ Past = 0 .. stamp /\ stamp \in Nat
         /\ Overlapping =>
              /\ Safe(cache) = LastFlushed /\ LastFlushed \in Meta /\ LastFlushed.id \in Nat
              /\ LastFlushed.id > 0 /\ ~LastFlushed.unsynced /\ LastFlushed \in PastMetas
<1>1. NoCalls BY DEF IInv, OpenInv, NoCalls
<1>2. stamp \in Nat BY FileAssumption DEF IInv, TypeOK, Stamps
<1>3. Past = 0 .. stamp BY <1>1, NoCallsTyped
<1>4. ASSUME Overlapping
      PROVE  /\ Safe(cache) = LastFlushed /\ LastFlushed \in Meta /\ LastFlushed.id \in Nat
             /\ LastFlushed.id > 0 /\ ~LastFlushed.unsynced /\ LastFlushed \in PastMetas
  <2>1. FlushedInv BY <1>4 DEF IInv, RecoveryInv
  <2>2. Recovered(cache) = Chosen BY Recovers DEF IInv, Files
  <2>3. Safe(cache) = LastFlushed BY <1>4, <2>2 DEF Recovered, Chosen
  <2>4. LastFlushed \in PastMetas BY LocationFacts DEF IInv, StampInv, Files, LastFlushed
  <2>5. LastFlushed \in Meta BY <2>4 DEF PastMetas
  <2> QED BY <2>1, <2>3, <2>4, <2>5, MetaFields DEF FlushedInv
<1> QED BY <1>1, <1>2, <1>3, <1>4

\* The first half of a rollback.
LEMMA RollbackKeeps == ASSUME IInv, OpenRollback PROVE IInv'
<1>1. /\ env = "down" /\ Overlapping /\ env' = "rollback" /\ PutMeta(Safe(cache))
      /\ UNCHANGED <<mti, synced, pgoldest, wtxn, syncer, reader, stamp, crashes, acked>>
  BY DEF OpenRollback
<1>2. /\ NoCalls /\ Safe(cache) = LastFlushed /\ LastFlushed \in Meta /\ LastFlushed.id \in Nat
      /\ ~LastFlushed.unsynced /\ LastFlushed \in PastMetas
  BY <1>1, DownFacts
<1>3. LastFlushed.id <= LastFlushed.id /\ Same(LastFlushed, LastFlushed) BY <1>2 DEF Same
<1>4. PutMeta(LastFlushed) /\ mti' \in Past BY <1>1, <1>2 DEF IInv, StampInv
<1>5. NoCalls' /\ TypeOK' /\ StampInv' /\ SlotInv' /\ RecoveryInv'
  BY <1>1, <1>2, <1>3, <1>4, PutKeeps
<1>6. OpenInv' BY <1>1, <1>5 DEF OpenInv, NoCalls
<1> QED BY <1>5, <1>6, NoCallsKeep

\* The environment after its opener put both metas in place, or found them so.
LEMMA OpenedKeeps ==
  ASSUME NoCalls', TypeOK', StampInv', SlotInv', RecoveryInv', env' = "open",
         Base'.id = mti', Latest(cache)' = Base', Base' \in Keyed,
         Intact(Base', cache'),
         \A f \in Files', s \in Metas : f[s].id <= mti' /\ (f[s].id = mti' => Same(f[s], Base')),
         Overlapping => LastFlushed'.id = mti' /\ Same(LastFlushed', Base')
  PROVE  IInv'
<1>1. mti' \in Nat /\ stamp' \in Nat BY FileAssumption DEF TypeOK, Ids, Stamps
<1>2. /\ Slot(mti') \in MetaLocations /\ FlushedMeta \in MetaLocations /\ cache' \in Files'
  BY <1>1, SlotFacts, LocationFacts DEF Files
<1>3. Base' \in PastMetas' /\ Base' \in Accounted /\ Base' \in Meta
      /\ LastFlushed' \in Accounted /\ LastFlushed' \in Meta
  BY <1>2 DEF StampInv, RecoveryInv, Base, LastFlushed, Accounted
<1>4. wtxn'.pc = "none" /\ pgoldest' = 0 /\ synced' = 0 BY NoTxnFields DEF NoCalls
<1>5. Keeps(Base', Base') /\ (Overlapping => Keeps(LastFlushed', Base'))
  BY <1>3 DEF Keeps, Accounted, Same
<1>6. Base' \in Held'
  <2>1. Base'.id <= mti' /\ pgoldest' <= Base'.id BY <1>1, <1>4
  <2>2. {Base'} \subseteq Held' BY <1>3, <1>4, <1>5, <2>1 DEF Held, Intact, Keeps
  <2> QED BY <2>2
<1>7. Overlapping => LastFlushed' \in Held'
  <2> SUFFICES ASSUME Overlapping PROVE LastFlushed' \in Held' OBVIOUS
  <2>1. LastFlushed'.id <= mti' /\ pgoldest' <= LastFlushed'.id BY <1>1, <1>4
  <2>2. Intact(LastFlushed', cache') BY DEF Intact, Same
  <2>3. {LastFlushed'} \subseteq Held' BY <1>3, <1>4, <1>5, <2>1, <2>2 DEF Held, Intact, Keeps
  <2> QED BY <2>3
<1>8. Overlapping => LastFlushed'.done \in Prefixes'
  <2>1. Past' = 0 .. stamp' BY <1>4 DEF Past
  <2>2. Base'.done \in SUBSET Past' BY <1>3 DEF PastMetas
  <2>3. Base'.done \in {{t \in Base'.done : t <= k} : k \in Past'} BY <1>1, <2>1, <2>2, WholePrefix
  <2>4. Base'.done \in Prefixes' BY <2>3 DEF Prefixes
  <2> QED BY <2>4 DEF Same
<1>9. Overlapping => synced' <= LastFlushed'.id BY <1>1, <1>4
<1>10. OpenInv' BY <1>4, <1>6, <1>7, <1>8, <1>9 DEF OpenInv, NoCalls
<1> QED BY <1>10, NoCallsKeep

\* The second half: the flushed meta is the base, its older copy in the other slot.
LEMMA RolledBackKeeps == ASSUME IInv, OpenRolledBack PROVE IInv'
<1> DEFINE m == [Safe(cache) EXCEPT !.id = @ - 1]
<1>1. /\ env = "rollback" /\ env' = "open" /\ PutMeta(m) /\ mti' = Safe(cache).id
      /\ UNCHANGED <<synced, pgoldest, wtxn, syncer, reader, stamp, crashes, acked>>
  BY DEF OpenRolledBack
<1>2. Overlapping BY <1>1, FileAssumption DEF IInv, RecoveryInv, SyncedInv
<1>3. /\ NoCalls /\ Safe(cache) = LastFlushed /\ LastFlushed \in Meta /\ LastFlushed.id \in Nat
      /\ LastFlushed.id > 0 /\ ~LastFlushed.unsynced /\ LastFlushed \in PastMetas
      /\ Past = 0 .. stamp /\ stamp \in Nat
  BY <1>1, <1>2, DownFacts
<1>4. LastFlushed.id \in Ids /\ LastFlushed.id - 1 \in Ids /\ LastFlushed.id - 1 \in Nat
  BY <1>3, MetaFields, FileAssumption DEF Ids
<1>5. /\ m \in Meta /\ m.id = LastFlushed.id - 1 /\ m.unsynced = LastFlushed.unsynced
      /\ m.tree = LastFlushed.tree /\ m.free = LastFlushed.free /\ m.last = LastFlushed.last
      /\ m.done = LastFlushed.done
  BY <1>3, <1>4 DEF Meta
<1> HIDE DEF m
<1>6. m \in PastMetas
  <2>1. LastFlushed.id \in Past BY <1>3 DEF PastMetas
  <2>2. m.id \in Past BY <1>3, <1>5, <2>1
  <2> QED BY <1>3, <1>5, <2>2 DEF PastMetas
<1>7. m.id <= LastFlushed.id /\ Same(m, LastFlushed) /\ ~m.unsynced /\ mti' = LastFlushed.id
      /\ mti' \in Past
  BY <1>1, <1>3, <1>5 DEF Same, PastMetas
<1>8. /\ NoCalls' /\ TypeOK' /\ StampInv' /\ SlotInv' /\ RecoveryInv' /\ LastFlushed' = LastFlushed
      /\ \A f \in Files' : f[Slot(m.id)] = m
      /\ \A f \in Files', s \in MetaLocations :
           (f[s] = m /\ s = Slot(m.id)) \/ (s # Slot(m.id) /\ \E g \in Files : f[s] = g[s])
      /\ \A p \in Pages : cache'[p] = cache[p] /\ disk'[p] = disk[p]
      /\ cache' = [cache EXCEPT ![Slot(m.id)] = m] /\ disk' = [disk EXCEPT ![Slot(m.id)] = m]
  <2>1. env' \in {"open", "rollback"} /\ (env' = "rollback" => m = LastFlushed) BY <1>1
  <2> QED BY <1>1, <1>2, <1>3, <1>5, <1>6, <1>7, <2>1, PutKeeps
<1> DEFINE s0 == Slot(LastFlushed.id)
           s1 == Slot(m.id)
<1>9. s0 \in Metas /\ s1 \in Metas /\ s0 # s1 /\ \A s \in Metas : s = s0 \/ s = s1
  <2>1. m.id \in Nat /\ LastFlushed.id = m.id + 1 BY <1>3, <1>4, <1>5
  <2>2. s0 \in Metas /\ s1 \in Metas /\ s0 # s1 BY <2>1, SlotFacts
  <2> QED BY <2>2 DEF Metas
<1>10. \A g \in Files : g[s0] = LastFlushed
  BY <1>1, <1>2 DEF IInv, RecoveryInv, FlushedInv
<1> HIDE DEF s0, s1
<1>11. s0 \in MetaLocations /\ Metas = {0, 1} BY <1>9, LocationFacts DEF Metas
<1>12. \A f \in Files' : f[s1] = m /\ f[s0] = LastFlushed
  <2>1. \A f \in Files' : f[s1] = m BY <1>8 DEF s1
  <2>2. \A f \in Files' : \E g \in Files : f[s0] = g[s0] BY <1>8, <1>9, <1>11 DEF s1
  <2> QED BY <1>10, <2>1, <2>2
<1>13. cache'[s1] = m /\ cache'[s0] = LastFlushed BY <1>12 DEF Files
<1>14. Base' = LastFlushed BY <1>7, <1>13 DEF Base, s0
<1>15. Latest(cache)' = LastFlushed
  <2>1. Latest(cache)' = IF cache'[0].id >= cache'[1].id THEN cache'[0] ELSE cache'[1]
    BY DEF Latest, Newer
  <2>2. LastFlushed.id >= m.id /\ ~(m.id >= LastFlushed.id) BY <1>3, <1>5
  <2>3. CASE s0 = 0
    <3>1. s1 = 1 BY <1>9, <1>11, <2>3
    <3> QED BY <1>13, <2>1, <2>2, <2>3, <3>1
  <2>4. CASE s0 = 1
    <3>1. s1 = 0 BY <1>9, <1>11, <2>4
    <3> QED BY <1>13, <2>1, <2>2, <2>4, <3>1
  <2> QED BY <1>9, <1>11, <2>3, <2>4
<1>16. \A f \in Files', s \in Metas :
         f[s].id <= mti' /\ (f[s].id = mti' => Same(f[s], LastFlushed))
  <2>1. LastFlushed.id <= mti' /\ m.id <= mti' /\ Same(m, LastFlushed) /\ Same(LastFlushed, LastFlushed)
    BY <1>3, <1>7 DEF Same
  <2> QED BY <1>9, <1>12, <2>1
<1>17. LastFlushed \in Keyed /\ Intact(LastFlushed, cache)
  BY <1>2 DEF IInv, RecoveryInv, Chosen
<1>18. Intact(LastFlushed, cache') BY <1>8, <1>17 DEF Intact
<1>19. Same(LastFlushed, LastFlushed) BY DEF Same
<1> QED BY <1>1, <1>7, <1>8, <1>14, <1>15, <1>16, <1>17, <1>18, <1>19, OpenedKeeps

\* No rollback: the newest meta is the flushed one, or all are flushed.
LEMMA OpenLatestKeeps == ASSUME IInv, OpenLatest PROVE IInv'
<1> DEFINE m == Latest(cache)
<1>1. /\ env = "down" /\ (Overlapping => m.id = Safe(cache).id) /\ env' = "open" /\ mti' = m.id
      /\ UNCHANGED <<cache, disk, synced, pgoldest, wtxn, syncer, reader, stamp, crashes, acked>>
  BY DEF OpenLatest
<1>2. /\ NoCalls /\ Past = 0 .. stamp
      /\ Overlapping =>
           /\ Safe(cache) = LastFlushed /\ LastFlushed \in Meta /\ LastFlushed.id \in Nat
           /\ LastFlushed.id > 0
  BY <1>1, DownFacts
<1>3. /\ m \in {cache[0], cache[1]} /\ m \in Meta /\ m.id \in Nat /\ m.id \in Ids
      /\ \A s \in Metas : cache[s].id <= m.id
  BY Latests, MetaFields DEF IInv, Files
<1>4. /\ cache[0] \in Meta /\ cache[1] \in Meta /\ 0 \in Metas /\ 1 \in Metas /\ Metas = {0, 1}
      /\ Metas \subseteq MetaLocations /\ cache \in Files /\ disk \in Files
  BY TypedFiles, LocationFacts DEF IInv, Files, Metas
<1>5. cache[0].id \in Nat /\ cache[1].id \in Nat BY <1>4, MetaFields
<1>6. m = IF cache[0].id >= cache[1].id THEN cache[0] ELSE cache[1] BY DEF Latest, Newer
<1> HIDE DEF m
<1>7. cache[Slot(m.id)] = m
  <2>1. CASE m.id > 0 BY <1>3, <1>4, <2>1 DEF IInv, SlotInv
  <2>2. CASE m.id = 0
    <3>1. cache[0].id = 0 /\ cache[1].id = 0 BY <1>3, <1>4, <1>5, <2>2
    <3>2. m = cache[0] BY <1>6, <3>1
    <3>3. Slot(0) = 0 BY DEF Slot
    <3> QED BY <2>2, <3>2, <3>3
  <2> QED BY <1>3, <2>1, <2>2
<1>8. Base' = m /\ Latest(cache)' = m /\ LastFlushed' = LastFlushed /\ Files' = Files
  BY <1>1, <1>7 DEF Base, m, Latest, LastFlushed, Files
<1>9. NoCalls' BY <1>1, <1>2 DEF NoCalls
<1>10. TypeOK' BY <1>1, <1>3 DEF IInv, TypeOK
<1>11. StampInv'
  <2>1. Past' = Past /\ PastMetas' = PastMetas BY <1>1 DEF Past, PastMetas
  <2>2. m \in PastMetas BY <1>3, <1>4 DEF IInv, StampInv
  <2> QED BY <1>1, <1>8, <2>1, <2>2 DEF IInv, StampInv, PastMetas
<1>12. SlotInv' BY <1>1, <1>8 DEF IInv, SlotInv
<1>13. Chosen' = Chosen BY <1>8 DEF Chosen, m
<1>14. RecoveryInv'
  <2>1. \A f \in Files', l \in MetaLocations : f[l] \in Accounted BY <1>8 DEF IInv, RecoveryInv
  <2>2. Overlapping => FlushedInv' BY <1>1, <1>8 DEF IInv, RecoveryInv, FlushedInv
  <2>3. ~Overlapping => SyncedInv' BY <1>1 DEF IInv, RecoveryInv, SyncedInv
  <2>4. Intact(Chosen, cache)' /\ Intact(Chosen, disk)'
    BY <1>1, <1>13 DEF IInv, RecoveryInv, Intact
  <2> QED BY <1>1, <1>13, <2>1, <2>2, <2>3, <2>4, FileAssumption DEF IInv, RecoveryInv
<1>15. Overlapping => LastFlushed.id = m.id /\ Same(LastFlushed, m)
  <2> SUFFICES ASSUME Overlapping PROVE LastFlushed.id = m.id /\ Same(LastFlushed, m) OBVIOUS
  <2>1. LastFlushed.id = m.id BY <1>1, <1>2
  <2>2. Same(m, LastFlushed) BY <1>3, <1>4, <2>1 DEF IInv, RecoveryInv, FlushedInv
  <2> QED BY <2>1, <2>2 DEF Same
<1>16. m \in Keyed /\ Intact(m, cache')
  <2>1. Chosen \in Keyed /\ Intact(Chosen, cache) BY DEF IInv, RecoveryInv
  <2>2. Chosen.id = m.id /\ Same(Chosen, m) BY <1>15, FileAssumption DEF Chosen, m, Same
  <2> QED BY <1>1, <1>3, <2>1, <2>2 DEF Keyed, Same, Intact
<1>17. \A f \in Files', s \in Metas : f[s].id <= mti' /\ (f[s].id = mti' => Same(f[s], m))
  <2> SUFFICES ASSUME NEW f \in Files, NEW s \in Metas
               PROVE  f[s].id <= m.id /\ (f[s].id = m.id => Same(f[s], m))
    BY <1>1, <1>8 DEF m
  <2>1. disk[s].id <= cache[s].id /\ cache[s].id <= m.id BY <1>3 DEF IInv, SlotInv
  <2>2. cache[s].id \in Nat /\ disk[s].id \in Nat BY <1>4, TypedFiles, MetaFields DEF IInv
  <2>3. f[s].id <= m.id /\ f[s].id \in Nat BY <1>3, <2>1, <2>2 DEF Files
  <2>4. ASSUME f[s].id = m.id PROVE Same(f[s], m)
    <3>1. CASE Overlapping
      <4>1. Same(f[s], LastFlushed) BY <1>15, <2>4, <3>1 DEF IInv, RecoveryInv, FlushedInv
      <4> QED BY <1>15, <3>1, <4>1 DEF Same
    <3>2. CASE ~Overlapping
      <4>1. f[s] = cache[s] BY <3>2 DEF IInv, RecoveryInv, SyncedInv, Files
      <4>2. CASE m.id > 0
        <5>1. Slot(f[s].id) = s BY <2>4, <4>2 DEF IInv, SlotInv
        <5> QED BY <1>7, <2>4, <4>1, <5>1 DEF Same
      <4>3. CASE m.id = 0
        <5>1. Same(f[s], EmptyMeta) /\ Same(m, EmptyMeta)
          BY <1>3, <1>4, <2>4, <3>2, <4>1, <4>3 DEF IInv, RecoveryInv, SyncedInv
        <5> QED BY <5>1 DEF Same
      <4> QED BY <1>3, <4>2, <4>3
    <3> QED BY <3>1, <3>2, FileAssumption
  <2> QED BY <2>3, <2>4
<1>18. mti' = m.id BY <1>1 DEF m
<1> QED BY <1>1, <1>8, <1>9, <1>10, <1>11, <1>12, <1>14, <1>15, <1>16, <1>17, <1>18, OpenedKeeps

-----------------------------------------------------------------------------
(* The initial states. *)

\* The metas of the first transaction, before and after it was flushed.
LEMMA FirstMetaFields ==
  /\ FirstMeta \in Meta /\ FirstMeta.id = 1 /\ FirstMeta.last = 2 /\ FirstMeta.done = {1}
  /\ FirstMeta.unsynced = Overlapping
  /\ \A p \in Pages : FirstMeta.tree[p] = IF p = 2 THEN 1 ELSE 0
  /\ \A k \in Ids : FirstMeta.free[k] = {}
<1> DEFINE tree == [EmptyMeta.tree EXCEPT ![2] = 1]
<1>1. 2 \in Pages /\ 1 \in Stamps /\ 1 \in Ids /\ 2 \in 1 .. LastPage
  BY FileAssumption DEF Pages, Stamps, Ids
<1>2. EmptyMeta \in Meta /\ EmptyMeta.tree \in [Pages -> Stamps] BY EmptyMetaFields, MetaFields
<1>3. tree \in [Pages -> Stamps] /\ \A p \in Pages : tree[p] = IF p = 2 THEN 1 ELSE 0
  BY <1>1, <1>2, EmptyMetaFields
<1>4. FirstMeta = [EmptyMeta EXCEPT !.id = 1, !.tree = tree, !.last = 2, !.done = {1}]
  BY <1>2 DEF FirstMeta, Meta
<1> HIDE DEF tree
<1>5. /\ FirstMeta \in Meta /\ FirstMeta.id = 1 /\ FirstMeta.last = 2 /\ FirstMeta.done = {1}
      /\ FirstMeta.tree = tree /\ FirstMeta.free = EmptyMeta.free
      /\ FirstMeta.unsynced = EmptyMeta.unsynced
  BY <1>1, <1>2, <1>3, <1>4 DEF Meta
<1> QED BY <1>3, <1>5, EmptyMetaFields

\* A new file, or one whose first transaction was flushed.
LEMMA InitFileIs ==
  ASSUME OneKind
  PROVE  /\ Flushed = Overlapping
         /\ DOMAIN InitFile = Locations
         /\ \A l \in Locations : InitFile[l] \in (IF l \in Pages THEN Stamps ELSE Meta)
         /\ InitFile[0] = EmptyMeta /\ InitFile[1] = (IF Overlapping THEN FirstMeta ELSE EmptyMeta)
         /\ InitFile[FlushedMeta] =
              (IF Overlapping THEN [FirstMeta EXCEPT !.unsynced = FALSE] ELSE EmptyMeta)
         /\ \A p \in Pages : InitFile[p] = (IF Overlapping /\ p = 2 THEN 1 ELSE 0)
<1>1. Flushed = Overlapping BY FileAssumption DEF OneKind
<1>2. 0 \in Locations /\ 1 \in Locations /\ FlushedMeta \in Locations /\ 0 \in Metas /\ 1 \in Metas
      /\ FlushedMeta \notin Metas /\ 0 # 1 /\ Pages \subseteq Locations
      /\ \A p \in Pages : p \notin Metas /\ p # FlushedMeta
  BY LocationFacts DEF MetaLocations, Metas
<1>3. InitFile[0] = EmptyMeta /\ InitFile[1] = (IF Overlapping THEN FirstMeta ELSE EmptyMeta)
  BY <1>1, <1>2 DEF InitFile
<1>4. InitFile[FlushedMeta] = (IF Overlapping THEN [FirstMeta EXCEPT !.unsynced = FALSE] ELSE EmptyMeta)
  BY <1>1, <1>2 DEF InitFile
<1>5. \A p \in Pages : InitFile[p] = (IF Overlapping /\ p = 2 THEN 1 ELSE 0)
  BY <1>1, <1>2 DEF InitFile
<1>6. EmptyMeta \in Meta /\ FirstMeta \in Meta /\ [FirstMeta EXCEPT !.unsynced = FALSE] \in Meta
  <2>1. EmptyMeta \in Meta /\ FirstMeta \in Meta BY EmptyMetaFields, FirstMetaFields
  <2> QED BY <2>1 DEF Meta
<1>7. 0 \in Stamps /\ 1 \in Stamps BY FileAssumption DEF Stamps
<1>8. ASSUME NEW l \in Locations PROVE InitFile[l] \in (IF l \in Pages THEN Stamps ELSE Meta)
  <2>1. CASE l \in Pages BY <1>5, <1>7, <2>1
  <2>2. CASE l \notin Pages
    <3>1. l \in {0, 1, FlushedMeta} BY <2>2, LocationFacts DEF MetaLocations, Metas
    <3> QED BY <1>3, <1>4, <1>6, <2>2, <3>1
  <2> QED BY <2>1, <2>2
<1>9. DOMAIN InitFile = Locations BY DEF InitFile
<1> QED BY <1>1, <1>3, <1>4, <1>5, <1>8, <1>9

\* The invariant holds there.
LEMMA InitIInv == ASSUME OneKind, Init PROVE IInv
<1> DEFINE first == IF Overlapping THEN 1 ELSE 0
           fl == [FirstMeta EXCEPT !.unsynced = FALSE]
<1>1. /\ cache = InitFile /\ disk = InitFile /\ env = "open" /\ mti = first /\ synced = first
      /\ stamp = first /\ acked = (IF Overlapping THEN {1} ELSE {}) /\ pgoldest = 0 /\ crashes = 0
      /\ wtxn = NoTxn /\ syncer = [s \in Syncers |-> NoSync] /\ reader = [r \in Readers |-> NoRead]
  BY InitFileIs DEF Init
<1>2. /\ DOMAIN cache = Locations
      /\ \A l \in Locations : cache[l] \in (IF l \in Pages THEN Stamps ELSE Meta)
      /\ cache[0] = EmptyMeta /\ cache[1] = (IF Overlapping THEN FirstMeta ELSE EmptyMeta)
      /\ cache[FlushedMeta] = (IF Overlapping THEN fl ELSE EmptyMeta)
      /\ \A p \in Pages : cache[p] = (IF Overlapping /\ p = 2 THEN 1 ELSE 0)
  BY <1>1, InitFileIs
<1>3. /\ NoTxn \in Writer /\ NoTxn.pc = "none" /\ NoSync \in Caller /\ NoSync.pc = "idle"
      /\ NoSync.meta = EmptyMeta /\ NoRead \in Reader /\ NoRead.pc = "none"
  BY NoTxnFields, NoSyncFields, EmptyMetaFields, FileAssumption DEF NoRead, Reader, Ids
<1>4. /\ fl \in Meta /\ fl.id = 1 /\ fl.last = 2 /\ fl.done = {1} /\ ~fl.unsynced
      /\ fl.tree = FirstMeta.tree /\ fl.free = FirstMeta.free
  BY FirstMetaFields DEF Meta
<1> HIDE DEF fl
<1>5. \A p \in Pages : p \in Nat /\ p > 1 /\ (p <= 2 => p = 2) BY LocationFacts
<1>6. 1 \in Ids /\ 0 \in Ids /\ 1 \in Stamps /\ 0 \in Stamps BY FileAssumption DEF Ids, Stamps
<1>7. EmptyMeta \in Accounted /\ EmptyMeta \in Keyed BY EmptyMetaAccounted
<1>8. FirstMeta \in Accounted /\ FirstMeta \in Keyed
  <2>1. \A p \in Pages : FirstMeta.tree[p] # 0 => p <= FirstMeta.last BY FirstMetaFields
  <2>2. \A p \in Pages, j \in Ids : p \notin FirstMeta.free[j] BY FirstMetaFields
  <2>3. \A p \in Pages : p <= FirstMeta.last => FirstMeta.tree[p] # 0 BY <1>5, FirstMetaFields
  <2>4. FirstMeta \in Accounted BY <2>1, <2>2, <2>3, FirstMetaFields DEF Accounted
  <2> QED BY <2>4, FirstMetaFields DEF Keyed
<1>9. fl \in Accounted /\ fl \in Keyed
  BY <1>4, <1>8, FirstMetaFields DEF Accounted, Keyed
<1>10. /\ Past = 0 .. first /\ 0 \in Past /\ first \in Past
       /\ first \in Ids /\ first \in Stamps /\ first \in Nat
  BY <1>1, <1>3, <1>6 DEF Past
<1>11. EmptyMeta \in PastMetas BY <1>10, EmptyMetaFields DEF PastMetas
<1>12. Overlapping => FirstMeta \in PastMetas /\ fl \in PastMetas
  BY <1>4, <1>10, FirstMetaFields DEF PastMetas
<1>13. MetaLocations = {0, 1, FlushedMeta} /\ Metas = {0, 1} BY DEF MetaLocations, Metas
<1>14. \A l \in MetaLocations : cache[l] \in PastMetas /\ cache[l] \in Accounted
  BY <1>2, <1>7, <1>8, <1>9, <1>11, <1>12, <1>13
<1>15. Files = {cache} BY <1>1 DEF Files
<1>16. TypeOK
  <2>1. crashes \in 0 .. MaxCrashes /\ acked \subseteq Stamps BY <1>1, <1>6, FileAssumption
  <2>2. \A f \in {cache, disk} :
          /\ DOMAIN f = Locations
          /\ \A l \in Locations : f[l] \in (IF l \in Pages THEN Stamps ELSE Meta)
    BY <1>1, <1>2
  <2>3. mti \in Ids /\ synced \in Ids /\ pgoldest \in Ids /\ stamp \in Stamps BY <1>1, <1>6, <1>10
  <2>4. wtxn \in Writer /\ syncer \in [Syncers -> Caller] /\ reader \in [Readers -> Reader]
    BY <1>1, <1>3
  <2> QED BY <1>1, <2>1, <2>2, <2>3, <2>4 DEF TypeOK, Writer, Caller, Reader
<1>17. StampInv
  BY <1>1, <1>3, <1>10, <1>11, <1>14, <1>15 DEF StampInv
<1>18. SlotInv
  <2>1. Slot(1) = 1 BY DEF Slot
  <2>2. \A s \in Metas : cache[s].id \in {0, 1} /\ (cache[s].id = 1 => s = 1)
    BY <1>2, <1>13, EmptyMetaFields, FirstMetaFields
  <2>3. \A s \in Metas : cache[s].id > 0 => Slot(cache[s].id) = s BY <2>1, <2>2
  <2>4. \A s \in Metas : disk[s].id <= cache[s].id BY <1>1, <2>2
  <2> QED BY <1>15, <2>3, <2>4 DEF SlotInv
<1>19. Base = (IF Overlapping THEN FirstMeta ELSE EmptyMeta) /\ LastFlushed = cache[FlushedMeta]
       /\ Latest(cache) = Base
  <2>1. Slot(1) = 1 /\ Slot(0) = 0 BY DEF Slot
  <2>2. Base = (IF Overlapping THEN FirstMeta ELSE EmptyMeta) BY <1>1, <1>2, <2>1 DEF Base
  <2>3. Latest(cache) = (IF Overlapping THEN FirstMeta ELSE EmptyMeta)
    BY <1>2, EmptyMetaFields, FirstMetaFields DEF Latest, Newer
  <2> QED BY <2>2, <2>3 DEF LastFlushed
<1>20. /\ Intact(Base, cache) /\ Base \in Accounted /\ Base \in Keyed /\ Base.id = first
       /\ Base \in Meta /\ Base.done = acked /\ Base.done \subseteq Past
  <2>1. CASE Overlapping
    <3>1. Base = FirstMeta BY <1>19, <2>1
    <3> QED BY <1>1, <1>2, <1>8, <1>10, <2>1, <3>1, FirstMetaFields DEF Intact
  <2>2. CASE ~Overlapping
    <3>1. Base = EmptyMeta BY <1>19, <2>2
    <3> QED BY <1>1, <1>2, <1>7, <2>2, <3>1, EmptyMetaFields DEF Intact
  <2> QED BY <2>1, <2>2, FileAssumption
<1>21. /\ Chosen \in Meta /\ Same(Chosen, Base) /\ Chosen \in Keyed /\ Chosen.id = first
       /\ Chosen.done = acked /\ (Overlapping => Chosen = fl)
  <2>1. CASE Overlapping
    <3>1. Chosen = fl /\ Base = FirstMeta BY <1>2, <1>19, <2>1 DEF Chosen, LastFlushed
    <3> QED BY <1>1, <1>4, <1>9, <2>1, <3>1, FirstMetaFields DEF Same
  <2>2. CASE ~Overlapping BY <1>19, <1>20, <2>2 DEF Chosen, Same
  <2> QED BY <2>1, <2>2, FileAssumption
<1>22. RecoveryInv
  <2>1. Intact(Chosen, cache) /\ Intact(Chosen, disk) BY <1>1, <1>20, <1>21 DEF Intact, Same
  <2>2. CASE Overlapping
    <3>1. LastFlushed = fl BY <1>2, <2>2 DEF LastFlushed
    <3>2. \A s \in Metas : cache[s].unsynced BY <1>2, <1>13, <2>2, EmptyMetaFields, FirstMetaFields
    <3>3. \A s \in Metas : cache[s].id = 1 => Same(cache[s], fl)
      BY <1>2, <1>4, <1>13, <2>2, EmptyMetaFields, FirstMetaFields DEF Same
    <3>4. FlushedInv BY <1>1, <1>4, <1>15, <3>1, <3>2, <3>3 DEF FlushedInv, LastFlushed
    <3> QED BY <1>14, <1>15, <1>21, <2>1, <2>2, <3>4 DEF RecoveryInv
  <2>3. CASE ~Overlapping
    <3>1. \A s \in Metas : cache[s] = EmptyMeta BY <1>2, <1>13, <2>3
    <3>2. SyncedInv BY <1>1, <1>7, <3>1 DEF SyncedInv, Same
    <3> QED BY <1>14, <1>15, <1>21, <2>1, <2>3, <3>2 DEF RecoveryInv
  <2> QED BY <2>2, <2>3, FileAssumption
<1>23. \A m \in Meta : m.id = first /\ Same(m, Base) => m \in Held
  <2> SUFFICES ASSUME NEW m \in Meta, m.id = first, Same(m, Base) PROVE m \in Held OBVIOUS
  <2>1. Intact(m, cache) BY <1>20 DEF Intact, Same
  <2>2. Keeps(m, Base) BY <1>20 DEF Keeps, Accounted, Same
  <2> QED BY <1>1, <1>3, <1>10, <2>1, <2>2 DEF Held
<1>24. OpenInv
  <2>1. Base \in Held BY <1>20, <1>23 DEF Same
  <2>2. \A s \in Metas : cache[s].id <= first /\ (cache[s].id = first => Same(cache[s], Base))
    BY <1>2, <1>13, <1>19, EmptyMetaFields, FirstMetaFields, FileAssumption DEF Same
  <2>3. ASSUME Overlapping
        PROVE  synced <= LastFlushed.id /\ LastFlushed \in Held /\ LastFlushed.done \in Prefixes
    <3>1. LastFlushed = Chosen BY <2>3 DEF Chosen
    <3>2. LastFlushed \in Held BY <1>21, <1>23, <3>1
    <3>3. Base.done \in {{t \in Base.done : t <= k} : k \in Past} BY <1>10, <1>20, WholePrefix
    <3>4. LastFlushed.done \in Prefixes BY <1>20, <1>21, <3>1, <3>3 DEF Prefixes
    <3> QED BY <1>1, <1>10, <1>21, <3>1, <3>2, <3>4
  <2> QED BY <1>1, <1>15, <1>19, <1>20, <2>1, <2>2, <2>3 DEF OpenInv
<1>25. TxnInv BY <1>1, <1>3 DEF TxnInv
<1>26. CallInv /\ FlushInv BY <1>1, <1>3 DEF CallInv, FlushInv
<1>27. ReaderInv BY <1>1, <1>3 DEF ReaderInv
<1> QED BY <1>16, <1>17, <1>18, <1>22, <1>24, <1>25, <1>26, <1>27 DEF IInv

-----------------------------------------------------------------------------
(* Every step. *)

\* Every step keeps the invariant.
LEMMA StepIInv == ASSUME OneKind, IInv, [Next]_vars PROVE IInv'
<1>1. CASE WriterStep
  <2>1. CASE \E nosync \in NoSyncs : mdb_txn_begin(nosync) BY <2>1, TxnBeginKeeps
  <2>2. CASE mdb_page_touch \/ mdb_page_new BY <2>2, PageStepKeeps
  <2>3. CASE mdb_txn_end \/ CommitFails BY <2>3, TxnEndKeeps
  <2>4. CASE mdb_page_flush BY <2>4, PageFlushKeeps
  <2>5. CASE mdb_env_write_meta BY <2>5, WriteMetaKeeps
  <2> QED BY <1>1, <2>1, <2>2, <2>3, <2>4, <2>5 DEF WriterStep
<1>2. CASE SyncStep BY <1>2, SyncCallKeeps, SyncEndKeeps, SyncStartKeeps, SyncWriteKeeps DEF SyncStep
<1>3. CASE ReadStep BY <1>3, ReadStepKeeps
<1>4. CASE Recover BY <1>4, RollbackKeeps, RolledBackKeeps, OpenLatestKeeps DEF Recover
<1>5. CASE \E l \in Locations : WriteBack(l) BY <1>5, WriteBackKeeps
<1>6. CASE \E machine \in BOOLEAN : Crash(machine) BY <1>6, CrashKeeps
<1>7. CASE UNCHANGED vars
  <2>1. /\ UNCHANGED storeVars /\ UNCHANGED <<syncer, reader, acked>>
    BY <1>7 DEF vars, storeVars
  <2>2. /\ Held' = Held /\ Base' = Base /\ LastFlushed' = LastFlushed /\ Past' = Past
        /\ PastMetas' = PastMetas /\ Prefixes' = Prefixes /\ Latest(cache)' = Latest(cache)
        /\ SlotInv' /\ TxnInv'
    BY <2>1, Unaffected
  <2>3. acked' \subseteq Chosen.done BY <2>1 DEF IInv, RecoveryInv
  <2>4. TypeOK' BY <2>1 DEF IInv, TypeOK, storeVars
  <2>5. StampInv' BY <2>1, <2>2 DEF IInv, StampInv, storeVars, Files
  <2>6. OpenInv' BY <2>1, <2>2 DEF IInv, OpenInv, storeVars, Files, Same
  <2> QED BY <2>1, <2>2, <2>3, <2>4, <2>5, <2>6, RecoverySame, CallSame, ReaderSame DEF IInv
<1> QED BY <1>1, <1>2, <1>3, <1>4, <1>5, <1>6, <1>7 DEF Next

-----------------------------------------------------------------------------
(* The theorems, for commits of one kind. *)

\* In every state of a file, an environment and its processes the invariant holds: what
\* an opener would go on with, the metas in use and the open transaction's free list
\* stay as mdb_page_alloc, mdb_txn_commit and mdb_env_sync0 rely on.
THEOREM InvariantCorrect == ASSUME OneKind PROVE Spec => []IInv
<1>1. Init => IInv BY InitIInv
<1>2. IInv /\ [Next]_vars => IInv' BY StepIInv
<1> QED BY <1>1, <1>2, PTL DEF Spec

\* Every variable keeps its type; a transaction's number never passes the bound on ids.
THEOREM TypeCorrect == ASSUME OneKind PROVE Spec => []TypeOK
<1>1. IInv => TypeOK BY DEF IInv
<1> QED BY <1>1, InvariantCorrect, PTL

\* Whenever the process or the machine stops, mdb_env_open finds a transaction all of
\* whose pages are in the file: mdb_page_alloc reuses no page of the one that was
\* flushed last, however far the writers have gone on.
THEOREM RecoveryCorrect == ASSUME OneKind PROVE Spec => []RecoveryIntact
<1>1. IInv => RecoveryIntact BY Recovers DEF IInv, RecoveryInv, RecoveryIntact, Files
<1> QED BY <1>1, InvariantCorrect, PTL

\* What mdb_env_sync, or a synchronous commit, reported to be durable is in the
\* transaction that mdb_env_open finds.
THEOREM AckCorrect == ASSUME OneKind PROVE Spec => []AckSurvives
<1>1. IInv => AckSurvives BY Recovers DEF IInv, RecoveryInv, AckSurvives, Files
<1> QED BY <1>1, InvariantCorrect, PTL

\* No page of an open read transaction's snapshot is written again: mdb_find_oldest
\* never passes the id in its slot, nor does an id that me_pgoldest remembers.
THEOREM ReaderCorrect == ASSUME OneKind PROVE Spec => []ReaderIntact
<1>1. IInv => ReaderIntact BY DEF IInv, ReaderInv, ReaderIntact, ReadsMeta, Held
<1> QED BY <1>1, InvariantCorrect, PTL

\* mdb_freelist_save neither loses a page nor records one twice: in what the next
\* transaction starts from, every page is in the tree or in one record.
THEOREM PagesCorrect == ASSUME OneKind PROVE Spec => []PagesAccounted
<1>1. IInv => PagesAccounted
  <2> SUFFICES ASSUME IInv, NEW m \in {Latest(cache), Recovered(cache)}, NEW p \in Pages
               PROVE  Cardinality({k \in Ids : p \in m.free[k]})
                        = (IF p <= m.last /\ m.tree[p] = 0 THEN 1 ELSE 0)
    BY DEF PagesAccounted
  <2>1. Recovered(cache) = Chosen BY Recovers DEF IInv, Files
  <2>2. m \in {cache[0], cache[1], cache[FlushedMeta]}
    BY <2>1, Latests DEF IInv, Files, Chosen, LastFlushed
  <2>3. m \in Accounted
    <3>1. 0 \in MetaLocations /\ 1 \in MetaLocations /\ FlushedMeta \in MetaLocations
      BY LocationFacts DEF Metas
    <3> QED BY <2>2, <3>1 DEF IInv, RecoveryInv, Files
  <2> DEFINE S == {k \in Ids : p \in m.free[k]}
  <2>4. CASE p <= m.last /\ m.tree[p] = 0
    <3>1. PICK j \in Ids : p \in m.free[j] BY <2>3, <2>4 DEF Accounted
    <3>2. S = {j} BY <2>3, <3>1 DEF Accounted
    <3>3. Cardinality(S) = 1 BY <3>2, FS_Singleton
    <3> QED BY <2>4, <3>3
  <2>5. CASE ~(p <= m.last /\ m.tree[p] = 0)
    <3>1. S = {} BY <2>3, <2>5 DEF Accounted
    <3>2. Cardinality(S) = 0 BY <3>1, FS_EmptySet
    <3> QED BY <2>5, <3>2
  <2> QED BY <2>4, <2>5
<1> QED BY <1>1, InvariantCorrect, PTL

-----------------------------------------------------------------------------
(* The environment implements DurableStore. *)

\* What is visible: the transactions of the base or of what an opener goes on with.
Current == (IF env = "open" THEN cache[Slot(mti)] ELSE Recovered(cache)).done

\* What is visible in a state of the invariant, and what is reported to be durable in it.
LEMMA CurrentIs ==
  ASSUME IInv
  PROVE  /\ Current = (IF env = "open" THEN Base ELSE Chosen).done
         /\ Current \subseteq Past /\ Past \subseteq Stamps /\ acked \subseteq Current
         /\ Overlapping => LastFlushed.done \in {{t \in Current : t <= n} : n \in Past}
<1>1. Current = (IF env = "open" THEN Base ELSE Chosen).done
  BY Recovers DEF IInv, Files, Current, Base
<1>2. Past \subseteq Stamps
  <2>1. stamp \in 0 .. MaxTxns /\ MaxTxns \in Nat BY FileAssumption DEF IInv, TypeOK, Stamps
  <2>2. Past \subseteq 0 .. stamp BY <2>1 DEF Past
  <2> QED BY <2>1, <2>2 DEF Stamps
<1>3. acked \subseteq Chosen.done BY DEF IInv, RecoveryInv
<1>4. \A l \in MetaLocations : cache[l].done \subseteq Past BY DEF IInv, StampInv, Files, PastMetas
<1>5. 0 \in MetaLocations /\ 1 \in MetaLocations /\ FlushedMeta \in MetaLocations
  BY LocationFacts DEF Metas
<1>6. CASE env = "open"
  <2>1. Slot(mti) \in MetaLocations /\ cache[Slot(mti)] = Base BY <1>6, NewestIsBase, LocationFacts
  <2>2. Base.done \subseteq Past BY <1>4, <2>1
  <2>3. CASE Overlapping
    <3>1. LastFlushed.done \in Prefixes BY <1>6, <2>3 DEF IInv, OpenInv
    <3>2. Chosen.done \subseteq Base.done BY <1>6, <2>3, FlushedPrefix
    <3> QED BY <1>1, <1>2, <1>3, <1>6, <2>2, <3>1, <3>2 DEF Prefixes
  <2>4. CASE ~Overlapping
    <3>1. Chosen = Base BY <1>6, <2>4 DEF IInv, OpenInv, Chosen
    <3> QED BY <1>1, <1>2, <1>3, <1>6, <2>2, <2>4, <3>1
  <2> QED BY <2>3, <2>4, FileAssumption
<1>7. CASE env # "open"
  <2>1. Chosen \in {cache[0], cache[1], cache[FlushedMeta]}
    BY Latests DEF IInv, Files, Chosen, LastFlushed
  <2>2. Chosen.done \subseteq Past BY <1>4, <1>5, <2>1
  <2>3. ASSUME Overlapping PROVE LastFlushed.done \in {{t \in Current : t <= n} : n \in Past}
    <3>1. Current = LastFlushed.done BY <1>1, <1>7, <2>3 DEF Chosen
    <3>2. stamp \in Nat /\ Past = 0 .. stamp BY <1>7, DownFacts
    <3>3. Current \in SUBSET Past BY <2>2, <1>1, <1>7
    <3> QED BY <3>1, <3>2, <3>3, WholePrefix
  <2> QED BY <1>1, <1>2, <1>3, <1>7, <2>2, <2>3
<1> QED BY <1>6, <1>7

\* The steps that neither write a meta page nor start or end a process.
LEMMA SameCurrent ==
  ASSUME IInv, UNCHANGED <<env, mti>>, \A l \in MetaLocations : cache'[l] = cache[l]
  PROVE  Current' = Current
<1>1. 0 \in MetaLocations /\ 1 \in MetaLocations /\ FlushedMeta \in MetaLocations
  BY LocationFacts DEF Metas
<1>2. mti \in Nat BY FileAssumption DEF IInv, TypeOK, Ids
<1>3. Slot(mti) \in MetaLocations BY <1>2, SlotFacts, LocationFacts
<1>4. Recovered(cache)' = Recovered(cache) BY <1>1 DEF Recovered, Safe, Latest
<1>5. cache'[Slot(mti')] = cache[Slot(mti)] BY <1>3
<1> QED BY <1>4, <1>5 DEF Current

\* A commit adds the last transaction begun.
LEMMA CommitStep ==
  ASSUME IInv, mdb_env_write_meta
  PROVE  /\ stamp \in Stamps /\ \A u \in Current : u < stamp
         /\ Current' = Current \cup {stamp} /\ acked' \in {acked, acked \cup {stamp}}
<1>1. /\ wtxn.pc = "flushed" /\ mti' = wtxn.meta.id /\ env' = env
      /\ cache' = [cache EXCEPT ![Slot(wtxn.meta.id)] = wtxn.meta]
      /\ acked' = IF wtxn.nosync THEN acked ELSE acked \cup {wtxn.stamp}
  BY DEF mdb_env_write_meta
<1>2. /\ env = "open" /\ wtxn.stamp = stamp /\ wtxn.meta.done = Base.done \cup {stamp}
      /\ wtxn.meta.id \in Nat /\ stamp \in Nat /\ stamp \in Stamps
  <2>1. wtxn.meta \in Meta BY DEF IInv, TypeOK
  <2> QED BY <1>1, <2>1, MetaFields, FileAssumption DEF IInv, TxnInv, TypeOK, Stamps
<1>3. Current = Base.done /\ Current \subseteq Past BY <1>2, CurrentIs
<1>4. Past = 0 .. stamp - 1 BY <1>1 DEF Past
<1>5. \A u \in Current : u < stamp BY <1>2, <1>3, <1>4
<1>6. Slot(wtxn.meta.id) \in DOMAIN cache BY <1>2, SlotFacts, LocationFacts DEF IInv, TypeOK
<1>7. cache'[Slot(mti')] = wtxn.meta BY <1>1, <1>6
<1>8. Current' = Current \cup {stamp} BY <1>1, <1>2, <1>3, <1>7 DEF Current
<1> QED BY <1>1, <1>2, <1>5, <1>8

\* A call of mdb_env_sync reports visible transactions.
LEMMA SyncCurrent ==
  ASSUME IInv, SyncStep
  PROVE  Current' = Current /\ acked \subseteq acked' /\ acked' \subseteq Current
<1>1. PICK s \in Syncers :
        SyncCall(s) \/ SyncSkip(s) \/ SyncStart(s) \/ SyncWriteMeta(s) \/ SyncFails(s)
  BY DEF SyncStep
<1>2. acked \subseteq Current BY CurrentIs
<1>3. CASE SyncCall(s) \/ SyncStart(s) \/ SyncFails(s)
  <2>1. UNCHANGED <<cache, env, mti, acked>> BY <1>3 DEF SyncCall, SyncStart, SyncFails
  <2> QED BY <1>2, <2>1, SameCurrent
<1>4. CASE SyncSkip(s) \/ SyncWriteMeta(s)
  <2>1. /\ UNCHANGED <<env, mti>> /\ syncer[s].pc # "idle" /\ acked' = acked \cup syncer[s].want
    BY <1>4 DEF SyncSkip, SyncWriteMeta
  <2>2. env = "open" /\ syncer[s].want \subseteq Base.done BY <2>1 DEF IInv, CallInv
  <2>3. Current = Base.done BY <2>2, CurrentIs
  <2>4. Current' = Current
    <3>1. CASE SyncSkip(s)
      <4>1. cache' = cache BY <3>1 DEF SyncSkip
      <4> QED BY <2>1, <4>1, SameCurrent
    <3>2. CASE SyncWriteMeta(s)
      <4>1. Slot(mti) \in Metas BY <2>2, NewestIsBase
      <4>2. cache'[Slot(mti)] = cache[Slot(mti)]
        BY <3>2, <4>1, LocationFacts DEF SyncWriteMeta, IInv, TypeOK
      <4> QED BY <2>1, <2>2, <4>2 DEF Current
    <3> QED BY <1>4, <3>1, <3>2
  <2> QED BY <1>2, <2>1, <2>2, <2>3, <2>4
<1> QED BY <1>1, <1>3, <1>4

\* A crash takes the transactions back that were not flushed.
LEMMA CrashCurrent ==
  ASSUME IInv, NEW machine \in BOOLEAN, Crash(machine)
  PROVE  /\ acked' = acked /\ acked \subseteq Current'
         /\ Current' = Current \/ \E n \in Stamps : Current' = {t \in Current : t <= n}
<1>1. env' = "down" /\ cache' \in Files /\ acked' = acked BY DEF Crash, Files
<1>2. Recovered(cache)' = Chosen
  <2>1. Recovered(cache') = Chosen BY <1>1, Recovers DEF IInv
  <2> QED BY <2>1 DEF Recovered, Safe, Latest
<1>3. Current' = Chosen.done BY <1>1, <1>2 DEF Current
<1>4. acked \subseteq Chosen.done BY DEF IInv, RecoveryInv
<1>5. CASE Overlapping
  <2>1. Chosen.done \in {{t \in Current : t <= n} : n \in Past} /\ Past \subseteq Stamps
    BY <1>5, CurrentIs DEF Chosen
  <2> QED BY <1>1, <1>3, <1>4, <2>1
<1>6. CASE ~Overlapping
  <2>1. Current = Chosen.done
    <3>1. env = "open" => Base = Chosen BY <1>6 DEF IInv, OpenInv, Chosen
    <3> QED BY <3>1, CurrentIs
  <2> QED BY <1>1, <1>3, <1>4, <2>1
<1> QED BY <1>5, <1>6, FileAssumption

\* An opener makes what it goes on with visible, and nothing else.
LEMMA RecoverCurrent ==
  ASSUME IInv, IInv', Recover
  PROVE  Current' = Current /\ acked' = acked
<1>1. acked' = acked /\ env # "open" BY DEF Recover, OpenRollback, OpenRolledBack, OpenLatest
<1>2. Current = Chosen.done BY <1>1, CurrentIs
<1>3. mti' \in Nat /\ cache' \in Files' BY FileAssumption DEF IInv, TypeOK, Ids, Files
<1>4. Slot(mti') \in Metas BY <1>3, SlotFacts
<1>5. ASSUME Overlapping, env' = "open", LastFlushed'.id = mti' PROVE Current' = LastFlushed'.done
  <2>1. cache'[Slot(mti')].id = mti' BY <1>5 DEF IInv, OpenInv, Base
  <2>2. \A f \in Files', s \in Metas : f[s].id = LastFlushed'.id => Same(f[s], LastFlushed')
    BY <1>5 DEF IInv, RecoveryInv, FlushedInv, Same
  <2>3. Same(cache'[Slot(mti')], LastFlushed') BY <1>3, <1>4, <1>5, <2>1, <2>2
  <2> QED BY <1>5, <2>3 DEF Current, Same
<1>6. CASE OpenRollback \/ OpenRolledBack
  <2>1. Overlapping
    BY <1>6, FileAssumption DEF OpenRollback, OpenRolledBack, IInv, RecoveryInv, SyncedInv
  <2>2. /\ Safe(cache) = LastFlushed /\ LastFlushed \in Meta
        /\ LastFlushed.id \in Nat /\ LastFlushed.id > 0
    BY <1>1, <2>1, DownFacts
  <2>3. LastFlushed' = LastFlushed
    <3>1. FlushedMeta # Slot(LastFlushed.id) /\ FlushedMeta # Slot(LastFlushed.id - 1)
      <4>1. LastFlushed.id - 1 \in Nat BY <2>2
      <4> QED BY <2>2, <4>1, SlotFacts, LocationFacts
    <3>2. FlushedMeta \in DOMAIN cache BY LocationFacts DEF IInv, TypeOK
    <3>3. CASE OpenRollback BY <2>2, <3>1, <3>2, <3>3 DEF OpenRollback, PutMeta, LastFlushed
    <3>4. CASE OpenRolledBack
      <4> DEFINE m == [Safe(cache) EXCEPT !.id = @ - 1]
      <4>1. cache' = [cache EXCEPT ![Slot(m.id)] = m] BY <3>4 DEF OpenRolledBack, PutMeta
      <4>2. m.id = LastFlushed.id - 1 BY <2>2 DEF Meta
      <4> HIDE DEF m
      <4> QED BY <3>1, <3>2, <4>1, <4>2 DEF LastFlushed
    <3> QED BY <1>6, <3>3, <3>4
  <2>4. CASE OpenRollback
    <3>1. env' = "rollback" BY <2>4 DEF OpenRollback
    <3>2. \A l \in MetaLocations : cache'[l] \in Meta BY <1>3 DEF IInv, StampInv, PastMetas
    <3>3. FlushedInv' BY <2>1 DEF IInv, RecoveryInv
    <3>4. /\ ~cache'[FlushedMeta].unsynced /\ cache'[FlushedMeta].id > 0
          /\ \A s \in Metas : cache'[s].unsynced \/ cache'[s].id <= cache'[FlushedMeta].id
      BY <1>3, <3>3 DEF FlushedInv, LastFlushed
    <3>5. Safe(cache') = cache'[FlushedMeta] BY <3>2, <3>4, SafeIsFlushed
    <3>6. Recovered(cache)' = LastFlushed' BY <2>1, <3>5 DEF Recovered, Safe, LastFlushed
    <3> QED BY <1>1, <1>2, <2>1, <2>3, <3>1, <3>6 DEF Current, Chosen
  <2>5. CASE OpenRolledBack
    <3>1. env' = "open" /\ mti' = LastFlushed.id BY <2>2, <2>5 DEF OpenRolledBack
    <3>2. Current' = LastFlushed'.done BY <1>5, <2>1, <2>3, <3>1
    <3> QED BY <1>1, <1>2, <2>1, <2>3, <3>2 DEF Chosen
  <2> QED BY <1>6, <2>4, <2>5
<1>7. CASE OpenLatest
  <2>1. env' = "open" /\ mti' = Latest(cache).id /\ cache' = cache BY <1>7 DEF OpenLatest
  <2>2. LastFlushed' = LastFlushed /\ Latest(cache)' = Latest(cache) BY <2>1 DEF LastFlushed, Latest
  <2>3. CASE Overlapping
    <3>1. Safe(cache) = LastFlushed BY <1>1, <2>3, DownFacts
    <3>2. LastFlushed'.id = mti' BY <1>7, <2>1, <2>2, <2>3, <3>1 DEF OpenLatest
    <3> QED BY <1>1, <1>2, <1>5, <2>1, <2>2, <2>3, <3>2 DEF Chosen
  <2>4. CASE ~Overlapping
    <3>1. cache'[Slot(mti')] = Latest(cache) BY <2>1, <2>2 DEF IInv, OpenInv, Base
    <3> QED BY <1>1, <1>2, <2>1, <2>4, <3>1 DEF Current, Chosen
  <2> QED BY <2>3, <2>4, FileAssumption
<1> QED BY <1>6, <1>7 DEF Recover

\* Each step is one of DurableStore, or changes nothing that it sees.
LEMMA StoreStep ==
  ASSUME OneKind, IInv, IInv', [Next]_vars
  PROVE  \/ Current' = Current /\ acked' = acked
         \/ Current' = Current /\ acked \subseteq acked' /\ acked' \subseteq Current
         \/ \E t \in Stamps : /\ \A u \in Current : u < t
                              /\ Current' = Current \cup {t} /\ acked' \in {acked, acked \cup {t}}
         \/ \E n \in Stamps : /\ Current' = {t \in Current : t <= n} /\ acked \subseteq Current'
                              /\ acked' = acked
<1>1. CASE mdb_env_write_meta BY <1>1, CommitStep
<1>2. CASE SyncStep BY <1>2, SyncCurrent
<1>3. CASE \E machine \in BOOLEAN : Crash(machine) BY <1>3, CrashCurrent
<1>4. CASE Recover BY <1>4, RecoverCurrent
<1>5. CASE mdb_page_flush
  <2>1. UNCHANGED <<env, mti, acked>> BY <1>5 DEF mdb_page_flush
  <2>2. \A l \in MetaLocations : cache'[l] = cache[l]
    BY <1>5, LocationFacts DEF mdb_page_flush, TxnPages
  <2> QED BY <2>1, <2>2, SameCurrent
<1>6. CASE \/ \E nosync \in NoSyncs : mdb_txn_begin(nosync)
           \/ mdb_page_touch \/ mdb_page_new \/ mdb_txn_end \/ CommitFails
           \/ ReadStep \/ (\E l \in Locations : WriteBack(l)) \/ UNCHANGED vars
  <2>1. UNCHANGED <<cache, env, mti, acked>>
    BY <1>6 DEF mdb_txn_begin, mdb_page_touch, mdb_page_new, WritePage, mdb_txn_end, CommitFails,
                ReadStep, ReaderLoad, ReaderStore, ReaderRetry, ReaderOpen, ReaderCopy, ReaderEnd,
                ReaderStep, WriteBack, vars
  <2> QED BY <2>1, SameCurrent
<1> QED BY <1>1, <1>2, <1>3, <1>4, <1>5, <1>6 DEF Next, WriterStep

\* The environment implements DurableStore: transactions take effect one after another,
\* and a crash at any step, of the process or of the machine, takes back the last of
\* them only, never one that was reported to be durable.
THEOREM StoreCorrect == ASSUME OneKind PROVE Spec => ImplementsStore
<1>1. IInv => Store!Init
  <2> SUFFICES ASSUME IInv PROVE Store!Init OBVIOUS
  <2>1. Current \in SUBSET Stamps /\ acked \in SUBSET Current BY CurrentIs
  <2> QED BY <2>1 DEF Store!Init, Current
<1>2. IInv /\ IInv' /\ [Next]_vars => [Store!Next]_<<Current, acked>>
  <2> SUFFICES ASSUME IInv, IInv', [Next]_vars
               PROVE  (Current' = Current /\ acked' = acked) \/ Store!Next
    OBVIOUS
  <2>1. CASE Current' = Current /\ acked \subseteq acked' /\ acked' \subseteq Current
    BY <2>1 DEF Store!Next, Store!Flush, Current
  <2>2. ASSUME NEW t \in Stamps, \A u \in Current : u < t, Current' = Current \cup {t},
               acked' \in {acked, acked \cup {t}}
        PROVE  Store!Next
    <3>1. Store!Commit(t) BY <2>2 DEF Store!Commit, Current
    <3> QED BY <3>1 DEF Store!Next
  <2>3. ASSUME NEW n \in Stamps, Current' = {t \in Current : t <= n}, acked \subseteq Current',
               acked' = acked
        PROVE  Store!Next
    <3>1. Store!Crash(n) BY <2>3 DEF Store!Crash, Current
    <3> QED BY <3>1 DEF Store!Next
  <2> QED BY <2>1, <2>2, <2>3, StoreStep
<1>3. Spec => []IInv BY InvariantCorrect
<1>4. Spec => Store!Init /\ [][Store!Next]_<<Current, acked>> BY <1>1, <1>2, <1>3, PTL DEF Spec
<1> QED BY <1>4 DEF ImplementsStore, Store!Spec, Current
=============================================================================
