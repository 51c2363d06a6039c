------------------------ MODULE CachingStoreProofs ------------------------
(***************************************************************************)
(* Proofs about CachingStore, for any number of keys, values and unsettled *)
(* writes.  Settled entries agree with the store because an entry that is   *)
(* not raced is the value of the last unsettled write of its key, if there  *)
(* is one (EntryInv), and because what the reads see differs from the store *)
(* only where a transaction waits to be settled (ReadInv).                  *)
(***************************************************************************)
EXTENDS CachingStore, SequenceTheorems, WellFoundedInduction, TLAPS

-----------------------------------------------------------------------------
(* The inductive invariant. *)

\* Write i is the last unsettled one of k.
IsLast(i, k) ==
  /\ i \in DOMAIN log /\ Concerns(log[i], k)
  /\ \A j \in i + 1 .. Len(log) : ~Concerns(log[j], k)

\* The ended transactions follow each other up to the last committed write.
TxnsInv ==
  /\ \A t \in 1 .. Len(txns) : txns[t].last <= committed
  /\ committed > 0 => Len(txns) > 0 /\ txns[Len(txns)].last = committed

\* Where the reads and the store differ a transaction has ended that is not settled.
ReadInv ==
  readTxn # NoTxn /\ ~resetQueued =>
    \A k \in Keys : readTxn[k] # stored[k] =>
      /\ \E i \in 1 .. committed : Concerns(log[i], k)
      /\ \E t \in 1 .. Len(txns) : txns[t].ok

\* An entry that is not raced is what the store holds or, with writes of its key
\* unsettled, what the last of them put; and the store holds that when it was
\* committed.
EntryInv ==
  \A k \in Keys \ raced : cache[k] # NoEntry =>
    /\ ~Outstanding(k) => cache[k].val = stored[k]
    /\ \A i \in DOMAIN log : IsLast(i, k) =>
         /\ log[i].op = "put" /\ log[i].val = cache[k].val
         /\ i <= committed /\ ~log[i].failed /\ k \notin Rejected => stored[k] = log[i].val

\* A pinned entry has a put that is not settled.
PinInv ==
  \A k \in Keys : cache[k].pinned =>
    \E i \in DOMAIN log : log[i].op # "clear" /\ log[i].key = k

IInv == TypeOK /\ TxnsInv /\ ReadInv /\ EntryInv /\ PinInv

-----------------------------------------------------------------------------
(* Numbers and writes. *)

\* The least number of a set.
LEMMA Smallest == ASSUME NEW S \in SUBSET Nat, S # {} PROVE \E x \in S : \A y \in S : x <= y
<1> DEFINE R == {ss \in Nat \X Nat : ss[1] < ss[2]}
<1>1. IsWellFoundedOn(R, Nat) BY NatLessThanWellFounded DEF OpToRel
<1> HIDE DEF R
<1>2. PICK x \in S : \A y \in S : ~(<<y, x>> \in R) BY <1>1, WFMin
<1>3. ASSUME NEW y \in S PROVE x <= y
  <2>1. x \in Nat /\ y \in Nat OBVIOUS
  <2>2. ~(y < x) BY <1>2, <2>1 DEF R
  <2> QED BY <2>1, <2>2
<1> QED BY <1>3

\* What Max returns for slots of the queue.
LEMMA MaxIs ==
  ASSUME NEW n \in Nat, NEW S \in SUBSET (1 .. n), S # {}
  PROVE  Max(S) \in S /\ \A y \in S : y <= Max(S)
<1> DEFINE D == {n - x : x \in S}
<1>0. \A x \in S : x \in Nat /\ n - x \in Nat OBVIOUS
<1>1. D \in SUBSET Nat /\ D # {} BY <1>0
<1>2. PICK d \in D : \A y \in D : d <= y BY <1>1, Smallest
<1>3. PICK x \in S : d = n - x OBVIOUS
<1>4. \A y \in S : n - x <= n - y BY <1>2, <1>3
<1>5. \A y \in S : x >= y BY <1>4
<1>6. Max(S) \in S /\ \A y \in S : Max(S) >= y BY <1>5 DEF Max
<1> QED BY <1>6

\* The slots of the queue, and the fields of a write.
LEMMA LogTyped ==
  ASSUME TypeOK
  PROVE  /\ Len(log) \in Nat /\ DOMAIN log = 1 .. Len(log)
         /\ committed \in Nat /\ executed \in Nat /\ committed <= executed /\ executed <= Len(log)
         /\ \A i \in 1 .. Len(log) :
              /\ log[i] \in Write /\ log[i].key \in Keys \cup {"all"} /\ log[i].val \in Values
              /\ log[i].failed \in BOOLEAN
         /\ Len(txns) \in Nat /\ DOMAIN txns = 1 .. Len(txns)
         /\ \A t \in 1 .. Len(txns) : txns[t] \in [last : Nat, ok : BOOLEAN]
<1>1. \A i \in 1 .. Len(log) : log[i] \in Write BY DEF TypeOK
<1>2. \A w \in Write : /\ w.key \in Keys \cup {"all"} /\ w.val \in Values
                        /\ w.failed \in BOOLEAN
  BY DEF Write
<1>3. Len(log) \in Nat /\ DOMAIN log = 1 .. Len(log) BY DEF TypeOK
<1>4. Len(txns) \in Nat /\ DOMAIN txns = 1 .. Len(txns) BY DEF TypeOK
<1> DEFINE T == [last : Nat, ok : BOOLEAN]
<1>5. \A t \in 1 .. Len(txns) : txns[t] \in T
  <2>1. txns \in Seq(T) BY DEF TypeOK
  <2> HIDE DEF T
  <2> QED BY <2>1
<1> QED BY <1>1, <1>2, <1>3, <1>4, <1>5 DEF TypeOK

\* The entry of a key.
LEMMA EntryTyped ==
  ASSUME TypeOK, NEW k \in Keys
  PROVE  /\ cache[k] \in [val : Values, pinned : BOOLEAN] /\ cache[k].val \in Values
         /\ stored[k] \in Values /\ TxnView[k] \in Values
         /\ NoEntry \in [val : Values, pinned : BOOLEAN] /\ ~NoEntry.pinned
BY DEF TypeOK, TxnView, NoEntry, Values

\* What Append leaves of the queue.
LEMMA Appended ==
  ASSUME TypeOK, NEW w \in Write, Queue(w)
  PROVE  /\ log' \in Seq(Write) /\ Len(log') = Len(log) + 1 /\ DOMAIN log' = 1 .. Len(log) + 1
         /\ log'[Len(log) + 1] = w /\ \A i \in 1 .. Len(log) : log'[i] = log[i]
         /\ Len(log') <= MaxWrites
<1>1. log \in Seq(Write) /\ log' = Append(log, w) /\ Len(log) < MaxWrites BY DEF TypeOK, Queue
<1>2. MaxWrites \in Nat BY CacheAssumption
<1> QED BY <1>1, <1>2

\* The last unsettled write of a key exists.
LEMMA LastExists ==
  ASSUME TypeOK, NEW k \in Keys, Outstanding(k)
  PROVE  \E i \in DOMAIN log : IsLast(i, k)
<1> DEFINE S == {i \in 1 .. Len(log) : Concerns(log[i], k)}
<1>1. Len(log) \in Nat /\ DOMAIN log = 1 .. Len(log) BY LogTyped
<1>2. S # {} /\ S \in SUBSET (1 .. Len(log)) BY <1>1 DEF Outstanding
<1>3. Max(S) \in S /\ \A y \in S : y <= Max(S) BY <1>1, <1>2, MaxIs
<1> DEFINE m == Max(S)
<1>4. m \in 1 .. Len(log) /\ Concerns(log[m], k) BY <1>3
<1>5. ASSUME NEW j \in m + 1 .. Len(log) PROVE ~Concerns(log[j], k)
  <2>1. j \in 1 .. Len(log) /\ ~(j <= m) BY <1>1, <1>4
  <2> QED BY <1>3, <2>1
<1>6. IsLast(m, k) BY <1>1, <1>4, <1>5 DEF IsLast
<1> QED BY <1>1, <1>4, <1>6

\* A put that was rejected stays so while the queue and the transactions only grow
\* and no later write has its key.
LEMMA RejectedStays ==
  ASSUME TypeOK, TxnsInv, NEW k \in Rejected, Len(log') \in Nat, Len(log) <= Len(log'),
         Len(txns') \in Nat, Len(txns) <= Len(txns'),
         \A t \in 1 .. Len(txns) : txns'[t] = txns[t],
         \A i \in 1 .. Len(log) : Concerns(log'[i], k) <=> Concerns(log[i], k),
         \A i \in Len(log) + 1 .. Len(log') : ~Concerns(log'[i], k)
  PROVE  k \in Rejected'
<1> DEFINE n == Len(log)
           First(t) == IF t = 1 THEN 1 ELSE txns[t - 1].last + 1
           NewFirst(t) == IF t = 1 THEN 1 ELSE txns'[t - 1].last + 1
<1>1. k \in Keys BY DEF Rejected
<1>2. PICK t \in 1 .. Len(txns) : ~txns[t].ok /\ \E i \in First(t) .. txns[t].last :
        Concerns(log[i], k) /\ \A j \in i + 1 .. Len(log) : ~Concerns(log[j], k)
  BY DEF Rejected
<1>3. PICK i \in First(t) .. txns[t].last :
        Concerns(log[i], k) /\ \A j \in i + 1 .. Len(log) : ~Concerns(log[j], k)
  BY <1>2
<1>4. n \in Nat /\ committed <= n /\ committed \in Nat /\ Len(txns) \in Nat BY LogTyped
<1>5. txns[t].last <= committed /\ txns[t].last \in Nat BY LogTyped DEF TxnsInv
<1>6. First(t) \in Nat \ {0} /\ NewFirst(t) = First(t)
  <2>1. CASE t = 1 BY <2>1
  <2>2. CASE t # 1
    <3>1. t - 1 \in 1 .. Len(txns) BY <1>4, <2>2
    <3>2. txns[t - 1] \in [last : Nat, ok : BOOLEAN] /\ txns'[t - 1] = txns[t - 1] BY <3>1, LogTyped
    <3> QED BY <2>2, <3>2
  <2> QED BY <2>1, <2>2
<1>7. i \in 1 .. n BY <1>3, <1>4, <1>5, <1>6
<1>8. ASSUME NEW j \in i + 1 .. Len(log') PROVE ~Concerns(log'[j], k)
  <2>1. CASE j \in n + 1 .. Len(log') BY <2>1
  <2>2. CASE j \notin n + 1 .. Len(log')
    <3>1. j \in i + 1 .. n /\ j \in 1 .. n BY <1>4, <1>7, <2>2
    <3> QED BY <1>3, <3>1
  <2> QED BY <2>1, <2>2
<1>9. t \in 1 .. Len(txns') /\ txns'[t] = txns[t] /\ i \in NewFirst(t) .. txns'[t].last
      /\ Concerns(log'[i], k)
  BY <1>3, <1>4, <1>6, <1>7
<1> HIDE DEF NewFirst
<1>10. \E u \in 1 .. Len(txns') : ~txns'[u].ok /\ \E h \in NewFirst(u) .. txns'[u].last :
          Concerns(log'[h], k) /\ \A j \in h + 1 .. Len(log') : ~Concerns(log'[j], k)
  BY <1>2, <1>8, <1>9
<1> QED BY <1>1, <1>10 DEF Rejected, NewFirst, Concerns

-----------------------------------------------------------------------------
(* Every step keeps the invariant. *)

\* It holds when the store is opened: nothing is cached or queued.
LEMMA InitIInv == Init => IInv
<1> SUFFICES ASSUME Init PROVE IInv OBVIOUS
<1>1. TypeOK
  <2>1. NoEntry \in [val : Values, pinned : BOOLEAN] BY DEF NoEntry, Values
  <2>2. cache \in [Keys -> [val : Values, pinned : BOOLEAN]] BY <2>1 DEF Init
  <2>3. Len(log) = 0 /\ log \in Seq(Write) /\ txns \in Seq([last : Nat, ok : BOOLEAN]) BY DEF Init
  <2>4. /\ committed \in Nat /\ executed \in Nat /\ committed <= executed
        /\ executed <= Len(log) /\ Len(log) <= MaxWrites
    BY <2>3, CacheAssumption DEF Init
  <2>5. /\ stored \in [Keys -> Values] /\ readTxn \in [Keys -> Values] \cup {NoTxn}
        /\ resetQueued \in BOOLEAN /\ raced \subseteq Keys
    BY DEF Init
  <2> QED BY <2>2, <2>3, <2>4, <2>5 DEF TypeOK
<1>2. DOMAIN log = {} /\ Len(log) = 0 /\ Len(txns) = 0 /\ committed = 0 BY DEF Init
<1>3. \A k \in Keys : cache[k] = NoEntry /\ ~cache[k].pinned BY DEF Init, NoEntry
<1> QED BY <1>1, <1>2, <1>3 DEF Init, IInv, TxnsInv, ReadInv, EntryInv, PinInv

\* A write is queued: its key is not cached, or what it puts is.
LEMMA QueueStep ==
  ASSUME IInv, NEW w \in Write, Queue(w), UNCHANGED <<stored, readTxn, queueVars>>,
         raced' \subseteq raced,
         cache' \in [Keys -> [val : Values, pinned : BOOLEAN]],
         \A k \in Keys : ~Concerns(w, k) => cache'[k] = cache[k] /\ (k \in raced => k \in raced'),
         \A k \in Keys : Concerns(w, k) =>
           \/ cache'[k] = NoEntry
           \/ w.op = "put" /\ w.key = k /\ w.val = cache'[k].val
  PROVE  IInv'
<1> DEFINE n == Len(log)
<1>1. TypeOK BY DEF IInv
<1>2. n \in Nat /\ DOMAIN log = 1 .. n /\ committed <= n /\ committed \in Nat BY <1>1, LogTyped
<1>3. /\ log' \in Seq(Write) /\ Len(log') = n + 1 /\ DOMAIN log' = 1 .. n + 1
      /\ log'[n + 1] = w /\ \A i \in 1 .. n : log'[i] = log[i] /\ Len(log') <= MaxWrites
  BY <1>1, Appended
<1>4. /\ stored' = stored /\ readTxn' = readTxn /\ executed' = executed
      /\ committed' = committed /\ txns' = txns /\ resetQueued' = resetQueued
  BY DEF queueVars
<1>5. TypeOK'
  <2>1. Len(log') <= MaxWrites /\ executed <= Len(log') BY <1>1, <1>3, LogTyped, CacheAssumption DEF Queue
  <2> QED BY <1>1, <1>3, <1>4, <2>1 DEF TypeOK
<1>6. TxnsInv' BY <1>4 DEF IInv, TxnsInv
<1>7. ReadInv'
  <2>1. \A i \in 1 .. committed : log'[i] = log[i] BY <1>2, <1>3
  <2> QED BY <1>4, <2>1 DEF IInv, ReadInv, Concerns
<1>8. EntryInv'
  <2> SUFFICES ASSUME NEW k \in Keys, k \notin raced', cache'[k] # NoEntry
               PROVE  /\ ~Outstanding(k)' => cache'[k].val = stored'[k]
                      /\ \A i \in DOMAIN log' : IsLast(i, k)' =>
                           /\ log'[i].op = "put" /\ log'[i].val = cache'[k].val
                           /\ i <= committed' /\ ~log'[i].failed /\ k \notin Rejected' =>
                                stored'[k] = log'[i].val
    BY DEF EntryInv
  <2>1. CASE Concerns(w, k)
    <3>1. w.op = "put" /\ w.val = cache'[k].val BY <2>1
    <3>2. n + 1 \in DOMAIN log' /\ Concerns(log'[n + 1], k) BY <1>2, <1>3, <2>1
    <3>3. Outstanding(k)' BY <3>2 DEF Outstanding, Concerns
    <3>4. ASSUME NEW i \in DOMAIN log', IsLast(i, k)' PROVE i = n + 1
      <4>1. i \in 1 .. n + 1 BY <1>3
      <4>2. ~(n + 1 \in i + 1 .. Len(log')) BY <3>2, <3>4 DEF IsLast, Concerns
      <4> QED BY <1>2, <1>3, <4>1, <4>2
    <3>5. ~(n + 1 <= committed) BY <1>2
    <3> QED BY <1>3, <1>4, <3>1, <3>3, <3>4, <3>5
  <2>2. CASE ~Concerns(w, k)
    <3>1. k \notin raced /\ cache'[k] = cache[k] BY <2>2
    <3>2. Outstanding(k) => Outstanding(k)'
      <4>1. \A i \in 1 .. n : i \in 1 .. n + 1 BY <1>2
      <4> QED BY <1>2, <1>3, <4>1 DEF Outstanding, Concerns
    <3>3. ASSUME NEW i \in DOMAIN log', IsLast(i, k)' PROVE i \in 1 .. n /\ IsLast(i, k) /\ log'[i] = log[i]
      <4>1. Concerns(log'[i], k) BY <3>3 DEF IsLast, Concerns
      <4>2. i # n + 1 BY <1>3, <2>2, <4>1 DEF Concerns
      <4>3. i \in 1 .. n BY <1>2, <1>3, <4>2
      <4>4. ASSUME NEW j \in i + 1 .. n PROVE ~Concerns(log[j], k)
        <5>1. j \in i + 1 .. n + 1 /\ j \in 1 .. n BY <1>2, <4>3
        <5> QED BY <1>3, <3>3, <5>1 DEF IsLast, Concerns
      <4> QED BY <1>2, <1>3, <4>1, <4>3, <4>4 DEF IsLast, Concerns
    <3>4. k \in Rejected => k \in Rejected'
      <4>1. \A i \in n + 1 .. n + 1 : ~Concerns(log'[i], k) BY <1>2, <1>3, <2>2 DEF Concerns
      <4>2. Len(log') \in Nat /\ n <= Len(log') /\ Len(txns) \in Nat BY <1>1, <1>2, <1>3, LogTyped
      <4>3. \A i \in 1 .. n : Concerns(log'[i], k) <=> Concerns(log[i], k) BY <1>3
      <4> QED BY <1>1, <1>3, <1>4, <4>1, <4>2, <4>3, RejectedStays DEF IInv
    <3> QED BY <1>2, <1>4, <3>1, <3>2, <3>3, <3>4 DEF IInv, EntryInv
  <2> QED BY <2>1, <2>2
<1>9. PinInv'
  <2> SUFFICES ASSUME NEW k \in Keys, cache'[k].pinned
               PROVE  \E i \in DOMAIN log' : log'[i].op # "clear" /\ log'[i].key = k
    BY DEF PinInv
  <2>1. CASE ~Concerns(w, k)
    <3>1. cache[k].pinned BY <2>1
    <3>2. PICK i \in DOMAIN log : log[i].op # "clear" /\ log[i].key = k BY <3>1 DEF IInv, PinInv
    <3>3. i \in DOMAIN log' /\ log'[i] = log[i] BY <1>2, <1>3
    <3> QED BY <3>2, <3>3
  <2>2. CASE Concerns(w, k)
    <3>1. cache'[k] # NoEntry BY DEF NoEntry
    <3>2. w.op = "put" /\ w.key = k BY <2>2, <3>1
    <3>3. n + 1 \in DOMAIN log' BY <1>2, <1>3
    <3> QED BY <1>3, <3>2, <3>3
  <2> QED BY <2>1, <2>2
<1> QED BY <1>5, <1>6, <1>7, <1>8, <1>9 DEF IInv

\* A step of the program that queues nothing: an entry stays, goes, is raced, or is
\* what the store holds.
LEMMA QuietStep ==
  ASSUME IInv, UNCHANGED <<log, executed, committed, txns>>, TypeOK', ReadInv',
         \A k \in Keys :
           \/ cache'[k] = cache[k] /\ stored'[k] = stored[k] /\ (k \in raced => k \in raced')
           \/ cache'[k] = NoEntry
           \/ k \in raced' /\ ~cache'[k].pinned
           \/ ~Outstanding(k) /\ cache'[k].val = stored'[k] /\ ~cache'[k].pinned
  PROVE  IInv'
<1>1. TxnsInv' BY DEF IInv, TxnsInv
<1>2. EntryInv'
  <2> SUFFICES ASSUME NEW k \in Keys, k \notin raced', cache'[k] # NoEntry
               PROVE  /\ ~Outstanding(k)' => cache'[k].val = stored'[k]
                      /\ \A i \in DOMAIN log' : IsLast(i, k)' =>
                           /\ log'[i].op = "put" /\ log'[i].val = cache'[k].val
                           /\ i <= committed' /\ ~log'[i].failed /\ k \notin Rejected' =>
                                stored'[k] = log'[i].val
    BY DEF EntryInv
  <2>1. (Outstanding(k)' <=> Outstanding(k)) /\ (k \in Rejected' <=> k \in Rejected)
    BY DEF Outstanding, Rejected, Concerns
  <2>2. \A i \in DOMAIN log : IsLast(i, k)' <=> IsLast(i, k) BY DEF IsLast, Concerns
  <2>3. CASE cache'[k] = cache[k] /\ stored'[k] = stored[k] /\ k \notin raced
    BY <2>1, <2>2, <2>3 DEF IInv, EntryInv
  <2>4. CASE ~Outstanding(k) /\ cache'[k].val = stored'[k]
    <3>1. \A i \in DOMAIN log : ~IsLast(i, k) BY <2>4 DEF Outstanding, IsLast
    <3> QED BY <2>1, <2>2, <2>4, <3>1
  <2> QED BY <2>3, <2>4
<1>3. PinInv'
  <2>1. ~NoEntry.pinned BY DEF NoEntry
  <2>2. \A k \in Keys : cache'[k].pinned => cache[k].pinned BY <2>1, EntryTyped
    DEF IInv
  <2> QED BY <2>2 DEF IInv, PinInv
<1> QED BY <1>1, <1>2, <1>3 DEF IInv

\* put, putBinary, remove and clearAsync.
LEMMA WriteStep ==
  ASSUME IInv,
         \/ \E k \in Keys : remove(k) \/ putBinary(k) \/ \E v \in Vals : put(k, v)
         \/ clearAsync
  PROVE  IInv'
<1>1. TypeOK BY DEF IInv
<1>2. \A k \in Keys, v \in Vals : put(k, v) => IInv'
  <2> SUFFICES ASSUME NEW k \in Keys, NEW v \in Vals, put(k, v)
               PROVE  IInv'
    OBVIOUS
  <2> DEFINE w == [key |-> k, op |-> "put", val |-> v, failed |-> FALSE]
             e == [val |-> v, pinned |-> TRUE]
  <2>1. w \in Write /\ w.op = "put" /\ w.key = k /\ w.val = v BY DEF Write, Values
  <2>2. e \in [val : Values, pinned : BOOLEAN] /\ e.val = v BY DEF Values
  <2>3. Queue(w) /\ UNCHANGED <<stored, readTxn, queueVars>> /\ raced' \subseteq raced BY DEF put
  <2>4. cache' = [cache EXCEPT ![k] = e] /\ raced' = raced \ {k} BY DEF put
  <2>5. \A h \in Keys : Concerns(w, h) <=> h = k BY <2>1 DEF Concerns
  <2> HIDE DEF w, e
  <2>6. cache' \in [Keys -> [val : Values, pinned : BOOLEAN]] BY <1>1, <2>2, <2>4 DEF TypeOK
  <2>7. \A h \in Keys : h # k => cache'[h] = cache[h] /\ (h \in raced => h \in raced')
    BY <1>1, <2>4 DEF TypeOK
  <2>8. cache'[k] = e BY <1>1, <2>4 DEF TypeOK
  <2> QED BY <2>1, <2>2, <2>3, <2>5, <2>6, <2>7, <2>8, QueueStep
<1>3. \A k \in Keys, op \in {"remove", "binary"}, v \in Values :
        Uncached(k, op, v) => IInv'
  <2> SUFFICES ASSUME NEW k \in Keys, NEW op \in {"remove", "binary"}, NEW v \in Values,
                      Uncached(k, op, v)
               PROVE  IInv'
    OBVIOUS
  <2> DEFINE w == [key |-> k, op |-> op, val |-> v, failed |-> FALSE]
  <2>1. w \in Write /\ w.op = op /\ w.key = k BY DEF Write
  <2>2. NoEntry \in [val : Values, pinned : BOOLEAN] BY DEF NoEntry, Values
  <2>3. Queue(w) /\ UNCHANGED <<stored, readTxn, queueVars>> /\ raced' \subseteq raced BY DEF Uncached
  <2>4. cache' = [cache EXCEPT ![k] = NoEntry] /\ raced' = raced \ {k} BY DEF Uncached
  <2>5. \A h \in Keys : Concerns(w, h) <=> h = k BY <2>1 DEF Concerns
  <2> HIDE DEF w
  <2>6. cache' \in [Keys -> [val : Values, pinned : BOOLEAN]] BY <1>1, <2>2, <2>4 DEF TypeOK
  <2>7. \A h \in Keys : h # k => cache'[h] = cache[h] /\ (h \in raced => h \in raced')
    BY <1>1, <2>4 DEF TypeOK
  <2>8. cache'[k] = NoEntry BY <1>1, <2>4 DEF TypeOK
  <2> QED BY <2>1, <2>3, <2>5, <2>6, <2>7, <2>8, QueueStep
<1>4. clearAsync => IInv'
  <2> SUFFICES ASSUME clearAsync PROVE IInv' OBVIOUS
  <2> DEFINE w == [key |-> "all", op |-> "clear", val |-> Absent, failed |-> FALSE]
  <2>1. w \in Write /\ w.op = "clear" BY DEF Write, Values
  <2>2. NoEntry \in [val : Values, pinned : BOOLEAN] BY DEF NoEntry, Values
  <2>3. Queue(w) /\ UNCHANGED <<stored, readTxn, queueVars>> /\ raced' \subseteq raced
    BY DEF clearAsync
  <2>4. \A h \in Keys : Concerns(w, h) BY <2>1 DEF Concerns
  <2> HIDE DEF w
  <2>5. cache' \in [Keys -> [val : Values, pinned : BOOLEAN]] /\ \A h \in Keys : cache'[h] = NoEntry
    BY <2>2 DEF clearAsync
  <2> QED BY <2>1, <2>3, <2>4, <2>5, QueueStep
<1>5. \A k \in Keys :
        remove(k) \/ putBinary(k) => \E op \in {"remove", "binary"}, v \in Values :
                                        Uncached(k, op, v)
  BY DEF remove, putBinary, Values
<1> QED BY <1>2, <1>3, <1>4, <1>5

\* A read that misses: what it sees is what the store holds, or it is raced.
LEMMA GetStep == ASSUME IInv, NEW k \in Keys, get(k) PROVE IInv'
<1> DEFINE e == [val |-> TxnView[k], pinned |-> FALSE]
<1>1. TypeOK BY DEF IInv
<1>2. /\ readTxn' = TxnView /\ cache' = [cache EXCEPT ![k] = e] /\ raced \subseteq raced'
      /\ raced' \subseteq Keys
      /\ UNCHANGED <<log, executed, committed, txns>> /\ stored' = stored
      /\ resetQueued' = resetQueued
  BY <1>1 DEF get, queueVars, TypeOK
<1>3. TxnView \in [Keys -> Values] /\ e \in [val : Values, pinned : BOOLEAN] /\ ~e.pinned
      /\ e.val = TxnView[k]
  BY <1>1 DEF TypeOK, TxnView
<1>4. TxnView[k] # Absent /\ (Outstanding(k) \/ resetQueued) => k \in raced' BY DEF get
<1>5. e.val = Absent => e = NoEntry BY <1>3 DEF NoEntry
<1> HIDE DEF e
<1>6. cache' \in [Keys -> [val : Values, pinned : BOOLEAN]] /\ cache'[k] = e
      /\ \A h \in Keys : h # k => cache'[h] = cache[h]
  BY <1>1, <1>2, <1>3 DEF TypeOK
<1>7. TypeOK' BY <1>1, <1>2, <1>3, <1>6 DEF TypeOK
<1>8. \A h \in Keys : ~resetQueued /\ TxnView[h] # stored[h] =>
        /\ \E i \in 1 .. committed : Concerns(log[i], h)
        /\ \E t \in 1 .. Len(txns) : txns[t].ok
  BY DEF IInv, ReadInv, TxnView
<1>9. ReadInv' BY <1>2, <1>8 DEF ReadInv, Concerns
<1>10. ~Outstanding(k) /\ ~resetQueued => TxnView[k] = stored[k]
  <2>1. 1 .. committed \subseteq DOMAIN log BY <1>1, LogTyped
  <2> QED BY <1>8, <2>1 DEF Outstanding
<1>11. e = NoEntry \/ k \in raced' \/ (~Outstanding(k) /\ e.val = stored[k])
  BY <1>3, <1>4, <1>5, <1>10
<1> QED BY <1>2, <1>3, <1>6, <1>7, <1>9, <1>11, QuietStep

\* putSync and removeSync: what is cached is what is stored, unless it is not applied.
LEMMA SyncStep ==
  ASSUME IInv, NEW k \in Keys, NEW v \in Values, NEW applied \in BOOLEAN, Sync(k, v, applied)
  PROVE  IInv'
<1> DEFINE e == [val |-> v, pinned |-> FALSE]
<1>1. TypeOK BY DEF IInv
<1>2. /\ readTxn' = NoTxn \/ (~applied /\ readTxn' = readTxn)
      /\ cache' = [cache EXCEPT ![k] = e] /\ raced' \subseteq Keys
      /\ stored' = IF applied THEN [stored EXCEPT ![k] = v] ELSE stored
      /\ UNCHANGED <<log, executed, committed, txns>> /\ resetQueued' = resetQueued
  BY <1>1 DEF Sync, queueVars, TypeOK
<1>3. e \in [val : Values, pinned : BOOLEAN] /\ ~e.pinned /\ e.val = v OBVIOUS
<1>4. v # Absent /\ (Outstanding(k) \/ ~applied) => k \in raced' BY DEF Sync
<1>5. v = Absent => e = NoEntry BY DEF NoEntry
<1>6. \A h \in Keys : h # k => (h \in raced => h \in raced') BY DEF Sync
<1> HIDE DEF e
<1>7. cache' \in [Keys -> [val : Values, pinned : BOOLEAN]] /\ cache'[k] = e
      /\ \A h \in Keys : h # k => cache'[h] = cache[h]
  BY <1>1, <1>2, <1>3 DEF TypeOK
<1>8. stored' \in [Keys -> Values] /\ (applied => stored'[k] = v) /\ \A h \in Keys : h # k => stored'[h] = stored[h]
  BY <1>1, <1>2 DEF TypeOK
<1>9. TypeOK' BY <1>1, <1>2, <1>7, <1>8 DEF TypeOK
<1>10. ReadInv' BY <1>2 DEF IInv, ReadInv, Concerns
<1>11. e = NoEntry \/ k \in raced' \/ (~Outstanding(k) /\ e.val = stored'[k])
  BY <1>3, <1>4, <1>5, <1>8
<1> QED BY <1>2, <1>3, <1>6, <1>7, <1>8, <1>9, <1>10, <1>11, QuietStep

\* clearSync, resetReadTxn and Collect only take entries away.
LEMMA DropStep ==
  ASSUME IInv, clearSync \/ resetReadTxn \/ \E k \in Keys : Collect(k)
  PROVE  IInv'
<1>1. TypeOK /\ NoEntry \in [val : Values, pinned : BOOLEAN] BY DEF IInv, NoEntry, Values
<1>2. clearSync => IInv'
  <2> SUFFICES ASSUME clearSync PROVE IInv' OBVIOUS
  <2>1. /\ readTxn' = NoTxn /\ raced' = {} /\ UNCHANGED <<log, executed, committed, txns>>
        /\ resetQueued' = resetQueued /\ stored' \in [Keys -> Values]
        /\ cache' \in [Keys -> [val : Values, pinned : BOOLEAN]]
        /\ \A k \in Keys : cache'[k] = NoEntry
    BY <1>1 DEF clearSync, queueVars, Values
  <2>2. TypeOK' BY <1>1, <2>1 DEF TypeOK
  <2>3. ReadInv' BY <2>1 DEF ReadInv
  <2> QED BY <2>1, <2>2, <2>3, QuietStep
<1>3. resetReadTxn => IInv'
  <2> SUFFICES ASSUME resetReadTxn PROVE IInv' OBVIOUS
  <2>1. /\ readTxn' = NoTxn /\ UNCHANGED <<log, executed, committed, txns>>
        /\ resetQueued' = FALSE /\ UNCHANGED <<stored, cache, raced>>
    BY DEF resetReadTxn
  <2>2. TypeOK' BY <1>1, <2>1 DEF TypeOK
  <2>3. ReadInv' BY <2>1 DEF ReadInv
  <2>4. \A k \in Keys : cache'[k] = cache[k] /\ stored'[k] = stored[k] /\ (k \in raced => k \in raced')
    BY <2>1
  <2> QED BY <2>1, <2>2, <2>3, <2>4, QuietStep
<1>4. ASSUME NEW k \in Keys, Collect(k) PROVE IInv'
  <2>1. /\ UNCHANGED <<log, executed, committed, txns>> /\ raced' = raced \ {k}
        /\ UNCHANGED <<resetQueued, stored, readTxn>> /\ cache' = [cache EXCEPT ![k] = NoEntry]
    BY <1>4 DEF Collect, queueVars
  <2>2. cache' \in [Keys -> [val : Values, pinned : BOOLEAN]] /\ cache'[k] = NoEntry
        /\ \A h \in Keys : h # k => cache'[h] = cache[h]
    BY <1>1, <2>1 DEF TypeOK
  <2>3. TypeOK' BY <1>1, <2>1, <2>2 DEF TypeOK
  <2>4. ReadInv' BY <2>1 DEF IInv, ReadInv, Concerns
  <2> QED BY <2>1, <2>2, <2>3, <2>4, QuietStep
<1> QED BY <1>2, <1>3, <1>4

\* A write is executed: whether it fails is decided before its commit.
LEMMA ExecuteStep == ASSUME IInv, Execute PROVE IInv'
<1> DEFINE e == executed + 1
           n == Len(log)
<1>1. TypeOK BY DEF IInv
<1>2. /\ n \in Nat /\ DOMAIN log = 1 .. n /\ executed \in Nat /\ executed < n
      /\ committed \in Nat /\ committed <= executed
  BY <1>1, LogTyped DEF Execute
<1>3. e \in 1 .. n /\ e > committed BY <1>2
<1>4. PICK f \in BOOLEAN : log' = [log EXCEPT ![e].failed = f] BY DEF Execute
<1>5. f \in BOOLEAN /\ log[e] \in Write BY <1>1, <1>3, LogTyped
<1> DEFINE w == [log[e] EXCEPT !.failed = f]
<1>6. w \in Write /\ w.key = log[e].key /\ w.op = log[e].op /\ w.val = log[e].val
  BY <1>5 DEF Write
<1>7. log' = [log EXCEPT ![e] = w] BY <1>4
<1> HIDE DEF w
<1>8. log \in Seq(Write) BY <1>1 DEF TypeOK
<1>9. /\ log' \in Seq(Write) /\ Len(log') = n /\ DOMAIN log' = 1 .. n
      /\ log'[e] = w /\ \A i \in 1 .. n : i # e => log'[i] = log[i]
  BY <1>2, <1>3, <1>6, <1>7, <1>8
<1>10. /\ executed' = e /\ UNCHANGED <<stored, readTxn, cache, committed, txns, resetQueued, raced>>
  BY DEF Execute
<1>11. \A i \in 1 .. n : log'[i].key = log[i].key /\ log'[i].op = log[i].op /\ log'[i].val = log[i].val
  BY <1>6, <1>9
<1>12. TypeOK'
  <2>1. committed <= e /\ e <= n /\ e \in Nat /\ Len(log') <= MaxWrites BY <1>1, <1>2, <1>9 DEF TypeOK
  <2> QED BY <1>1, <1>9, <1>10, <2>1 DEF TypeOK
<1>13. \A i \in 1 .. n, k \in Keys : Concerns(log'[i], k) <=> Concerns(log[i], k)
  BY <1>11 DEF Concerns
<1>14. \A i \in 1 .. committed : i \in 1 .. n /\ i # e BY <1>2, <1>3
<1>15. TxnsInv' BY <1>10 DEF IInv, TxnsInv
<1>16. ReadInv'
  <2>1. \A i \in 1 .. committed : log'[i] = log[i] BY <1>9, <1>14
  <2> QED BY <1>10, <2>1 DEF IInv, ReadInv, Concerns
<1>17. \A i \in 1 .. n, k \in Keys : IsLast(i, k)' <=> IsLast(i, k)
  <2> SUFFICES ASSUME NEW i \in 1 .. n, NEW k \in Keys PROVE IsLast(i, k)' <=> IsLast(i, k)
    OBVIOUS
  <2>1. i + 1 .. n \subseteq 1 .. n BY <1>2
  <2>2. \A j \in i + 1 .. n : Concerns(log'[j], k) <=> Concerns(log[j], k) BY <1>13, <2>1
  <2> QED BY <1>2, <1>9, <1>13, <2>2 DEF IsLast, Concerns
<1>18. \A k \in Keys : Outstanding(k)' <=> Outstanding(k)
  BY <1>2, <1>9, <1>13 DEF Outstanding, Concerns
<1>19. \A k \in Keys : k \in Rejected => k \in Rejected'
  <2>1. Len(log') \in Nat /\ n <= Len(log') /\ Len(txns) \in Nat /\ n + 1 .. Len(log') = {}
    BY <1>1, <1>2, <1>9, LogTyped
  <2> QED BY <1>1, <1>10, <1>13, <2>1, RejectedStays DEF IInv
<1>20. EntryInv'
  <2> SUFFICES ASSUME NEW k \in Keys, k \notin raced, cache[k] # NoEntry
               PROVE  /\ ~Outstanding(k)' => cache[k].val = stored[k]
                      /\ \A i \in DOMAIN log' : IsLast(i, k)' =>
                           /\ log'[i].op = "put" /\ log'[i].val = cache[k].val
                           /\ i <= committed /\ ~log'[i].failed /\ k \notin Rejected' =>
                                stored[k] = log'[i].val
    BY <1>10 DEF EntryInv
  <2>1. \A i \in 1 .. n : i <= committed => log'[i] = log[i] BY <1>3, <1>9, <1>2
  <2> QED BY <1>2, <1>9, <1>11, <1>17, <1>18, <1>19, <2>1 DEF IInv, EntryInv
<1>21. PinInv' BY <1>2, <1>9, <1>10, <1>11 DEF IInv, PinInv
<1> QED BY <1>12, <1>15, <1>16, <1>20, <1>21 DEF IInv

\* The commit of what was executed.
LEMMA CommitStep == ASSUME IInv, NEW ok \in BOOLEAN, Commit(ok) PROVE IInv'
<1> DEFINE n == Len(log)
           x == Len(txns)
           e == [last |-> executed, ok |-> ok]
           T == [last : Nat, ok : BOOLEAN]
<1>1. TypeOK BY DEF IInv
<1>2. /\ n \in Nat /\ DOMAIN log = 1 .. n /\ executed \in Nat /\ executed <= n
      /\ committed \in Nat /\ committed < executed /\ x \in Nat
      /\ \A t \in 1 .. x : txns[t] \in T
  BY <1>1, LogTyped DEF Commit
<1>3. /\ committed' = executed
      /\ UNCHANGED <<readTxn, cache, log, executed, resetQueued, raced>>
      /\ stored' = [k \in Keys |-> IF ~ok \/ Applied(k) = {} THEN stored[k]
                                   ELSE log[Max(Applied(k))].val]
  BY DEF Commit
<1>4. e \in T /\ e.last = executed /\ e.ok = ok BY <1>2
<1>5. txns \in Seq(T) /\ txns' = Append(txns, e) BY <1>1 DEF TypeOK, Commit
<1> HIDE DEF e, T
<1>6. /\ txns' \in Seq(T) /\ Len(txns') = x + 1 /\ txns'[x + 1] = e
      /\ \A t \in 1 .. x : txns'[t] = txns[t]
  BY <1>2, <1>4, <1>5
<1>7. \A k \in Keys : Applied(k) \in SUBSET (1 .. n) /\ Applied(k) \in SUBSET (1 .. executed)
  BY <1>2 DEF Applied
<1>8. \A k \in Keys : Applied(k) # {} =>
        Max(Applied(k)) \in Applied(k) /\ \A y \in Applied(k) : y <= Max(Applied(k))
  BY <1>2, <1>7, MaxIs
<1>9. TypeOK'
  <2>1. \A k \in Keys : Applied(k) # {} => log[Max(Applied(k))].val \in Values
    BY <1>1, <1>7, <1>8, LogTyped
  <2>2. stored' \in [Keys -> Values] BY <1>1, <1>3, <2>1 DEF TypeOK
  <2> QED BY <1>1, <1>2, <1>3, <1>6, <2>2 DEF TypeOK, T
<1>10. TxnsInv'
  <2>1. \A t \in 1 .. x : txns[t].last <= executed
    <3>1. \A t \in 1 .. x : txns[t].last \in Nat /\ txns[t].last <= committed
      BY <1>2 DEF IInv, TxnsInv, T
    <3> QED BY <1>2, <3>1
  <2>2. ASSUME NEW t \in 1 .. x + 1 PROVE txns'[t].last <= executed
    <3>1. CASE t = x + 1 BY <1>2, <1>4, <1>6, <3>1
    <3>2. CASE t # x + 1
      <4>1. t \in 1 .. x BY <1>2, <3>2
      <4> QED BY <1>6, <2>1, <4>1
    <3> QED BY <3>1, <3>2
  <2>3. x + 1 > 0 BY <1>2
  <2> QED BY <1>3, <1>4, <1>6, <2>2, <2>3 DEF TxnsInv
<1>11. ReadInv'
  <2> SUFFICES ASSUME readTxn # NoTxn, ~resetQueued, NEW k \in Keys, readTxn[k] # stored'[k]
               PROVE  /\ \E i \in 1 .. executed : Concerns(log[i], k)
                      /\ \E t \in 1 .. x + 1 : txns'[t].ok
    BY <1>3, <1>6 DEF ReadInv, Concerns
  <2>1. CASE stored'[k] = stored[k]
    <3>1. PICK i \in 1 .. committed : Concerns(log[i], k) BY <2>1 DEF IInv, ReadInv
    <3>2. PICK t \in 1 .. x : txns[t].ok BY <2>1 DEF IInv, ReadInv
    <3>3. i \in 1 .. executed /\ t \in 1 .. x + 1 BY <1>2
    <3> QED BY <1>6, <3>1, <3>2, <3>3
  <2>2. CASE stored'[k] # stored[k]
    <3>1. ok /\ Applied(k) # {} BY <1>3, <2>2
    <3>2. PICK i \in Applied(k) : TRUE BY <3>1
    <3>3. i \in 1 .. executed /\ Concerns(log[i], k) BY <1>7 DEF Applied
    <3>4. x + 1 \in 1 .. x + 1 BY <1>2
    <3>5. txns'[x + 1].ok BY <1>4, <1>6, <3>1, Zenon
    <3> QED BY <3>3, <3>4, <3>5
  <2> QED BY <2>1, <2>2
<1>12. ASSUME NEW k \in Keys, ~ok, NEW i \in DOMAIN log, IsLast(i, k), i > committed, i <= executed
       PROVE  k \in Rejected'
  <2> DEFINE First(t) == IF t = 1 THEN 1 ELSE txns'[t - 1].last + 1
  <2>1. First(x + 1) = committed + 1
    <3>1. CASE x = 0
      <4>1. ~(committed > 0) BY <3>1 DEF IInv, TxnsInv
      <4> QED BY <1>2, <3>1, <4>1
    <3>2. CASE x # 0
      <4>1. x \in 1 .. x /\ x + 1 # 1 /\ (x + 1) - 1 = x BY <1>2, <3>2
      <4>2. txns[x].last \in Nat /\ txns[x].last <= committed BY <1>2, <4>1 DEF IInv, TxnsInv, T
      <4>3. committed > 0 => txns[x].last = committed BY DEF IInv, TxnsInv
      <4>4. txns[x].last = committed BY <1>2, <4>2, <4>3
      <4> QED BY <1>6, <4>1, <4>4
    <3> QED BY <3>1, <3>2
  <2>2. x + 1 \in 1 .. Len(txns') /\ ~txns'[x + 1].ok /\ i \in First(x + 1) .. txns'[x + 1].last
    BY <1>2, <1>4, <1>6, <1>12, <2>1
  <2>3. Concerns(log[i], k) /\ \A j \in i + 1 .. n : ~Concerns(log[j], k) BY <1>12 DEF IsLast
  <2> HIDE DEF First
  <2>4. \E t \in 1 .. Len(txns') : ~txns'[t].ok /\ \E h \in First(t) .. txns'[t].last :
          Concerns(log[h], k) /\ \A j \in h + 1 .. n : ~Concerns(log[j], k)
    BY <2>2, <2>3
  <2> QED BY <1>3, <2>4 DEF Rejected, First, Concerns
<1>13. \A k \in Keys : k \in Rejected => k \in Rejected'
  <2>1. Len(log') \in Nat /\ n <= Len(log') /\ n + 1 .. Len(log') = {} /\ x <= x + 1 /\ x + 1 \in Nat
    BY <1>2, <1>3
  <2>2. \A i \in 1 .. n, k \in Keys : Concerns(log'[i], k) <=> Concerns(log[i], k) BY <1>3
  <2> QED BY <1>1, <1>6, <2>1, <2>2, RejectedStays DEF IInv
<1>14. EntryInv'
  <2> SUFFICES ASSUME NEW k \in Keys, k \notin raced, cache[k] # NoEntry
               PROVE  /\ ~Outstanding(k) => cache[k].val = stored'[k]
                      /\ \A i \in DOMAIN log : IsLast(i, k) =>
                           /\ log[i].op = "put" /\ log[i].val = cache[k].val
                           /\ i <= executed /\ ~log[i].failed /\ k \notin Rejected' =>
                                stored'[k] = log[i].val
    BY <1>3 DEF EntryInv, Outstanding, IsLast, Concerns
  <2>1. ~Outstanding(k) => cache[k].val = stored'[k]
    <3> SUFFICES ASSUME ~Outstanding(k) PROVE cache[k].val = stored'[k] OBVIOUS
    <3>1. Applied(k) = {} BY <1>2, <1>7 DEF Applied, Outstanding
    <3> QED BY <1>3, <3>1 DEF IInv, EntryInv
  <2>2. ASSUME NEW i \in DOMAIN log, IsLast(i, k), i <= executed, ~log[i].failed, k \notin Rejected'
        PROVE  stored'[k] = log[i].val
    <3>1. \A j \in Applied(k) : j <= i
      <4> SUFFICES ASSUME NEW j \in Applied(k), ~(j <= i) PROVE FALSE OBVIOUS
      <4>1. j \in 1 .. n /\ i \in 1 .. n BY <1>2, <1>7
      <4>2. j \in i + 1 .. n BY <1>2, <4>1
      <4> QED BY <2>2, <4>2 DEF IsLast, Applied
    <3>2. CASE i <= committed
      <4>1. Applied(k) = {} BY <1>2, <3>1, <3>2 DEF Applied
      <4> QED BY <1>3, <1>13, <2>2, <3>2, <4>1 DEF IInv, EntryInv
    <3>3. CASE ~(i <= committed)
      <4>1. i \in committed + 1 .. executed BY <1>2, <2>2, <3>3
      <4>2. ok BY <1>2, <1>12, <2>2, <4>1
      <4>3. i \in Applied(k) BY <2>2, <4>1 DEF Applied, IsLast
      <4>4. Max(Applied(k)) = i
        <5>1. Max(Applied(k)) \in Applied(k) /\ i <= Max(Applied(k)) BY <1>8, <4>3
        <5>2. Max(Applied(k)) <= i /\ Max(Applied(k)) \in 1 .. n BY <1>7, <3>1, <5>1
        <5> QED BY <4>1, <1>2, <5>1, <5>2
      <4> QED BY <1>3, <4>2, <4>3, <4>4
    <3> QED BY <3>2, <3>3
  <2> QED BY <2>1, <2>2 DEF IInv, EntryInv
<1>15. PinInv' BY <1>3 DEF IInv, PinInv
<1> QED BY <1>9, <1>10, <1>11, <1>14, <1>15 DEF IInv

\* Ended transactions are settled: the entries of their writes are released, and
\* what is left of the queue moves up.
LEMMA ResolveStep == ASSUME IInv, NEW async \in BOOLEAN, resolveWrites(async) PROVE IInv'
<1> DEFINE n == Len(log)
           c == committed
<1>1. TypeOK BY DEF IInv
<1>2. /\ n \in Nat /\ DOMAIN log = 1 .. n /\ executed \in Nat /\ executed <= n
      /\ c \in Nat /\ c <= executed
  BY <1>1, LogTyped
<1>3. /\ log' = SubSeq(log, c + 1, n) /\ executed' = executed - c /\ committed' = 0
      /\ txns' = <<>> /\ stored' = stored /\ cache' = [k \in Keys |-> afterCommit(k)]
  BY DEF resolveWrites
<1>4. log \in Seq(Write) BY <1>1 DEF TypeOK
<1>5. /\ log' \in Seq(Write) /\ Len(log') = n - c /\ DOMAIN log' = 1 .. n - c
      /\ \A i \in 1 .. n - c : log'[i] = log[c + i]
  <2>1. c + 1 \in 1 .. n + 1 /\ n \in (c + 1) - 1 .. n BY <1>2
  <2>2. /\ log' \in Seq(Write) /\ Len(log') = n - (c + 1) + 1
        /\ \A i \in 1 .. n - (c + 1) + 1 : log'[i] = log[(c + 1) + i - 1]
    BY <1>3, <1>4, <2>1, SubSeqProperties
  <2>3. n - (c + 1) + 1 = n - c /\ \A i \in 1 .. n - c : (c + 1) + i - 1 = c + i BY <1>2
  <2> QED BY <2>2, <2>3
<1>6. \A i \in 1 .. n - c : c + i \in 1 .. n /\ c + i > c BY <1>2
<1>7. \A i \in 1 .. n : i > c => i - c \in 1 .. n - c /\ c + (i - c) = i BY <1>2
<1>8. \A k \in Keys :
        /\ cache'[k] \in [val : Values, pinned : BOOLEAN]
        /\ cache'[k] # NoEntry =>
             /\ cache[k] # NoEntry /\ cache'[k].val = cache[k].val
             /\ \A i \in Settling(k) : ~log[i].failed
        /\ cache'[k].pinned => cache[k].pinned /\ Settling(k) = {}
  <2> SUFFICES ASSUME NEW k \in Keys
               PROVE  /\ afterCommit(k) \in [val : Values, pinned : BOOLEAN]
                      /\ afterCommit(k) # NoEntry =>
                           /\ cache[k] # NoEntry /\ afterCommit(k).val = cache[k].val
                           /\ \A i \in Settling(k) : ~log[i].failed
                      /\ afterCommit(k).pinned => cache[k].pinned /\ Settling(k) = {}
    BY <1>3
  <2>1. /\ cache[k] \in [val : Values, pinned : BOOLEAN]
        /\ NoEntry \in [val : Values, pinned : BOOLEAN] /\ ~NoEntry.pinned
    BY <1>1, EntryTyped
  <2> DEFINE e == [cache[k] EXCEPT !.pinned = FALSE]
  <2>2. e \in [val : Values, pinned : BOOLEAN] /\ ~e.pinned /\ e.val = cache[k].val BY <2>1
  <2>3. cache[k] = NoEntry => e = NoEntry
    <3>1. \A f, g \in [val : Values, pinned : BOOLEAN] : f.val = g.val /\ f.pinned = g.pinned => f = g
      OBVIOUS
    <3> HIDE DEF e
    <3>2. NoEntry.pinned = FALSE BY DEF NoEntry
    <3>3. e.pinned = FALSE BY <2>2, Zenon
    <3> QED BY <2>1, <2>2, <3>1, <3>2, <3>3
  <2>4. \/ afterCommit(k) = NoEntry
        \/ afterCommit(k) = cache[k] /\ Settling(k) = {}
        \/ afterCommit(k) = e /\ \A i \in Settling(k) : ~log[i].failed
    BY DEF afterCommit
  <2> HIDE DEF e
  <2> QED BY <2>1, <2>2, <2>3, <2>4
<1>9. /\ raced' \subseteq Keys
      /\ \A k \in Keys : k \notin raced' /\ cache'[k] # NoEntry => k \notin raced /\ k \notin Rejected
  BY <1>1 DEF resolveWrites, TypeOK, Rejected
<1>10. \A i \in 1 .. c : i \in Reached BY <1>2 DEF Reached
<1>11. TypeOK'
  <2>1. cache' \in [Keys -> [val : Values, pinned : BOOLEAN]] BY <1>3, <1>8
  <2>2. /\ readTxn' \in [Keys -> Values] \cup {NoTxn} /\ resetQueued' \in BOOLEAN
        /\ stored' \in [Keys -> Values]
    <3>1. readTxn' = NoTxn \/ readTxn' = readTxn BY DEF resolveWrites
    <3>2. resetQueued' \in BOOLEAN BY DEF resolveWrites
    <3>3. stored \in [Keys -> Values] /\ readTxn \in [Keys -> Values] \cup {NoTxn} BY <1>1 DEF TypeOK
    <3> QED BY <1>3, <3>1, <3>2, <3>3, Zenon
  <2>3. /\ executed' \in Nat /\ committed' \in Nat /\ committed' <= executed'
        /\ executed' <= Len(log') /\ Len(log') <= n
    <3>1. executed' = executed - c /\ committed' = 0 /\ Len(log') = n - c BY <1>3, <1>5
    <3> HIDE DEF n, c
    <3> QED BY <1>2, <3>1
  <2>4. Len(log') <= MaxWrites BY <1>1, <1>2, <1>5, <2>3, CacheAssumption DEF TypeOK
  <2>5. txns' \in Seq([last : Nat, ok : BOOLEAN]) BY <1>3
  <2> QED BY <1>5, <1>9, <2>1, <2>2, <2>3, <2>4, <2>5 DEF TypeOK
<1>12. TxnsInv' BY <1>3 DEF TxnsInv
<1>13. ReadInv'
  <2> SUFFICES ASSUME readTxn' # NoTxn, ~resetQueued', NEW k \in Keys
               PROVE  readTxn'[k] = stored'[k]
    BY DEF ReadInv
  <2>1. readTxn' = readTxn /\ ~resetQueued /\ \A t \in 1 .. Len(txns) : ~txns[t].ok
    BY DEF resolveWrites
  <2> QED BY <1>3, <2>1 DEF IInv, ReadInv
<1>14. EntryInv'
  <2> SUFFICES ASSUME NEW k \in Keys, k \notin raced', cache'[k] # NoEntry
               PROVE  /\ ~Outstanding(k)' => cache'[k].val = stored'[k]
                      /\ \A i \in DOMAIN log' : IsLast(i, k)' =>
                           /\ log'[i].op = "put" /\ log'[i].val = cache'[k].val
                           /\ i <= committed' /\ ~log'[i].failed /\ k \notin Rejected' =>
                                stored'[k] = log'[i].val
    BY DEF EntryInv
  <2>1. /\ k \notin raced /\ k \notin Rejected /\ cache[k] # NoEntry
        /\ cache'[k].val = cache[k].val /\ \A i \in Settling(k) : ~log[i].failed
    BY <1>8, <1>9
  <2>2. ASSUME ~Outstanding(k)' PROVE cache'[k].val = stored'[k]
    <3>1. CASE ~Outstanding(k) BY <1>3, <2>1, <3>1 DEF IInv, EntryInv
    <3>2. CASE Outstanding(k)
      <4>1. PICK i \in DOMAIN log : IsLast(i, k) BY <1>1, <3>2, LastExists
      <4>2. i <= c
        <5> SUFFICES ASSUME i > c PROVE FALSE BY <1>2
        <5>1. i - c \in DOMAIN log' /\ log'[i - c] = log[i] BY <1>2, <1>5, <1>7
        <5>2. Concerns(log'[i - c], k) BY <4>1, <5>1 DEF IsLast
        <5> QED BY <2>2, <5>1, <5>2 DEF Outstanding, Concerns
      <4>3. log[i].op = "put" /\ log[i].val = cache[k].val BY <2>1, <4>1 DEF IInv, EntryInv
      <4>4. log[i].key = k BY <4>1, <4>3 DEF IsLast, Concerns
      <4>5. i \in Settling(k) BY <1>2, <1>10, <4>2, <4>3, <4>4 DEF Settling
      <4>6. stored[k] = log[i].val BY <2>1, <4>1, <4>2, <4>5 DEF IInv, EntryInv
      <4> QED BY <1>3, <2>1, <4>3, <4>6
    <3> QED BY <3>1, <3>2
  <2>3. ASSUME NEW i \in DOMAIN log', IsLast(i, k)'
        PROVE  log'[i].op = "put" /\ log'[i].val = cache'[k].val /\ ~(i <= committed')
    <3>1. i \in 1 .. n - c /\ c + i \in 1 .. n /\ log'[i] = log[c + i] BY <1>5, <1>6
    <3>2. ASSUME NEW j \in (c + i) + 1 .. n PROVE ~Concerns(log[j], k)
      <4>1. j - c \in i + 1 .. n - c /\ j - c \in 1 .. n - c /\ c + (j - c) = j BY <1>2, <3>1
      <4>2. log'[j - c] = log[j] BY <1>5, <4>1
      <4> QED BY <1>5, <2>3, <4>1, <4>2 DEF IsLast, Concerns
    <3>3. IsLast(c + i, k) BY <1>2, <2>3, <3>1, <3>2 DEF IsLast, Concerns
    <3> QED BY <1>2, <1>3, <2>1, <3>1, <3>3 DEF IInv, EntryInv
  <2> QED BY <2>2, <2>3
<1>15. PinInv'
  <2> SUFFICES ASSUME NEW k \in Keys, cache'[k].pinned
               PROVE  \E i \in DOMAIN log' : log'[i].op # "clear" /\ log'[i].key = k
    BY DEF PinInv
  <2>1. cache[k].pinned /\ Settling(k) = {} BY <1>8
  <2>2. PICK i \in DOMAIN log : log[i].op # "clear" /\ log[i].key = k BY <2>1 DEF IInv, PinInv
  <2>3. i \notin Reached BY <2>1, <2>2 DEF Settling
  <2>4. i > c BY <1>2, <1>10, <2>3
  <2>5. i - c \in DOMAIN log' /\ log'[i - c] = log[i] BY <1>2, <1>5, <1>7, <2>4
  <2> QED BY <2>2, <2>5
<1> QED BY <1>11, <1>12, <1>13, <1>14, <1>15 DEF IInv

\* Every step of the program, of the write thread and of settling keeps it.
LEMMA NextIInv == IInv /\ [Next]_vars => IInv'
<1>1. ASSUME IInv, Next PROVE IInv'
  <2>1. \A k \in Keys : putSync(k) \/ removeSync(k) =>
        \E v \in Values, applied \in BOOLEAN : Sync(k, v, applied)
    BY DEF putSync, removeSync, Values
  <2> QED BY <1>1, <2>1, GetStep, SyncStep, WriteStep, DropStep, ExecuteStep, CommitStep, ResolveStep
    DEF Next
<1>2. ASSUME IInv, UNCHANGED vars PROVE IInv'
  BY <1>2 DEF vars, IInv, TypeOK, TxnsInv, ReadInv, EntryInv, PinInv, Outstanding, IsLast,
              Rejected, Concerns
<1> QED BY <1>1, <1>2

-----------------------------------------------------------------------------
(* Theorems. *)

\* The inductive invariant holds in every reachable state.
LEMMA AlwaysIInv == Spec => []IInv
BY InitIInv, NextIInv, PTL DEF Spec

\* The slots of the queue that the cache relies on, the entries and what the reads
\* see keep their types, for any number of keys, values and unsettled writes.
THEOREM CacheTyped == Spec => []TypeOK
<1>1. IInv => TypeOK BY DEF IInv
<1> QED BY <1>1, AlwaysIInv, PTL

\* With no write of a key unsettled, its entry is what the store holds, in every order
\* of writes, reads, commits, rejections and settlements, but for three kinds of entry
\* that the code leaves: made by a read or a synchronous put that overtook an
\* outstanding write of the key, by a put whose commit was rejected, or by a
\* synchronous put that was not applied.
THEOREM CacheFreshCorrect == Spec => []CacheFresh
<1>1. IInv => CacheFresh BY DEF IInv, EntryInv, CacheFresh
<1> QED BY <1>1, AlwaysIInv, PTL

\* No entry stays pinned when the writes of its key are settled, whatever becomes of
\* them: the listener is called for each of them at least once.
THEOREM PinsReleasedCorrect == Spec => []PinsReleased
<1>1. IInv => PinsReleased BY DEF IInv, PinInv, PinsReleased, Outstanding, Concerns
<1> QED BY <1>1, AlwaysIInv, PTL
===========================================================================
