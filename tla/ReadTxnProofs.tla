---------------------------- MODULE ReadTxnProofs ----------------------------
(***************************************************************************)
(* Proofs about ReadTxn, for any number of iterators, cursors, transactions *)
(* and commits.  IInv is the inductive invariant: what the counts on a      *)
(* transaction count (CountInv), in which state each transaction is and who *)
(* keeps it (SharedInv), what a call has in its hands (CallInv), what an    *)
(* iterator and the store may hold (IterInv, CursorExclusive,               *)
(* AvailableInv), and what is queued ahead of a reaction (SeenInv).         *)
(***************************************************************************)
EXTENDS ReadTxn, FiniteSetTheorems, TLAPS

-----------------------------------------------------------------------------
(* The inductive invariant. *)

\* The iterators open on t, and those of them that follow it.
On(t) == {i \in Iterators : iter[i].on /\ iter[i].txn = t}
Following(t) == {i \in On(t) : iter[i].renew # "none"}

\* The properties that read.js keeps on a transaction are what their names say.
CountInv ==
    \A t \in Txns :
        /\ txn[t].cursorCount = Cardinality(On(t))
        /\ txn[t].renewingCursorCount = Cardinality(Following(t))

\* The shared transaction is active as long as it is renewed and reset otherwise;
\* any other read transaction is kept, active, for the iterators on it.
TxnOK(t) ==
    /\ t = readTxn => txn[t].lmdb = IF readTxnRenewed THEN "active" ELSE "reset"
    /\ txn[t].lmdb = "write" => t = writeTxn
    /\ txn[t].lmdb \in {"active", "reset"} /\ t # readTxn =>
         txn[t].lmdb = "active" /\ On(t) # {}
    /\ txn[t].lmdb = "ended" => On(t) = {}
    /\ txn[t].onlyCursor <=> txn[t].lmdb \in {"active", "reset"} /\ t # readTxn
SharedInv ==
    /\ readTxn # None => currentReadTxn = readTxn
    /\ readTxnRenewed => readTxn # None
    /\ writeTxn # None => txn[writeTxn].lmdb = "write"
    /\ \A t \in Txns : TxnOK(t)

\* A call of the program has an iterator of its own.
CallInv ==
    /\ call.at = "idle" => call = Idle
    /\ call.at \in {"open", "again", "read"} => call.i \in Iterators
    /\ call.at \in {"open", "again"} => ~iter[call.i].on
    /\ call.at = "open" => ~iter[call.i].started
    /\ call.at = "again" => ~iter[call.i].snapshot
    /\ call.at = "read" =>
         iter[call.i].on /\ iter[call.i].renew = "current" /\ iter[call.i].txn # None

\* What an iterator holds.  One that follows is on a transaction that it may read
\* until resetReadTxn makes it stale; one with a snapshot keeps its transaction.
IterOK(i) ==
    LET it == iter[i]
        c == cursor[it.cursor]
    IN  /\ it.txn # None => it.on
        /\ it.cursor # None <=> it.txn # None
        /\ ~it.on => it.renew = "none"
        /\ it.on => (it.renew = "none" <=> it.snapshot)
        /\ it.on /\ it.renew = "none" =>
             it.txn # None /\ txn[it.txn].lmdb = "active" /\ txn[it.txn].snap = it.view
        /\ it.txn # None /\ it.renew = "current" =>
             it.txn = writeTxn \/ (it.txn = readTxn /\ readTxnRenewed)
        /\ it.txn # None => c.txn = it.txn
        /\ it.txn # None /\ it.renew # "stale" =>
             \/ c.snap = txn[it.txn].snap
             \/ it.flag /\ (~it.started \/ call = [at |-> "read", i |-> i])
IterInv == \A i \in Iterators : IterOK(i)

\* The cursor that the store keeps is on the transaction it was last used on.
AvailableInv ==
    /\ available.cursor = None => available.txn = None
    /\ available.txn # None =>
         /\ cursor[available.cursor].txn = available.txn
         /\ txn[available.txn].lmdb \in {"active", "reset"}

\* A reaction in the queue has a reset ahead of it, or reads are fresh enough.
SeenInv ==
    /\ seen <= committed
    /\ \A k \in DOMAIN microtasks : microtasks[k] <= committed
    /\ readTxnRenewed =>
         /\ txn[readTxn].snap >= seen
         /\ \A k \in DOMAIN microtasks :
              (\A m \in 1..(k - 1) : microtasks[m] # 0) => txn[readTxn].snap >= microtasks[k]

IInv == TypeOK /\ CountInv /\ SharedInv /\ CallInv /\ IterInv /\ CursorExclusive /\ AvailableInv
          /\ SeenInv

-----------------------------------------------------------------------------
(* Helpers. *)

\* The iterators on a transaction, and of them those that follow, are counted.
LEMMA Counting ==
    ASSUME NEW t
    PROVE  /\ IsFiniteSet(On(t)) /\ IsFiniteSet(Following(t)) /\ Following(t) \subseteq On(t)
           /\ Cardinality(On(t)) \in Nat /\ Cardinality(Following(t)) \in Nat
           /\ Cardinality(Following(t)) <= Cardinality(On(t))
           /\ (Cardinality(On(t)) = 0 <=> On(t) = {})
           /\ (Cardinality(Following(t)) = Cardinality(On(t)) => Following(t) = On(t))
<1>1. On(t) \in SUBSET Iterators /\ Following(t) \in SUBSET On(t) BY DEF On, Following
<1>2. IsFiniteSet(On(t)) BY <1>1, FS_Subset, ReadBounds
<1>3. IsFiniteSet(Following(t)) BY <1>1, <1>2, FS_Subset
<1>4. /\ Cardinality(Following(t)) <= Cardinality(On(t))
      /\ (Cardinality(Following(t)) = Cardinality(On(t)) => Following(t) = On(t))
  BY <1>1, <1>2, FS_Subset
<1> QED BY <1>1, <1>2, <1>3, <1>4, FS_CardinalityType, FS_EmptySet

\* HoldsSnapshot is true when an iterator with a snapshot is open on t.
LEMMA HoldsSnapshotMeaning ==
    ASSUME IInv, NEW t \in Txns
    PROVE  HoldsSnapshot(t) <=> \E i \in Iterators : iter[i].on /\ iter[i].txn = t /\ iter[i].renew = "none"
<1>1. HoldsSnapshot(t) <=> Cardinality(On(t)) # Cardinality(Following(t))
  BY Counting DEF IInv, CountInv, HoldsSnapshot
<1>2. HoldsSnapshot(t) <=> On(t) # Following(t) BY <1>1, Counting
<1> QED BY <1>2 DEF On, Following

\* Where native code renews the transaction it reads, it is renewed already, and
\* it is the one that read.js means.
LEMMA NativeSame ==
    ASSUME IInv, ReadyToRead \/ readTxnRenewed
    PROVE  /\ NativeRenewed = txn
           /\ ReadyToRead /\ writeTxn = None => GetReadTxn = readTxn /\ readTxn \in Txns
           /\ writeTxn # None => GetReadTxn = writeTxn /\ writeTxn \in Txns
<1>1. readTxnRenewed => readTxn \in Txns /\ currentReadTxn = readTxn /\ txn[readTxn].lmdb = "active"
  BY DEF IInv, TypeOK, SharedInv, TxnOK
<1> QED BY <1>1 DEF NativeRenewed, GetReadTxn, ReadyToRead, IInv, TypeOK

\* The invariant holds at the start.
LEMMA InitIInv == Init => IInv
<1> SUFFICES ASSUME Init PROVE IInv OBVIOUS
<1> USE DEF Init, EndedTxn, NewIter, NoCursor, NoAvailable, Idle
<1>1. TypeOK
  <2>1. txn \in [Txns -> Txn]
    <3>1. EndedTxn \in Txn BY DEF Txn
    <3> QED BY <3>1
  <2>2. iter \in [Iterators -> Iter]
    <3>1. NewIter(TRUE) \in Iter BY DEF Iter
    <3> QED BY <3>1
  <2>3. {readTxnRenewed, timer, ewRenewed} \subseteq BOOLEAN OBVIOUS
  <2>4. call \in [at : {"idle", "get", "stat", "open", "again", "read"}, i : Iterators \cup {None}]
    OBVIOUS
  <2>5. microtasks \in Seq(Nat) OBVIOUS
  <2>6. /\ {committed, seen} \subseteq Nat /\ {readTxn, currentReadTxn, writeTxn} \subseteq Txns \cup {None}
        /\ cursor \in [Cursors -> [txn : Txns \cup {None}, snap : Nat]]
        /\ available \in [cursor : Cursors \cup {None}, txn : Txns \cup {None}]
    OBVIOUS
  <2> QED BY <2>1, <2>2, <2>3, <2>4, <2>5, <2>6 DEF TypeOK
<1>2. \A t \in Txns : On(t) = {} /\ Following(t) = {} BY DEF On, Following
<1>3. CountInv BY <1>2, FS_EmptySet DEF CountInv
<1>4. SharedInv BY <1>2, ReadBounds DEF SharedInv, TxnOK
<1>5. CallInv BY DEF CallInv
<1>6. IterInv BY DEF IterInv, IterOK
<1>7. CursorExclusive BY DEF CursorExclusive
<1>8. AvailableInv BY DEF AvailableInv
<1>9. SeenInv BY DEF SeenInv
<1> QED BY <1>1, <1>3, <1>4, <1>5, <1>6, <1>7, <1>8, <1>9 DEF IInv

-----------------------------------------------------------------------------
(* Steps that change no transaction, iterator or cursor. *)

heldVars == <<readTxn, readTxnRenewed, currentReadTxn, writeTxn, txn, cursor, available, iter>>

\* Most of the invariant does not depend on calls, timers and commits.
LEMMA HeldStep ==
    ASSUME IInv, UNCHANGED heldVars, call.at = "read" => call' = call
    PROVE  CountInv' /\ SharedInv' /\ IterInv' /\ CursorExclusive' /\ AvailableInv'
<1> USE DEF heldVars
<1>1. \A t : On(t)' = On(t) /\ Following(t)' = Following(t) BY DEF On, Following
<1>2. CountInv' BY <1>1 DEF IInv, CountInv
<1>3. SharedInv' BY <1>1 DEF IInv, SharedInv, TxnOK
<1>4. IterInv'
  <2>1. ASSUME NEW i \in Iterators, call = [at |-> "read", i |-> i] PROVE call' = call BY <2>1
  <2> QED BY <2>1 DEF IInv, IterInv, IterOK
<1>5. CursorExclusive' BY DEF IInv, CursorExclusive
<1>6. AvailableInv' BY DEF IInv, AvailableInv
<1> QED BY <1>2, <1>3, <1>4, <1>5, <1>6

\* The start of a get() and of a getStats().
LEMMA StartGetStep == ASSUME IInv, NEW at \in {"get", "stat"}, StartGet(at) PROVE IInv'
<1> USE DEF StartGet, MayCall, Idle, readVars, cursorVars, loopVars
<1>1. call.at = "idle" OBVIOUS
<1>2. CountInv' /\ SharedInv' /\ IterInv' /\ CursorExclusive' /\ AvailableInv'
  BY <1>1, HeldStep DEF heldVars
<1>3. TypeOK' BY DEF IInv, TypeOK
<1>4. CallInv' BY DEF IInv, CallInv
<1>5. SeenInv' BY DEF IInv, SeenInv
<1> QED BY <1>2, <1>3, <1>4, <1>5 DEF IInv

\* The native read renews nothing.
LEMMA GetStep == ASSUME IInv, Get PROVE IInv'
<1> USE DEF Idle, cursorVars, loopVars
<1>1. call.at \in {"get", "stat"} /\ (ReadyToRead \/ readTxnRenewed) /\ call' = Idle BY DEF Get
<1>2. txn' = txn BY <1>1, NativeSame DEF Get
<1>3. UNCHANGED <<committed, readTxn, readTxnRenewed, timer, currentReadTxn, writeTxn, cursor,
                  available, iter, microtasks, seen>>
  BY DEF Get
<1>4. CountInv' /\ SharedInv' /\ IterInv' /\ CursorExclusive' /\ AvailableInv'
  BY <1>1, <1>2, <1>3, HeldStep DEF heldVars
<1>5. TypeOK'
  <2>1. ewRenewed' \in BOOLEAN BY DEF Get
  <2> QED BY <1>1, <1>2, <1>3, <2>1 DEF IInv, TypeOK
<1>6. CallInv' BY <1>1 DEF CallInv
<1>7. SeenInv' BY <1>2, <1>3 DEF IInv, SeenInv
<1> QED BY <1>4, <1>5, <1>6, <1>7 DEF IInv

\* A commit of the write thread touches no snapshot.
LEMMA CommitStep == ASSUME IInv, Commit PROVE IInv'
<1> USE DEF Commit, readVars, cursorVars, loopVars
<1>1. CountInv' /\ SharedInv' /\ IterInv' /\ CursorExclusive' /\ AvailableInv'
  BY HeldStep DEF heldVars
<1>2. TypeOK' BY DEF IInv, TypeOK
<1>3. CallInv' BY DEF IInv, CallInv
<1>4. SeenInv'
  <2>1. committed \in Nat /\ seen \in Nat /\ microtasks \in Seq(Nat) BY DEF IInv, TypeOK
  <2>2. \A k \in DOMAIN microtasks : microtasks[k] \in Nat BY <2>1
  <2> QED BY <2>1, <2>2 DEF IInv, SeenInv
<1> QED BY <1>1, <1>2, <1>3, <1>4 DEF IInv

\* resolveCommit(false) queues the reset ahead of the reactions.
LEMMA ResolveSyncStep == ASSUME IInv, NEW v \in 1..committed, ResolveSync(v) PROVE IInv'
<1> USE DEF ResolveSync, Jobs, readVars, cursorVars
<1>1. CountInv' /\ SharedInv' /\ IterInv' /\ CursorExclusive' /\ AvailableInv'
  BY HeldStep DEF heldVars
<1>2. /\ committed \in Nat /\ v \in Nat /\ v <= committed /\ microtasks \in Seq(Nat)
      /\ Len(microtasks) \in Nat
  BY DEF IInv, TypeOK
<1>3. /\ microtasks' \in Seq(Nat) /\ Len(microtasks') = Len(microtasks) + 2
      /\ \A k \in 1..Len(microtasks) : microtasks'[k] = microtasks[k]
      /\ microtasks'[Len(microtasks) + 1] = 0
      /\ microtasks'[Len(microtasks) + 2] = v
  BY <1>2
<1>4. TypeOK' BY <1>3 DEF IInv, TypeOK
<1>5. CallInv' BY DEF IInv, CallInv
<1>6. SeenInv'
  <2>1. DOMAIN microtasks' = 1..(Len(microtasks) + 2) /\ DOMAIN microtasks = 1..Len(microtasks)
    BY <1>2, <1>3
  <2>2. \A k \in DOMAIN microtasks' : microtasks'[k] <= committed
    BY <1>2, <1>3, <2>1 DEF IInv, SeenInv
  <2>3. ASSUME readTxnRenewed, NEW k \in DOMAIN microtasks', \A m \in 1..(k - 1) : microtasks'[m] # 0
        PROVE  txn[readTxn].snap >= microtasks'[k]
    <3>1. readTxn \in Txns /\ txn[readTxn].snap \in Nat
      BY <2>3 DEF IInv, TypeOK, SharedInv, TxnOK, Txn
    <3>2. CASE k \in 1..Len(microtasks)
      <4>1. \A m \in 1..(k - 1) : microtasks[m] # 0 BY <1>2, <1>3, <2>3, <3>2
      <4> QED BY <1>3, <2>1, <2>3, <3>2, <4>1 DEF IInv, SeenInv
    <3>3. CASE k = Len(microtasks) + 1
      BY <1>3, <3>1, <3>3
    <3>4. CASE k = Len(microtasks) + 2
      <4>1. Len(microtasks) + 1 \in 1..(k - 1) BY <1>2, <3>4
      <4> QED BY <1>3, <2>3, <4>1
    <3> QED BY <1>2, <2>1, <2>3, <3>2, <3>3, <3>4
  <2> QED BY <2>2, <2>3 DEF IInv, SeenInv
<1> QED BY <1>1, <1>4, <1>5, <1>6 DEF IInv

\* A reaction runs: no reset was ahead of it, so the reads are fresh enough.
LEMMA ReactionStep == ASSUME IInv, MicrotaskReaction PROVE IInv'
<1> USE DEF MicrotaskReaction, readVars, cursorVars
<1>1. CountInv' /\ SharedInv' /\ IterInv' /\ CursorExclusive' /\ AvailableInv'
  BY HeldStep DEF heldVars
<1>2. /\ microtasks \in Seq(Nat) /\ microtasks # <<>> /\ Len(microtasks) \in Nat
      /\ Head(microtasks) = microtasks[1] /\ microtasks[1] \in Nat /\ microtasks[1] # 0
      /\ microtasks' \in Seq(Nat) /\ Len(microtasks') = Len(microtasks) - 1
      /\ \A k \in 1..(Len(microtasks) - 1) : microtasks'[k] = microtasks[k + 1]
      /\ DOMAIN microtasks = 1..Len(microtasks) /\ DOMAIN microtasks' = 1..(Len(microtasks) - 1)
      /\ Len(microtasks) >= 1
  BY DEF IInv, TypeOK
<1>3. seen' \in {seen, microtasks[1]} /\ seen \in Nat BY <1>2 DEF IInv, TypeOK
<1>4. TypeOK' BY <1>2, <1>3 DEF IInv, TypeOK
<1>5. CallInv' BY DEF IInv, CallInv
<1>6. SeenInv'
  <2>1. seen' <= committed' /\ \A k \in DOMAIN microtasks' : microtasks'[k] <= committed'
    BY <1>2, <1>3 DEF IInv, SeenInv
  <2>2. ASSUME readTxnRenewed PROVE txn[readTxn].snap >= seen'
    BY <1>2, <1>3, <2>2 DEF IInv, SeenInv
  <2>3. ASSUME readTxnRenewed, NEW k \in DOMAIN microtasks', \A m \in 1..(k - 1) : microtasks'[m] # 0
        PROVE  txn[readTxn].snap >= microtasks'[k]
    <3>1. k \in Nat /\ k + 1 \in DOMAIN microtasks /\ microtasks'[k] = microtasks[k + 1]
      BY <1>2, <2>3
    <3>2. ASSUME NEW m \in 1..k PROVE microtasks[m] # 0
      <4>1. CASE m = 1 BY <1>2, <4>1
      <4>2. CASE m # 1
        <5>1. m - 1 \in 1..(k - 1) /\ m - 1 \in 1..(Len(microtasks) - 1) /\ (m - 1) + 1 = m
          BY <1>2, <3>1, <4>2
        <5> QED BY <1>2, <2>3, <5>1
      <4> QED BY <4>1, <4>2
    <3>3. (k + 1) - 1 = k BY <3>1
    <3> QED BY <2>3, <3>1, <3>2, <3>3 DEF IInv, SeenInv
  <2> QED BY <2>1, <2>2, <2>3 DEF IInv, SeenInv
<1> QED BY <1>1, <1>4, <1>5, <1>6 DEF IInv

-----------------------------------------------------------------------------
(* resetReadTxn(). *)

\* What resetReadTxn() does to transactions tx and iterators its: it makes those
\* that follow stale, and resets the shared transaction or gives it up to the
\* iterators that hold a snapshot of it.
LEMMA ResetEffect ==
    ASSUME IInv, NEW tx \in [Txns -> Txn], NEW its \in [Iterators -> Iter],
           ResetReadTxn(tx, its), readTxn # None => tx[readTxn] = txn[readTxn]
    PROVE  /\ iter' \in [Iterators -> Iter] /\ txn' \in [Txns -> Txn]
           /\ readTxn' \in Txns \cup {None} /\ ewRenewed' \in BOOLEAN /\ readTxnRenewed' = FALSE
           /\ \A i \in Iterators :
                /\ iter'[i].on = its[i].on /\ iter'[i].snapshot = its[i].snapshot
                /\ iter'[i].txn = its[i].txn /\ iter'[i].cursor = its[i].cursor
                /\ iter'[i].flag = its[i].flag /\ iter'[i].started = its[i].started
                /\ iter'[i].view = its[i].view
                /\ iter'[i].renew # "current" /\ (iter'[i].renew = "none" <=> its[i].renew = "none")
           /\ \A t \in Txns :
                /\ txn'[t].cursorCount = tx[t].cursorCount
                /\ txn'[t].renewingCursorCount = tx[t].renewingCursorCount
                /\ txn'[t].snap = tx[t].snap
                /\ t # readTxn => txn'[t] = tx[t]
           /\ \/ /\ readTxn' = readTxn
                 /\ readTxn # None => /\ txn'[readTxn].lmdb = "reset"
                                      /\ txn'[readTxn].onlyCursor = tx[readTxn].onlyCursor
                                      /\ ~readTxnRenewed \/ ~HoldsSnapshot(readTxn)
              \/ /\ readTxn' = None /\ readTxn # None /\ HoldsSnapshot(readTxn)
                 /\ txn'[readTxn].lmdb = "active" /\ txn'[readTxn].onlyCursor = TRUE
<1>0. readTxn \in Txns \cup {None} /\ ewRenewed \in BOOLEAN /\ None \notin Txns
  BY ReadBounds DEF IInv, TypeOK
<1>1. ASSUME NEW i \in Iterators
      PROVE  /\ iter'[i] \in Iter
             /\ iter'[i].on = its[i].on /\ iter'[i].snapshot = its[i].snapshot
             /\ iter'[i].txn = its[i].txn /\ iter'[i].cursor = its[i].cursor
             /\ iter'[i].flag = its[i].flag /\ iter'[i].started = its[i].started
             /\ iter'[i].view = its[i].view
             /\ iter'[i].renew # "current" /\ (iter'[i].renew = "none" <=> its[i].renew = "none")
  <2>1. its[i] \in Iter OBVIOUS
  <2>2. CASE its[i].renew = "current"
    <3>1. iter'[i] = [its[i] EXCEPT !.renew = "stale"] BY <2>2 DEF ResetReadTxn
    <3> QED BY <2>1, <2>2, <3>1 DEF Iter
  <2>3. CASE its[i].renew # "current"
    <3>1. iter'[i] = its[i] BY <2>3 DEF ResetReadTxn
    <3> QED BY <2>1, <2>3, <3>1
  <2> QED BY <2>2, <2>3
<1>2. iter' \in [Iterators -> Iter]
  <2>1. iter' = [i \in Iterators |-> iter'[i]] BY DEF ResetReadTxn
  <2> QED BY <1>1, <2>1
<1>3. readTxnRenewed' = FALSE BY DEF ResetReadTxn
<1>4. CASE ~readTxnRenewed
  <2>1. txn' = tx /\ readTxn' = readTxn /\ ewRenewed' = ewRenewed BY <1>4 DEF ResetReadTxn
  <2>2. readTxn # None => txn[readTxn].lmdb = "reset" BY <1>0, <1>4 DEF IInv, SharedInv, TxnOK
  <2> QED BY <1>0, <1>1, <1>2, <1>3, <1>4, <2>1, <2>2
<1>5. CASE readTxnRenewed /\ HoldsSnapshot(readTxn)
  <2>1. /\ txn' = [tx EXCEPT ![readTxn].onlyCursor = TRUE]
        /\ readTxn' = None /\ ewRenewed' = ewRenewed
    BY <1>5 DEF ResetReadTxn
  <2>2. readTxn \in Txns /\ txn[readTxn].lmdb = "active" BY <1>0, <1>5 DEF IInv, SharedInv, TxnOK
  <2>3. tx[readTxn] \in Txn BY <2>2
  <2>4. txn'[readTxn] = [tx[readTxn] EXCEPT !.onlyCursor = TRUE] BY <2>1, <2>2
  <2>5. [tx[readTxn] EXCEPT !.onlyCursor = TRUE] \in Txn BY <2>3 DEF Txn
  <2>6. \A t \in Txns : t # readTxn => txn'[t] = tx[t] BY <2>1
  <2>7. /\ txn'[readTxn].cursorCount = tx[readTxn].cursorCount
        /\ txn'[readTxn].renewingCursorCount = tx[readTxn].renewingCursorCount
        /\ txn'[readTxn].snap = tx[readTxn].snap
        /\ txn'[readTxn].lmdb = "active" /\ txn'[readTxn].onlyCursor = TRUE
    BY <1>0, <2>2, <2>3, <2>4 DEF Txn
  <2>8. txn' \in [Txns -> Txn] BY <2>1, <2>2, <2>5
  <2> QED BY <1>0, <1>1, <1>2, <1>3, <1>5, <2>1, <2>2, <2>6, <2>7, <2>8
<1>6. CASE readTxnRenewed /\ ~HoldsSnapshot(readTxn)
  <2>1. /\ txn' = [tx EXCEPT ![readTxn].lmdb = "reset"]
        /\ readTxn' = readTxn /\ ewRenewed' = FALSE
    BY <1>6 DEF ResetReadTxn
  <2>2. readTxn \in Txns BY <1>0, <1>6 DEF IInv, SharedInv, TxnOK
  <2>3. tx[readTxn] \in Txn BY <2>2
  <2>4. txn'[readTxn] = [tx[readTxn] EXCEPT !.lmdb = "reset"] BY <2>1, <2>2
  <2>5. [tx[readTxn] EXCEPT !.lmdb = "reset"] \in Txn BY <2>3 DEF Txn
  <2>6. \A t \in Txns : t # readTxn => txn'[t] = tx[t] BY <2>1
  <2>7. /\ txn'[readTxn].cursorCount = tx[readTxn].cursorCount
        /\ txn'[readTxn].renewingCursorCount = tx[readTxn].renewingCursorCount
        /\ txn'[readTxn].snap = tx[readTxn].snap
        /\ txn'[readTxn].lmdb = "reset" /\ txn'[readTxn].onlyCursor = tx[readTxn].onlyCursor
    BY <2>2, <2>3, <2>4 DEF Txn
  <2>8. txn' \in [Txns -> Txn] BY <2>1, <2>2, <2>5
  <2> QED BY <1>0, <1>1, <1>2, <1>3, <1>6, <2>1, <2>2, <2>6, <2>7, <2>8
<1> QED BY <1>4, <1>5, <1>6

\* The parts of the invariant that resetReadTxn() keeps, whoever calls it.
LEMMA ResetStep ==
    ASSUME IInv, ResetReadTxn(txn, iter), call = Idle,
           UNCHANGED <<currentReadTxn, writeTxn, cursor, available, call>>
    PROVE  /\ CountInv' /\ SharedInv' /\ CallInv' /\ IterInv' /\ CursorExclusive' /\ AvailableInv'
           /\ iter' \in [Iterators -> Iter] /\ txn' \in [Txns -> Txn]
           /\ readTxn' \in Txns \cup {None} /\ ewRenewed' \in BOOLEAN /\ readTxnRenewed' = FALSE
<1>1. txn \in [Txns -> Txn] /\ iter \in [Iterators -> Iter] BY DEF IInv, TypeOK
<1>2. /\ iter' \in [Iterators -> Iter] /\ txn' \in [Txns -> Txn]
      /\ readTxn' \in Txns \cup {None} /\ ewRenewed' \in BOOLEAN /\ readTxnRenewed' = FALSE
  BY <1>1, ResetEffect
<1>3. \A i \in Iterators :
        /\ iter'[i].on = iter[i].on /\ iter'[i].snapshot = iter[i].snapshot
        /\ iter'[i].txn = iter[i].txn /\ iter'[i].cursor = iter[i].cursor
        /\ iter'[i].flag = iter[i].flag /\ iter'[i].started = iter[i].started
        /\ iter'[i].view = iter[i].view
        /\ iter'[i].renew # "current" /\ (iter'[i].renew = "none" <=> iter[i].renew = "none")
  BY <1>1, ResetEffect
<1>4. \A t \in Txns :
        /\ txn'[t].cursorCount = txn[t].cursorCount
        /\ txn'[t].renewingCursorCount = txn[t].renewingCursorCount
        /\ txn'[t].snap = txn[t].snap
        /\ t # readTxn => txn'[t] = txn[t]
  BY <1>1, ResetEffect
<1>5. \/ /\ readTxn' = readTxn
         /\ readTxn # None => /\ txn'[readTxn].lmdb = "reset"
                              /\ txn'[readTxn].onlyCursor = txn[readTxn].onlyCursor
                              /\ ~readTxnRenewed \/ ~HoldsSnapshot(readTxn)
      \/ /\ readTxn' = None /\ readTxn # None /\ HoldsSnapshot(readTxn)
         /\ txn'[readTxn].lmdb = "active" /\ txn'[readTxn].onlyCursor = TRUE
  BY <1>1, ResetEffect
<1>6. \A t : On(t)' = On(t) /\ Following(t)' = Following(t) BY <1>3 DEF On, Following
<1>7. readTxn # None =>
        /\ readTxn \in Txns
        /\ HoldsSnapshot(readTxn) <=>
             \E i \in Iterators : iter[i].on /\ iter[i].txn = readTxn /\ iter[i].renew = "none"
  BY HoldsSnapshotMeaning DEF IInv, TypeOK
<1>8. None \notin Txns BY ReadBounds
<1>9. CountInv' BY <1>4, <1>6 DEF IInv, CountInv
<1>10. SharedInv'
  <2>1. /\ readTxn' # None => currentReadTxn' = readTxn'
        /\ readTxnRenewed' => readTxn' # None
    BY <1>2, <1>5 DEF IInv, SharedInv, TxnOK
  <2>2. writeTxn' # None => txn'[writeTxn'].lmdb = "write"
    BY <1>4 DEF IInv, SharedInv, TxnOK, TypeOK
  <2>3. ASSUME NEW t \in Txns
        PROVE  TxnOK(t)'
    <3>1. CASE t # readTxn
      <4>1. txn'[t] = txn[t] /\ t # readTxn' /\ On(t)' = On(t) /\ writeTxn' = writeTxn
        BY <1>4, <1>5, <1>6, <1>8, <3>1
      <4>2. /\ txn[t].lmdb = "write" => t = writeTxn
            /\ txn[t].lmdb \in {"active", "reset"} => txn[t].lmdb = "active" /\ On(t) # {}
            /\ txn[t].lmdb = "ended" => On(t) = {}
            /\ txn[t].onlyCursor <=> txn[t].lmdb \in {"active", "reset"}
        BY <3>1 DEF IInv, SharedInv, TxnOK
      <4> QED BY <4>1, <4>2 DEF TxnOK
    <3>2. CASE t = readTxn
      <4>1. HoldsSnapshot(t) => On(t) # {} BY <1>7, <3>2, <1>8 DEF On
      <4>2. ~txn[t].onlyCursor BY <3>2 DEF IInv, SharedInv, TxnOK
      <4> QED BY <1>2, <1>5, <1>6, <1>8, <3>2, <4>1, <4>2 DEF TxnOK
    <3> QED BY <3>1, <3>2
  <2> QED BY <2>1, <2>2, <2>3 DEF SharedInv
<1>11. CallInv' BY DEF CallInv, Idle
<1>12. IterInv'
  <2> SUFFICES ASSUME NEW i \in Iterators
               PROVE  IterOK(i)'
    BY DEF IterInv
  <2>1. iter[i] \in Iter /\ iter'[i] \in Iter /\ iter[i].txn \in Txns \cup {None}
    BY <1>1, <1>2 DEF Iter
  <2>2. iter[i].on /\ iter[i].renew = "none" => txn'[iter[i].txn].lmdb = "active"
    <3>1. SUFFICES ASSUME iter[i].on, iter[i].renew = "none" PROVE txn'[iter[i].txn].lmdb = "active"
      OBVIOUS
    <3>2. iter[i].txn \in Txns /\ txn[iter[i].txn].lmdb = "active"
      BY <2>1, <3>1 DEF IInv, IterInv, IterOK
    <3>3. CASE iter[i].txn # readTxn BY <1>4, <3>2, <3>3
    <3>4. CASE iter[i].txn = readTxn
      <4>1. HoldsSnapshot(readTxn) /\ readTxn # None BY <1>7, <1>8, <3>1, <3>2, <3>4
      <4>2. readTxnRenewed BY <3>2, <3>4 DEF IInv, SharedInv, TxnOK
      <4> QED BY <1>5, <3>4, <4>1, <4>2
    <3> QED BY <3>3, <3>4
  <2>3. iter'[i].renew # "stale" => iter[i].renew # "stale" /\ iter'[i].renew = "none"
    BY <1>3, <2>1 DEF Iter
  <2> QED BY <1>3, <1>4, <1>8, <2>1, <2>2, <2>3 DEF IInv, IterInv, IterOK, Idle
<1>13. CursorExclusive' BY <1>3 DEF IInv, CursorExclusive
<1>14. AvailableInv'
  <2>1. SUFFICES ASSUME available.txn # None PROVE txn'[available.txn].lmdb \in {"active", "reset"}
    BY DEF IInv, AvailableInv
  <2>2. available.txn \in Txns BY <2>1 DEF IInv, TypeOK
  <2> QED BY <1>4, <1>5, <2>1, <2>2, <1>8 DEF IInv, AvailableInv
<1> QED BY <1>2, <1>9, <1>10, <1>11, <1>12, <1>13, <1>14

\* Its callers, but for the end of a synchronous transaction.
LEMMA TimerStep == ASSUME IInv, Timer \/ ExplicitReset PROVE IInv'
<1>1. /\ ResetReadTxn(txn, iter) /\ call = Idle /\ timer' \in BOOLEAN
      /\ UNCHANGED <<currentReadTxn, writeTxn, cursor, available, call>>
      /\ UNCHANGED <<committed, microtasks, seen>>
  BY DEF Timer, ExplicitReset, MayCall, cursorVars, loopVars, IInv, TypeOK
<1>2. /\ CountInv' /\ SharedInv' /\ CallInv' /\ IterInv' /\ CursorExclusive' /\ AvailableInv'
      /\ iter' \in [Iterators -> Iter] /\ txn' \in [Txns -> Txn]
      /\ readTxn' \in Txns \cup {None} /\ ewRenewed' \in BOOLEAN /\ readTxnRenewed' = FALSE
  BY <1>1, ResetStep
<1>3. TypeOK' BY <1>1, <1>2 DEF IInv, TypeOK
<1>4. SeenInv' BY <1>1, <1>2 DEF IInv, SeenInv
<1> QED BY <1>2, <1>3, <1>4 DEF IInv

\* resolveCommit(true): the reset runs before the reactions are queued.
LEMMA ResolveAsyncStep == ASSUME IInv, NEW v \in 1..committed, ResolveAsync(v) PROVE IInv'
<1>1. /\ ResetReadTxn(txn, iter) /\ call = Idle
      /\ UNCHANGED <<currentReadTxn, writeTxn, cursor, available, call>>
      /\ UNCHANGED <<committed, timer, seen>> /\ microtasks' = <<v>>
  BY DEF ResolveAsync, MayCall, cursorVars
<1>2. /\ CountInv' /\ SharedInv' /\ CallInv' /\ IterInv' /\ CursorExclusive' /\ AvailableInv'
      /\ iter' \in [Iterators -> Iter] /\ txn' \in [Txns -> Txn]
      /\ readTxn' \in Txns \cup {None} /\ ewRenewed' \in BOOLEAN /\ readTxnRenewed' = FALSE
  BY <1>1, ResetStep
<1>3. committed \in Nat /\ v \in Nat /\ v <= committed BY DEF IInv, TypeOK
<1>4. microtasks' \in Seq(Nat) BY <1>1, <1>3
<1>5. TypeOK' BY <1>1, <1>2, <1>4 DEF IInv, TypeOK
<1>6. SeenInv' BY <1>1, <1>2, <1>3 DEF IInv, SeenInv
<1> QED BY <1>2, <1>5, <1>6 DEF IInv

\* The queued reset runs.
LEMMA MicrotaskResetStep == ASSUME IInv, MicrotaskReset PROVE IInv'
<1>1. /\ ResetReadTxn(txn, iter) /\ call = Idle
      /\ UNCHANGED <<currentReadTxn, writeTxn, cursor, available, call>>
      /\ UNCHANGED <<committed, timer, seen>>
      /\ microtasks # <<>> /\ microtasks' = Tail(microtasks)
  BY DEF MicrotaskReset, cursorVars
<1>2. /\ CountInv' /\ SharedInv' /\ CallInv' /\ IterInv' /\ CursorExclusive' /\ AvailableInv'
      /\ iter' \in [Iterators -> Iter] /\ txn' \in [Txns -> Txn]
      /\ readTxn' \in Txns \cup {None} /\ ewRenewed' \in BOOLEAN /\ readTxnRenewed' = FALSE
  BY <1>1, ResetStep
<1>3. /\ microtasks \in Seq(Nat) /\ Tail(microtasks) \in Seq(Nat) /\ Len(microtasks) \in Nat
      /\ \A k \in DOMAIN Tail(microtasks) :
            k + 1 \in DOMAIN microtasks /\ Tail(microtasks)[k] = microtasks[k + 1]
  BY <1>1 DEF IInv, TypeOK
<1>4. TypeOK' BY <1>1, <1>2, <1>3 DEF IInv, TypeOK
<1>5. SeenInv' BY <1>1, <1>2, <1>3 DEF IInv, SeenInv
<1> QED BY <1>2, <1>4, <1>5 DEF IInv

-----------------------------------------------------------------------------
(* Write transactions. *)

\* Fields of a transaction that is over, and of a new one.
LEMMA EndedTxnFields ==
    /\ EndedTxn \in Txn /\ EndedTxn.lmdb = "ended" /\ EndedTxn.cursorCount = 0
    /\ EndedTxn.renewingCursorCount = 0 /\ ~EndedTxn.onlyCursor
<1>1. EndedTxn \in Txn BY DEF EndedTxn, Txn
<1> QED BY <1>1 DEF EndedTxn

LEMMA NewTxnFields ==
    ASSUME IInv, NEW lmdb \in {"active", "write"}
    PROVE  /\ NewTxn(lmdb) \in Txn /\ NewTxn(lmdb).lmdb = lmdb /\ NewTxn(lmdb).cursorCount = 0
           /\ NewTxn(lmdb).renewingCursorCount = 0 /\ ~NewTxn(lmdb).onlyCursor
           /\ NewTxn(lmdb).snap = committed
<1>1. committed \in Nat BY DEF IInv, TypeOK
<1>2. NewTxn(lmdb) \in Txn BY <1>1 DEF NewTxn, Txn
<1> QED BY <1>2 DEF NewTxn

\* A transaction object that is not in use has no iterators.
LEMMA UnusedTxn ==
    ASSUME IInv, NEW t \in UnusedTxns
    PROVE  /\ t \in Txns /\ t # readTxn /\ t # writeTxn /\ t # available.txn /\ On(t) = {}
           /\ Following(t) = {} /\ \A i \in Iterators : iter[i].txn # t
<1>1. t \in Txns /\ txn[t].lmdb = "ended" BY DEF UnusedTxns
<1>2. t # readTxn /\ t # writeTxn /\ On(t) = {}
  <2>1. txn[readTxn].lmdb \in {"active", "reset"} \/ t # readTxn BY <1>1 DEF IInv, SharedInv, TxnOK
  <2>2. txn[writeTxn].lmdb = "write" \/ t # writeTxn BY <1>1, ReadBounds DEF IInv, SharedInv, TxnOK
  <2> QED BY <1>1, <2>1, <2>2 DEF IInv, SharedInv, TxnOK
<1>3. t # available.txn BY <1>1, ReadBounds DEF IInv, AvailableInv
<1>4. \A i \in Iterators : iter[i].txn # t BY <1>1, <1>2, ReadBounds DEF IInv, IterInv, IterOK, On
<1> QED BY <1>1, <1>2, <1>3, <1>4 DEF Following

\* A write transaction begins on an object that no iterator is on.
LEMMA BeginWriteStep == ASSUME IInv, BeginWriteTxn PROVE IInv'
<1>1. PICK t \in UnusedTxns : writeTxn' = t /\ txn' = [txn EXCEPT ![t] = NewTxn("write")]
  BY DEF BeginWriteTxn
<1>2. /\ writeTxn = None /\ call = Idle
      /\ UNCHANGED <<committed, readTxn, readTxnRenewed, timer, currentReadTxn, ewRenewed, cursor,
                     available, iter, call, microtasks, seen>>
  BY DEF BeginWriteTxn, MayCall, readVars, cursorVars, loopVars
<1>3. /\ t \in Txns /\ t # readTxn /\ t # available.txn /\ On(t) = {} /\ Following(t) = {}
      /\ \A i \in Iterators : iter[i].txn # t
  BY UnusedTxn
<1>4. txn \in [Txns -> Txn] BY DEF IInv, TypeOK
<1>5. txn'[t] = NewTxn("write") /\ \A s \in Txns : s # t => txn'[s] = txn[s] BY <1>1, <1>3, <1>4
<1>6. /\ txn'[t] \in Txn /\ txn'[t].lmdb = "write" /\ txn'[t].cursorCount = 0
      /\ txn'[t].renewingCursorCount = 0 /\ ~txn'[t].onlyCursor
  BY <1>5, NewTxnFields
<1>7. txn' \in [Txns -> Txn] BY <1>1, <1>4, <1>5, <1>6
<1>8. TypeOK' BY <1>1, <1>2, <1>3, <1>7 DEF IInv, TypeOK
<1>9. \A s : On(s)' = On(s) /\ Following(s)' = Following(s) BY <1>2 DEF On, Following
<1>10. CountInv'
  <2>1. Cardinality(On(t)) = 0 /\ Cardinality(Following(t)) = 0 BY <1>3, FS_EmptySet
  <2> QED BY <1>3, <1>5, <1>6, <1>9, <2>1 DEF IInv, CountInv
<1>11. SharedInv'
  <2>1. ASSUME NEW s \in Txns
        PROVE  TxnOK(s)'
    <3>1. CASE s = t BY <1>1, <1>2, <1>3, <1>6, <3>1 DEF TxnOK
    <3>2. CASE s # t
      <4>1. txn[s].lmdb # "write" BY <1>2, ReadBounds DEF IInv, SharedInv, TxnOK
      <4> QED BY <1>2, <1>5, <1>9, <3>2, <4>1 DEF IInv, SharedInv, TxnOK
    <3> QED BY <3>1, <3>2
  <2> QED BY <1>1, <1>2, <1>6, <2>1 DEF IInv, SharedInv, TxnOK
<1>12. CallInv' BY <1>2 DEF IInv, CallInv
<1>13. IterInv'
  <2>1. \A i \in Iterators : iter[i].txn \in Txns \cup {None} BY DEF IInv, TypeOK, Iter
  <2>2. \A i \in Iterators : iter[i].txn # None => txn'[iter[i].txn] = txn[iter[i].txn]
    BY <1>3, <1>5, <2>1
  <2>3. \A i \in Iterators : iter[i].txn # writeTxn \/ iter[i].txn = None BY <1>2
  <2> QED BY <1>2, <2>2, <2>3 DEF IInv, IterInv, IterOK
<1>14. CursorExclusive' BY <1>2 DEF IInv, CursorExclusive
<1>15. AvailableInv'
  <2>1. available.txn \in Txns \cup {None} BY DEF IInv, TypeOK
  <2> QED BY <1>2, <1>3, <1>5, <2>1 DEF IInv, AvailableInv
<1>16. SeenInv'
  <2>1. readTxnRenewed => txn'[readTxn] = txn[readTxn]
    BY <1>3, <1>5 DEF IInv, SharedInv, TxnOK, TypeOK
  <2> QED BY <1>2, <2>1 DEF IInv, SeenInv
<1> QED BY <1>8, <1>10, <1>11, <1>12, <1>13, <1>14, <1>15, <1>16 DEF IInv

\* The end of a write transaction takes its iterators' cursors away from them.
LEMMA EndWriteEffect ==
    ASSUME IInv, EndWriteTxn
    PROVE  LET its == [i \in Iterators |-> WithoutWriteTxn(i)]
           IN  /\ writeTxn \in Txns /\ writeTxn # readTxn /\ writeTxn # available.txn
               /\ EndedWriteTxn \in [Txns -> Txn] /\ EndedWriteTxn[writeTxn] = EndedTxn
               /\ \A t \in Txns : t # writeTxn => EndedWriteTxn[t] = txn[t]
               /\ its \in [Iterators -> Iter]
               /\ \A i \in Iterators :
                    /\ its[i].on = iter[i].on /\ its[i].snapshot = iter[i].snapshot
                    /\ its[i].flag = iter[i].flag /\ its[i].started = iter[i].started
                    /\ its[i].view = iter[i].view /\ its[i].renew = iter[i].renew
                    /\ iter[i].txn = writeTxn => its[i].txn = None /\ its[i].cursor = None
                    /\ iter[i].txn # writeTxn =>
                         its[i].txn = iter[i].txn /\ its[i].cursor = iter[i].cursor
               /\ cursor' \in [Cursors -> [txn : Txns \cup {None}, snap : Nat]]
               /\ \A c \in Cursors : cursor[c].txn # writeTxn => cursor'[c] = cursor[c]
<1> DEFINE its == [i \in Iterators |-> WithoutWriteTxn(i)]
<1>1. writeTxn \in Txns /\ txn[writeTxn].lmdb = "write"
  BY DEF EndWriteTxn, IInv, TypeOK, SharedInv, TxnOK
<1>2. writeTxn # readTxn /\ writeTxn # available.txn
  BY <1>1, ReadBounds DEF IInv, SharedInv, TxnOK, AvailableInv
<1>3. txn \in [Txns -> Txn] /\ iter \in [Iterators -> Iter] BY DEF IInv, TypeOK
<1>4. /\ EndedWriteTxn \in [Txns -> Txn] /\ EndedWriteTxn[writeTxn] = EndedTxn
      /\ \A t \in Txns : t # writeTxn => EndedWriteTxn[t] = txn[t]
  BY <1>1, <1>3, EndedTxnFields DEF EndedWriteTxn
<1>5. ASSUME NEW i \in Iterators
      PROVE  /\ its[i] \in Iter
             /\ its[i].on = iter[i].on /\ its[i].snapshot = iter[i].snapshot
             /\ its[i].flag = iter[i].flag /\ its[i].started = iter[i].started
             /\ its[i].view = iter[i].view /\ its[i].renew = iter[i].renew
             /\ iter[i].txn = writeTxn => its[i].txn = None /\ its[i].cursor = None
             /\ iter[i].txn # writeTxn =>
                  its[i].txn = iter[i].txn /\ its[i].cursor = iter[i].cursor
  <2>1. iter[i] \in Iter BY <1>3
  <2>2. CASE iter[i].txn = writeTxn
    <3> DEFINE r == [iter[i] EXCEPT !.txn = None]
    <3>1. its[i] = [r EXCEPT !.cursor = None] BY <2>2 DEF WithoutWriteTxn
    <3>2. r \in Iter /\ r.on = iter[i].on /\ r.snapshot = iter[i].snapshot /\ r.flag = iter[i].flag
          /\ r.started = iter[i].started /\ r.view = iter[i].view /\ r.renew = iter[i].renew
          /\ r.txn = None
      BY <2>1 DEF Iter
    <3> HIDE DEF r
    <3> QED BY <2>2, <3>1, <3>2 DEF Iter
  <2>3. CASE iter[i].txn # writeTxn
    <3>1. its[i] = iter[i] BY <2>3 DEF WithoutWriteTxn
    <3> QED BY <2>1, <2>3, <3>1
  <2> QED BY <2>2, <2>3
<1>6. its \in [Iterators -> Iter] BY <1>5
<1>7. /\ cursor' \in [Cursors -> [txn : Txns \cup {None}, snap : Nat]]
      /\ \A c \in Cursors : cursor[c].txn # writeTxn => cursor'[c] = cursor[c]
  BY DEF EndWriteTxn, NoCursor, IInv, TypeOK
<1> QED BY <1>1, <1>2, <1>4, <1>5, <1>6, <1>7

\* The end of a write transaction, with or without the reset of the reads.
LEMMA WriteEndedStep ==
    ASSUME IInv, EndWriteTxn,
           \/ /\ txn' = EndedWriteTxn /\ iter' = [i \in Iterators |-> WithoutWriteTxn(i)]
              /\ UNCHANGED <<readTxn, readTxnRenewed, ewRenewed>>
           \/ ResetReadTxn(EndedWriteTxn, [i \in Iterators |-> WithoutWriteTxn(i)])
    PROVE  /\ CountInv' /\ SharedInv' /\ CallInv' /\ IterInv' /\ CursorExclusive' /\ AvailableInv'
           /\ iter' \in [Iterators -> Iter] /\ txn' \in [Txns -> Txn]
           /\ cursor' \in [Cursors -> [txn : Txns \cup {None}, snap : Nat]]
           /\ readTxn' \in Txns \cup {None} /\ ewRenewed' \in BOOLEAN /\ readTxnRenewed' \in BOOLEAN
           /\ readTxnRenewed' => UNCHANGED <<readTxn, readTxnRenewed>> /\ txn'[readTxn] = txn[readTxn]
<1> DEFINE its == [i \in Iterators |-> WithoutWriteTxn(i)]
<1>1. /\ writeTxn \in Txns /\ writeTxn # readTxn /\ writeTxn # available.txn
      /\ EndedWriteTxn \in [Txns -> Txn] /\ EndedWriteTxn[writeTxn] = EndedTxn
      /\ \A t \in Txns : t # writeTxn => EndedWriteTxn[t] = txn[t]
      /\ its \in [Iterators -> Iter]
      /\ \A i \in Iterators :
           /\ its[i].on = iter[i].on /\ its[i].snapshot = iter[i].snapshot
           /\ its[i].flag = iter[i].flag /\ its[i].started = iter[i].started
           /\ its[i].view = iter[i].view /\ its[i].renew = iter[i].renew
           /\ iter[i].txn = writeTxn => its[i].txn = None /\ its[i].cursor = None
           /\ iter[i].txn # writeTxn =>
                its[i].txn = iter[i].txn /\ its[i].cursor = iter[i].cursor
      /\ cursor' \in [Cursors -> [txn : Txns \cup {None}, snap : Nat]]
      /\ \A c \in Cursors : cursor[c].txn # writeTxn => cursor'[c] = cursor[c]
  BY EndWriteEffect
<1>2. /\ call = Idle /\ writeTxn' = None
      /\ UNCHANGED <<available, call, timer, currentReadTxn>> /\ None \notin Txns /\ None \notin Cursors
      /\ readTxn \in Txns \cup {None} /\ readTxnRenewed \in BOOLEAN /\ ewRenewed \in BOOLEAN
      /\ available.txn \in Txns \cup {None}
  BY ReadBounds DEF EndWriteTxn, MayCall, IInv, TypeOK
<1>3. EndedTxn \in Txn /\ EndedTxn.lmdb = "ended" /\ EndedTxn.cursorCount = 0
      /\ EndedTxn.renewingCursorCount = 0 /\ ~EndedTxn.onlyCursor
  BY EndedTxnFields
<1> HIDE DEF its
<1>4. readTxn # None => EndedWriteTxn[readTxn] = txn[readTxn] BY <1>1, <1>2
\* Both cases, field by field.
<1>5. /\ iter' \in [Iterators -> Iter] /\ txn' \in [Txns -> Txn]
      /\ readTxn' \in Txns \cup {None} /\ ewRenewed' \in BOOLEAN /\ readTxnRenewed' \in BOOLEAN
      /\ readTxnRenewed' => UNCHANGED <<readTxn, readTxnRenewed>> /\ txn'[readTxn] = txn[readTxn]
      /\ \A i \in Iterators :
           /\ iter'[i].on = its[i].on /\ iter'[i].snapshot = its[i].snapshot
           /\ iter'[i].txn = its[i].txn /\ iter'[i].cursor = its[i].cursor
           /\ iter'[i].flag = its[i].flag /\ iter'[i].started = its[i].started
           /\ iter'[i].view = its[i].view
           /\ iter'[i].renew = "none" <=> its[i].renew = "none"
           /\ iter'[i].renew = "current" =>
                its[i].renew = "current" /\ UNCHANGED <<readTxn, readTxnRenewed>>
           /\ its[i].renew = "stale" => iter'[i].renew = "stale"
      /\ \A t \in Txns :
           /\ txn'[t].cursorCount = EndedWriteTxn[t].cursorCount
           /\ txn'[t].renewingCursorCount = EndedWriteTxn[t].renewingCursorCount
           /\ txn'[t].snap = EndedWriteTxn[t].snap
           /\ t # readTxn => txn'[t] = EndedWriteTxn[t]
      /\ \/ /\ UNCHANGED <<readTxn, readTxnRenewed>>
            /\ readTxn # None => txn'[readTxn] = txn[readTxn]
         \/ /\ readTxn' = readTxn /\ ~readTxnRenewed'
            /\ readTxn # None => /\ txn'[readTxn].lmdb = "reset"
                                 /\ txn'[readTxn].onlyCursor = txn[readTxn].onlyCursor
                                 /\ ~readTxnRenewed \/ ~HoldsSnapshot(readTxn)
         \/ /\ readTxn' = None /\ readTxn # None /\ HoldsSnapshot(readTxn) /\ ~readTxnRenewed'
            /\ txn'[readTxn].lmdb = "active" /\ txn'[readTxn].onlyCursor = TRUE
  <2>1. CASE /\ txn' = EndedWriteTxn /\ iter' = its
             /\ UNCHANGED <<readTxn, readTxnRenewed, ewRenewed>>
    <3>1. readTxnRenewed => readTxn # None BY DEF IInv, SharedInv, TxnOK
    <3> QED BY <1>1, <1>2, <1>4, <2>1, <3>1
  <2>2. CASE ResetReadTxn(EndedWriteTxn, its)
    <3>1. /\ iter' \in [Iterators -> Iter] /\ txn' \in [Txns -> Txn]
          /\ readTxn' \in Txns \cup {None} /\ ewRenewed' \in BOOLEAN /\ readTxnRenewed' = FALSE
      BY <1>1, <1>4, <2>2, ResetEffect
    <3>2. \A i \in Iterators :
            /\ iter'[i].on = its[i].on /\ iter'[i].snapshot = its[i].snapshot
            /\ iter'[i].txn = its[i].txn /\ iter'[i].cursor = its[i].cursor
            /\ iter'[i].flag = its[i].flag /\ iter'[i].started = its[i].started
            /\ iter'[i].view = its[i].view
            /\ iter'[i].renew # "current" /\ (iter'[i].renew = "none" <=> its[i].renew = "none")
      BY <1>1, <1>4, <2>2, ResetEffect
    <3>3. /\ \A t \in Txns :
               /\ txn'[t].cursorCount = EndedWriteTxn[t].cursorCount
               /\ txn'[t].renewingCursorCount = EndedWriteTxn[t].renewingCursorCount
               /\ txn'[t].snap = EndedWriteTxn[t].snap
               /\ t # readTxn => txn'[t] = EndedWriteTxn[t]
          /\ \/ /\ readTxn' = readTxn
                /\ readTxn # None => /\ txn'[readTxn].lmdb = "reset"
                                     /\ txn'[readTxn].onlyCursor = EndedWriteTxn[readTxn].onlyCursor
                                     /\ ~readTxnRenewed \/ ~HoldsSnapshot(readTxn)
             \/ /\ readTxn' = None /\ readTxn # None /\ HoldsSnapshot(readTxn)
                /\ txn'[readTxn].lmdb = "active" /\ txn'[readTxn].onlyCursor = TRUE
      BY <1>1, <1>4, <2>2, ResetEffect
    <3>4. \A i \in Iterators : iter'[i].renew \in {"none", "current", "stale"} BY <3>1 DEF Iter
    <3> QED BY <1>4, <3>1, <3>2, <3>3, <3>4
  <2> QED BY <2>1, <2>2 DEF its
<1>6. \A t \in Txns : t # writeTxn => On(t)' = On(t) /\ Following(t)' = Following(t)
  <2> SUFFICES ASSUME NEW t \in Txns, t # writeTxn
               PROVE  On(t)' = On(t) /\ Following(t)' = Following(t)
    OBVIOUS
  <2>1. \A i \in Iterators : iter'[i].txn = t <=> iter[i].txn = t BY <1>1, <1>2, <1>5
  <2>2. \A i \in Iterators : /\ iter'[i].on = iter[i].on
                             /\ iter'[i].renew = "none" <=> iter[i].renew = "none"
    BY <1>1, <1>5
  <2> QED BY <2>1, <2>2 DEF On, Following
<1>7. \A t : t = writeTxn => On(t)' = {} /\ Following(t)' = {}
  <2>1. \A i \in Iterators : iter'[i].txn # writeTxn BY <1>1, <1>2, <1>5
  <2> QED BY <2>1 DEF On, Following
<1>8. readTxn # None =>
        (HoldsSnapshot(readTxn) <=>
             \E i \in Iterators : iter[i].on /\ iter[i].txn = readTxn /\ iter[i].renew = "none")
  BY <1>2, HoldsSnapshotMeaning
<1>9. CountInv'
  <2> SUFFICES ASSUME NEW t \in Txns
               PROVE  /\ txn'[t].cursorCount = Cardinality(On(t)')
                      /\ txn'[t].renewingCursorCount = Cardinality(Following(t)')
    BY DEF CountInv
  <2>1. CASE t = writeTxn
    <3>1. txn'[t] = EndedTxn BY <1>1, <1>5, <2>1
    <3>2. On(t)' = {} /\ Following(t)' = {} BY <1>7, <2>1
    <3> QED BY <1>3, <3>1, <3>2, FS_EmptySet
  <2>2. CASE t # writeTxn BY <1>1, <1>5, <1>6, <2>2 DEF IInv, CountInv
  <2> QED BY <2>1, <2>2
<1>10. SharedInv'
  <2>1. /\ readTxn' # None => currentReadTxn' = readTxn'
        /\ readTxnRenewed' => readTxn' # None /\ writeTxn' = None
    BY <1>2, <1>5 DEF IInv, SharedInv, TxnOK
  <2>2. ASSUME NEW t \in Txns
        PROVE  TxnOK(t)'
    <3>1. CASE t = writeTxn
      <4>1. txn'[t] = EndedTxn /\ t # readTxn' BY <1>1, <1>2, <1>5, <3>1
      <4> QED BY <1>3, <1>7, <3>1, <4>1 DEF TxnOK
    <3>2. CASE t # writeTxn /\ t # readTxn
      <4>1. txn'[t] = txn[t] /\ t # readTxn' /\ On(t)' = On(t) BY <1>1, <1>2, <1>5, <1>6, <3>2
      <4>2. /\ txn[t].lmdb # "write"
            /\ txn[t].lmdb \in {"active", "reset"} => txn[t].lmdb = "active" /\ On(t) # {}
            /\ txn[t].lmdb = "ended" => On(t) = {}
            /\ txn[t].onlyCursor <=> txn[t].lmdb \in {"active", "reset"}
        BY <3>2 DEF IInv, SharedInv, TxnOK
      <4> QED BY <4>1, <4>2 DEF TxnOK
    <3>3. CASE t = readTxn
      <4>1. HoldsSnapshot(t) => On(t) # {} BY <1>2, <1>8, <3>3 DEF On
      <4>2. ~txn[t].onlyCursor /\ txn[t].lmdb = IF readTxnRenewed THEN "active" ELSE "reset"
        BY <3>3 DEF IInv, SharedInv, TxnOK
      <4>3. On(t)' = On(t) BY <1>1, <1>6, <3>3
      <4> QED BY <1>2, <1>5, <3>3, <4>1, <4>2, <4>3 DEF TxnOK
    <3> QED BY <3>1, <3>2, <3>3
  <2> QED BY <1>2, <2>1, <2>2 DEF SharedInv
<1>11. CallInv' BY <1>2 DEF CallInv, Idle
<1>12. IterInv'
  <2> SUFFICES ASSUME NEW i \in Iterators
               PROVE  IterOK(i)'
    BY DEF IterInv
  <2>1. iter[i] \in Iter /\ iter[i].txn \in Txns \cup {None} /\ iter[i].cursor \in Cursors \cup {None}
    BY DEF IInv, TypeOK, Iter
  <2>2. CASE iter[i].txn = writeTxn
    <3>1. iter'[i].txn = None /\ iter'[i].cursor = None BY <1>1, <1>5, <2>2
    <3>2. iter[i].renew # "none" BY <1>1, <1>2, <2>2 DEF IInv, IterInv, IterOK, SharedInv, TxnOK
    <3>3. iter[i].on BY <1>1, <1>2, <2>2 DEF IInv, IterInv, IterOK
    <3> QED BY <1>1, <1>5, <3>1, <3>2, <3>3 DEF IInv, IterInv, IterOK
  <2>3. CASE iter[i].txn # writeTxn
    <3>1. iter'[i].txn = iter[i].txn /\ iter'[i].cursor = iter[i].cursor BY <1>1, <1>5, <2>3
    <3>2. iter[i].txn # None => /\ iter[i].cursor \in Cursors
                                /\ cursor'[iter[i].cursor] = cursor[iter[i].cursor]
      BY <1>1, <2>1, <2>3 DEF IInv, IterInv, IterOK
    <3>3. iter[i].txn # None => txn'[iter[i].txn].snap = txn[iter[i].txn].snap
      BY <1>1, <1>5, <2>1, <2>3
    <3>4. iter[i].on /\ iter[i].renew = "none" => txn'[iter[i].txn].lmdb = "active"
      <4>1. SUFFICES ASSUME iter[i].on, iter[i].renew = "none"
            PROVE txn'[iter[i].txn].lmdb = "active"
        OBVIOUS
      <4>2. iter[i].txn \in Txns /\ txn[iter[i].txn].lmdb = "active"
        BY <2>1, <4>1 DEF IInv, IterInv, IterOK
      <4>3. CASE iter[i].txn # readTxn BY <1>1, <1>5, <2>3, <4>2, <4>3
      <4>4. CASE iter[i].txn = readTxn
        <5>1. HoldsSnapshot(readTxn) /\ readTxn # None BY <1>2, <1>8, <4>1, <4>2, <4>4
        <5>2. readTxnRenewed BY <4>2, <4>4 DEF IInv, SharedInv, TxnOK
        <5> QED BY <1>5, <4>2, <4>4, <5>1, <5>2
      <4> QED BY <4>3, <4>4
    <3>5. iter'[i].renew # "stale" => iter[i].renew # "stale" BY <1>1, <1>5
    <3>6. iter[i].renew = "current" /\ iter[i].txn # None => iter[i].txn = readTxn /\ readTxnRenewed
      BY <2>3 DEF IInv, IterInv, IterOK
    <3> QED BY <1>1, <1>2, <1>5, <3>1, <3>2, <3>3, <3>4, <3>5, <3>6 DEF IInv, IterInv, IterOK, Idle
  <2> QED BY <2>2, <2>3
<1>13. CursorExclusive' BY <1>1, <1>2, <1>5 DEF IInv, CursorExclusive
<1>14. AvailableInv'
  <2>1. SUFFICES ASSUME available.txn # None
                 PROVE  /\ txn'[available.txn].lmdb \in {"active", "reset"}
                        /\ cursor'[available.cursor].txn = available.txn
    BY <1>2 DEF IInv, AvailableInv
  <2>2. available.txn \in Txns /\ available.cursor \in Cursors
    BY <1>2, <2>1 DEF IInv, AvailableInv, TypeOK
  <2>3. cursor'[available.cursor] = cursor[available.cursor]
    BY <1>1, <2>1, <2>2 DEF IInv, AvailableInv
  <2> QED BY <1>1, <1>2, <1>5, <2>1, <2>2, <2>3 DEF IInv, AvailableInv
<1> QED BY <1>1, <1>5, <1>9, <1>10, <1>11, <1>12, <1>13, <1>14

\* An abort, or the end of the callbacks of a batch.
LEMMA LeaveWriteStep == ASSUME IInv, LeaveWriteTxn PROVE IInv'
<1>1. /\ EndWriteTxn /\ txn' = EndedWriteTxn /\ iter' = [i \in Iterators |-> WithoutWriteTxn(i)]
      /\ UNCHANGED <<committed, readTxn, readTxnRenewed, ewRenewed, microtasks, seen>>
  BY DEF LeaveWriteTxn, loopVars
<1>2. /\ CountInv' /\ SharedInv' /\ CallInv' /\ IterInv' /\ CursorExclusive' /\ AvailableInv'
      /\ iter' \in [Iterators -> Iter] /\ txn' \in [Txns -> Txn]
      /\ cursor' \in [Cursors -> [txn : Txns \cup {None}, snap : Nat]]
      /\ readTxnRenewed' => UNCHANGED <<readTxn, readTxnRenewed>> /\ txn'[readTxn] = txn[readTxn]
  BY <1>1, WriteEndedStep
<1>3. UNCHANGED <<available, call, timer, currentReadTxn>> /\ writeTxn' = None
  BY <1>1 DEF EndWriteTxn
<1>4. TypeOK' BY <1>1, <1>2, <1>3 DEF IInv, TypeOK
<1>5. SeenInv' BY <1>1, <1>2 DEF IInv, SeenInv
<1> QED BY <1>2, <1>4, <1>5 DEF IInv

\* The end of a transactionSync(), which resets the reads too.
LEMMA CommitSyncStep == ASSUME IInv, CommitSync PROVE IInv'
<1>1. /\ EndWriteTxn /\ ResetReadTxn(EndedWriteTxn, [i \in Iterators |-> WithoutWriteTxn(i)])
      /\ committed' = committed + 1 /\ seen' = committed + 1 /\ microtasks' = microtasks
  BY DEF CommitSync
<1>2. /\ CountInv' /\ SharedInv' /\ CallInv' /\ IterInv' /\ CursorExclusive' /\ AvailableInv'
      /\ iter' \in [Iterators -> Iter] /\ txn' \in [Txns -> Txn]
      /\ cursor' \in [Cursors -> [txn : Txns \cup {None}, snap : Nat]]
      /\ readTxn' \in Txns \cup {None} /\ ewRenewed' \in BOOLEAN
  BY <1>1, WriteEndedStep
<1>3. UNCHANGED <<available, call, timer, currentReadTxn>> /\ writeTxn' = None
  BY <1>1 DEF EndWriteTxn
<1>4. readTxnRenewed' = FALSE BY <1>1 DEF ResetReadTxn
<1>5. committed \in Nat /\ microtasks \in Seq(Nat) BY DEF IInv, TypeOK
<1>6. TypeOK'
  <2>1. committed' \in Nat /\ seen' \in Nat BY <1>1, <1>5
  <2>2. readTxnRenewed' \in BOOLEAN BY <1>4
  <2> QED BY <1>1, <1>2, <1>3, <2>1, <2>2 DEF IInv, TypeOK
<1>7. SeenInv'
  <2>1. \A k \in DOMAIN microtasks : microtasks[k] \in Nat BY <1>5
  <2> QED BY <1>1, <1>4, <1>5, <2>1 DEF IInv, SeenInv
<1> QED BY <1>2, <1>6, <1>7 DEF IInv

-----------------------------------------------------------------------------
(* Renewal, and the steps of iterators that leave the transactions alone. *)

\* renewReadTxn() makes a transaction r the shared one, on which all iterators, if
\* it has any, are stale.
LEMMA RenewEffect ==
    ASSUME IInv, RenewReadTxn
    PROVE  \E r \in Txns :
             /\ readTxn' = r /\ currentReadTxn' = r /\ readTxn \in {None, r} /\ r # writeTxn
             /\ txn' \in [Txns -> Txn]
             /\ txn'[r].lmdb = "active" /\ txn'[r].snap = committed /\ ~txn'[r].onlyCursor
             /\ txn'[r].cursorCount = txn[r].cursorCount
             /\ txn'[r].renewingCursorCount = txn[r].renewingCursorCount
             /\ \A t \in Txns : t # r => txn'[t] = txn[t]
             /\ \A i \in Iterators : iter[i].txn = r => iter[i].renew = "stale"
             /\ r = available.txn => txn[r].lmdb = "reset"
<1>1. txn \in [Txns -> Txn] /\ committed \in Nat /\ readTxn \in Txns \cup {None} BY DEF IInv, TypeOK
<1>2. ~readTxnRenewed BY DEF RenewReadTxn
<1>3. CASE readTxn # None
  <2>1. /\ txn' = [txn EXCEPT ![readTxn].lmdb = "active", ![readTxn].snap = committed]
        /\ UNCHANGED <<readTxn, currentReadTxn>>
    BY <1>3 DEF RenewReadTxn
  <2>2. readTxn \in Txns /\ txn[readTxn] \in Txn BY <1>1, <1>3
  <2>3. /\ currentReadTxn = readTxn /\ txn[readTxn].lmdb = "reset" /\ ~txn[readTxn].onlyCursor
        /\ readTxn # writeTxn
    BY <1>2, <1>3, <2>2 DEF IInv, SharedInv, TxnOK
  <2> DEFINE x == [txn[readTxn] EXCEPT !.lmdb = "active"]
             y == [x EXCEPT !.snap = committed]
  <2>4. x \in Txn /\ x.lmdb = "active" /\ x.cursorCount = txn[readTxn].cursorCount
        /\ x.renewingCursorCount = txn[readTxn].renewingCursorCount
        /\ x.onlyCursor = txn[readTxn].onlyCursor
    BY <2>2 DEF Txn
  <2>5. txn'[readTxn] = y /\ \A t \in Txns : t # readTxn => txn'[t] = txn[t] BY <1>1, <2>1, <2>2
  <2>6. txn' = [t \in Txns |-> IF t = readTxn THEN y ELSE txn[t]] BY <1>1, <2>1, <2>2
  <2> HIDE DEF x
  <2>7. y \in Txn /\ y.lmdb = "active" /\ y.snap = committed /\ y.cursorCount = txn[readTxn].cursorCount
        /\ y.renewingCursorCount = txn[readTxn].renewingCursorCount
        /\ y.onlyCursor = txn[readTxn].onlyCursor
    BY <1>1, <2>4 DEF Txn
  <2> HIDE DEF y
  <2>8. txn' \in [Txns -> Txn] BY <1>1, <2>6, <2>7
  <2>9. ASSUME NEW i \in Iterators, iter[i].txn = readTxn PROVE iter[i].renew = "stale"
    <3>1. iter[i].renew \in {"none", "current", "stale"} BY DEF IInv, TypeOK, Iter
    <3>2. iter[i].on BY <1>3, <2>9 DEF IInv, IterInv, IterOK
    <3> QED BY <1>2, <1>3, <2>3, <2>9, <3>1, <3>2 DEF IInv, IterInv, IterOK
  <2> QED BY <2>1, <2>2, <2>3, <2>5, <2>7, <2>8, <2>9
<1>4. CASE readTxn = None
  <2>1. PICK t \in UnusedTxns : /\ txn' = [txn EXCEPT ![t] = NewTxn("active")]
                                /\ readTxn' = t /\ currentReadTxn' = t
    BY <1>4 DEF RenewReadTxn, CurrentAfterBegin
  <2>2. /\ t \in Txns /\ t # writeTxn /\ t # available.txn /\ On(t) = {} /\ Following(t) = {}
        /\ \A i \in Iterators : iter[i].txn # t
    BY UnusedTxn
  <2>3. /\ NewTxn("active") \in Txn /\ NewTxn("active").lmdb = "active"
        /\ NewTxn("active").cursorCount = 0 /\ NewTxn("active").renewingCursorCount = 0
        /\ ~NewTxn("active").onlyCursor /\ NewTxn("active").snap = committed
    BY NewTxnFields
  <2>4. txn[t].cursorCount = 0 /\ txn[t].renewingCursorCount = 0
    BY <2>2, FS_EmptySet DEF IInv, CountInv
  <2>5. txn'[t] = NewTxn("active") /\ \A s \in Txns : s # t => txn'[s] = txn[s] BY <1>1, <2>1, <2>2
  <2>6. txn' \in [Txns -> Txn] BY <1>1, <2>1, <2>3
  <2> QED BY <1>4, <2>1, <2>2, <2>3, <2>4, <2>5, <2>6
<1> QED BY <1>3, <1>4

\* renewReadTxn().
LEMMA RenewStep == ASSUME IInv, RenewReadTxn PROVE IInv'
<1>1. PICK r \in Txns :
        /\ readTxn' = r /\ currentReadTxn' = r /\ readTxn \in {None, r} /\ r # writeTxn
        /\ txn' \in [Txns -> Txn]
        /\ txn'[r].lmdb = "active" /\ txn'[r].snap = committed /\ ~txn'[r].onlyCursor
        /\ txn'[r].cursorCount = txn[r].cursorCount
        /\ txn'[r].renewingCursorCount = txn[r].renewingCursorCount
        /\ \A t \in Txns : t # r => txn'[t] = txn[t]
        /\ \A i \in Iterators : iter[i].txn = r => iter[i].renew = "stale"
        /\ r = available.txn => txn[r].lmdb = "reset"
  BY RenewEffect
<1>2. /\ call.at \in {"get", "stat", "open", "again"} /\ readTxnRenewed' = TRUE /\ timer' = TRUE
      /\ UNCHANGED <<committed, ewRenewed, writeTxn, cursor, available, iter, call, microtasks, seen>>
  BY DEF RenewReadTxn, TimerAfterRenewal, cursorVars, loopVars
<1>3. None \notin Txns BY ReadBounds
<1>4. TypeOK'
  <2>1. readTxnRenewed' \in BOOLEAN /\ timer' \in BOOLEAN BY <1>2
  <2> QED BY <1>1, <1>2, <2>1 DEF IInv, TypeOK
<1>5. \A t : On(t)' = On(t) /\ Following(t)' = Following(t) BY <1>2 DEF On, Following
<1>6. CountInv' BY <1>1, <1>5 DEF IInv, CountInv
<1>7. SharedInv'
  <2>1. ASSUME NEW t \in Txns
        PROVE  TxnOK(t)'
    <3>1. CASE t = r BY <1>1, <1>2, <3>1 DEF TxnOK
    <3>2. CASE t # r
      <4>1. t # readTxn /\ txn'[t] = txn[t] BY <1>1, <1>3, <3>2
      <4> QED BY <1>1, <1>2, <1>5, <3>2, <4>1 DEF IInv, SharedInv, TxnOK
    <3> QED BY <3>1, <3>2
  <2>2. writeTxn' # None => txn'[writeTxn'].lmdb = "write"
    BY <1>1, <1>2 DEF IInv, SharedInv, TxnOK, TypeOK
  <2> QED BY <1>1, <1>3, <2>1, <2>2 DEF SharedInv
<1>8. CallInv' BY <1>2 DEF IInv, CallInv
<1>9. IterInv'
  <2>1. \A i \in Iterators : iter[i].txn \in Txns \cup {None} BY DEF IInv, TypeOK, Iter
  <2>2. \A i \in Iterators : iter[i].renew # "stale" /\ iter[i].txn # None =>
          txn'[iter[i].txn] = txn[iter[i].txn]
    BY <1>1, <2>1
  <2>3. \A i \in Iterators : iter[i].renew = "current" /\ iter[i].txn # None => iter[i].txn = writeTxn
    BY <1>1, <1>3 DEF IInv, IterInv, IterOK
  <2> QED BY <1>2, <2>2, <2>3 DEF IInv, IterInv, IterOK
<1>10. CursorExclusive' BY <1>2 DEF IInv, CursorExclusive
<1>11. AvailableInv'
  <2>1. available.txn \in Txns \cup {None} BY DEF IInv, TypeOK
  <2>2. available.txn # None => txn'[available.txn].lmdb \in {"active", "reset"}
    BY <1>1, <2>1 DEF IInv, AvailableInv
  <2> QED BY <1>2, <2>2 DEF IInv, AvailableInv
<1>12. SeenInv'
  <2>1. txn'[readTxn'].snap = committed BY <1>1
  <2> QED BY <1>2, <2>1 DEF IInv, SeenInv
<1> QED BY <1>4, <1>6, <1>7, <1>8, <1>9, <1>10, <1>11, <1>12 DEF IInv

\* Fields of a new iterator.
LEMMA NewIterFields ==
    ASSUME NEW s \in BOOLEAN
    PROVE  /\ NewIter(s) \in Iter /\ ~NewIter(s).on /\ NewIter(s).txn = None
           /\ NewIter(s).cursor = None /\ NewIter(s).renew = "none" /\ ~NewIter(s).started
           /\ ~NewIter(s).flag
<1>1. NewIter(s) \in Iter BY DEF NewIter, Iter
<1> QED BY <1>1 DEF NewIter

\* A closed iterator replaced by another closed one.
LEMMA IterateStep == ASSUME IInv, NEW i \in Iterators, NEW s \in BOOLEAN, Iterate(i, s) PROVE IInv'
<1>1. /\ call = Idle /\ ~iter[i].on /\ iter' = [iter EXCEPT ![i] = NewIter(s)]
      /\ call' = [at |-> "open", i |-> i]
      /\ UNCHANGED <<committed, readTxn, readTxnRenewed, timer, currentReadTxn, ewRenewed, writeTxn,
                     txn, cursor, available, microtasks, seen>>
  BY DEF Iterate, MayCall, readVars, cursorVars, loopVars
<1>2. iter \in [Iterators -> Iter] BY DEF IInv, TypeOK
<1>3. iter'[i] = NewIter(s) /\ \A j \in Iterators : j # i => iter'[j] = iter[j] BY <1>1, <1>2
<1>4. /\ iter'[i] \in Iter /\ ~iter'[i].on /\ iter'[i].txn = None /\ iter'[i].cursor = None
      /\ iter'[i].renew = "none" /\ ~iter'[i].started
  BY <1>3, NewIterFields
<1>5. iter' \in [Iterators -> Iter] BY <1>1, <1>2, <1>3, <1>4
<1>6. TypeOK'
  <2>1. call' \in [at : {"idle", "get", "stat", "open", "again", "read"}, i : Iterators \cup {None}]
    BY <1>1
  <2> QED BY <1>1, <1>5, <2>1 DEF IInv, TypeOK
<1>7. \A t : On(t)' = On(t) /\ Following(t)' = Following(t)
  <2>1. \A t : \A j \in Iterators : j \in On(t)' <=> j \in On(t) BY <1>1, <1>3, <1>4 DEF On
  <2>2. \A t : On(t)' = On(t) BY <2>1 DEF On
  <2>3. \A t : i \notin On(t) BY <1>1 DEF On
  <2> QED BY <1>3, <2>2, <2>3 DEF Following, On
<1>8. CountInv' BY <1>1, <1>7 DEF IInv, CountInv
<1>9. SharedInv' BY <1>1, <1>7 DEF IInv, SharedInv, TxnOK
<1>10. CallInv' BY <1>1, <1>4 DEF CallInv
<1>11. IterInv'
  <2>1. ASSUME NEW j \in Iterators, j # i PROVE IterOK(j)'
    <3>1. IterOK(j) /\ iter'[j] = iter[j] BY <1>3, <2>1 DEF IInv, IterInv
    <3>2. call # [at |-> "read", i |-> j] BY <1>1 DEF Idle
    <3> QED BY <1>1, <3>1, <3>2 DEF IterOK
  <2>2. IterOK(i)' BY <1>4 DEF IterOK
  <2> QED BY <2>1, <2>2 DEF IterInv
<1>12. CursorExclusive' BY <1>1, <1>3, <1>4 DEF IInv, CursorExclusive
<1>13. AvailableInv' BY <1>1 DEF IInv, AvailableInv
<1>14. SeenInv' BY <1>1 DEF IInv, SeenInv
<1> QED BY <1>6, <1>8, <1>9, <1>10, <1>11, <1>12, <1>13, <1>14 DEF IInv

\* An iterator that may read has a cursor on a transaction that is not over.
LEMMA Reading ==
    ASSUME IInv, NEW i \in Iterators, Reads(i)
    PROVE  /\ iter[i].on /\ iter[i].txn \in Txns /\ iter[i].cursor \in Cursors
           /\ iter[i].renew # "stale" /\ cursor[iter[i].cursor].txn = iter[i].txn
           /\ call = Idle \/ call = [at |-> "read", i |-> i]
<1>1. iter[i] \in Iter BY DEF IInv, TypeOK
<1>2. iter[i].on /\ iter[i].renew # "stale" /\ iter[i].txn # None
  BY <1>1 DEF Reads, MustReset, IsDone, IInv, CallInv, IterInv, IterOK
<1> QED BY <1>1, <1>2 DEF Reads, MayCall, IInv, IterInv, IterOK, Iter

\* position() renews the cursor of i at most, to the snapshot of its transaction.
LEMMA PositionedEffect ==
    ASSUME IInv, NEW i \in Iterators, Reads(i)
    PROVE  /\ Positioned(i) \in [Cursors -> [txn : Txns \cup {None}, snap : Nat]]
           /\ \A c \in Cursors : /\ Positioned(i)[c].txn = cursor[c].txn
                                 /\ c # iter[i].cursor => Positioned(i)[c] = cursor[c]
           /\ Positioned(i)[iter[i].cursor].snap = txn[iter[i].txn].snap
<1> DEFINE c == iter[i].cursor
<1>1. /\ c \in Cursors /\ cursor[c].txn = iter[i].txn /\ iter[i].txn \in Txns
      /\ iter[i].renew # "stale" /\ iter[i].on
      /\ call = Idle \/ call = [at |-> "read", i |-> i]
  BY Reading
<1>2. cursor \in [Cursors -> [txn : Txns \cup {None}, snap : Nat]] /\ txn \in [Txns -> Txn]
  BY DEF IInv, TypeOK
<1>3. txn[iter[i].txn].snap \in Nat BY <1>1, <1>2 DEF Txn
<1>4. CASE iter[i].flag /\ (call.at = "read" \/ ~iter[i].started)
  <2>1. Positioned(i) = [cursor EXCEPT ![c].snap = txn[iter[i].txn].snap]
    BY <1>1, <1>4 DEF Positioned
  <2> HIDE DEF c
  <2> QED BY <1>1, <1>2, <1>3, <2>1 DEF c
<1>5. CASE ~(iter[i].flag /\ (call.at = "read" \/ ~iter[i].started))
  <2>1. Positioned(i) = cursor BY <1>5 DEF Positioned
  <2>2. ~(iter[i].flag /\ (~iter[i].started \/ call = [at |-> "read", i |-> i])) BY <1>5
  <2>3. cursor[c].snap = txn[iter[i].txn].snap BY <1>1, <2>2, ReadBounds DEF IInv, IterInv, IterOK
  <2> QED BY <1>2, <2>1, <2>3
<1> QED BY <1>4, <1>5

\* next() returns an entry.
LEMMA NextEntryStep == ASSUME IInv, NEW i \in Iterators, NextEntry(i) PROVE IInv'
<1>1. /\ Reads(i) /\ cursor' = Positioned(i) /\ iter' = [iter EXCEPT ![i].started = TRUE]
      /\ call' = Idle
      /\ UNCHANGED <<committed, readTxn, readTxnRenewed, timer, currentReadTxn, ewRenewed, writeTxn,
                     txn, available, microtasks, seen>>
  BY DEF NextEntry, readVars, loopVars
<1>2. /\ cursor' \in [Cursors -> [txn : Txns \cup {None}, snap : Nat]]
      /\ \A c \in Cursors : /\ cursor'[c].txn = cursor[c].txn
                            /\ c # iter[i].cursor => cursor'[c] = cursor[c]
      /\ cursor'[iter[i].cursor].snap = txn[iter[i].txn].snap
  BY <1>1, PositionedEffect
<1>3. iter \in [Iterators -> Iter] BY DEF IInv, TypeOK
<1>4. iter'[i] = [iter[i] EXCEPT !.started = TRUE] /\ \A j \in Iterators : j # i => iter'[j] = iter[j]
  BY <1>1, <1>3
<1>5. [iter[i] EXCEPT !.started = TRUE] \in Iter
  <2>1. iter[i] \in Iter BY <1>3
  <2> QED BY <2>1 DEF Iter
<1>6. iter' \in [Iterators -> Iter] BY <1>1, <1>3, <1>5
<1>7. ASSUME NEW j \in Iterators
      PROVE  /\ iter'[j].on = iter[j].on /\ iter'[j].snapshot = iter[j].snapshot
             /\ iter'[j].txn = iter[j].txn /\ iter'[j].cursor = iter[j].cursor
             /\ iter'[j].flag = iter[j].flag /\ iter'[j].renew = iter[j].renew
             /\ iter'[j].view = iter[j].view
             /\ j # i => iter'[j].started = iter[j].started
  <2>1. CASE j = i
    <3>1. iter[i] \in Iter BY <1>3
    <3> QED BY <1>4, <2>1, <3>1 DEF Iter
  <2>2. CASE j # i BY <1>4, <2>2
  <2> QED BY <2>1, <2>2
<1>8. TypeOK'
  <2>1. call' \in [at : {"idle", "get", "stat", "open", "again", "read"}, i : Iterators \cup {None}]
    BY <1>1 DEF Idle
  <2> QED BY <1>1, <1>2, <1>6, <2>1 DEF IInv, TypeOK
<1>9. \A t : On(t)' = On(t) /\ Following(t)' = Following(t) BY <1>7 DEF On, Following
<1>10. CountInv' BY <1>1, <1>9 DEF IInv, CountInv
<1>11. SharedInv' BY <1>1, <1>9 DEF IInv, SharedInv, TxnOK
<1>12. CallInv' BY <1>1 DEF CallInv, Idle
<1>13. IterInv'
  <2> SUFFICES ASSUME NEW j \in Iterators
               PROVE  IterOK(j)'
    BY DEF IterInv
  <2>1. iter[j].cursor \in Cursors \cup {None} BY DEF IInv, TypeOK, Iter
  <2>2. iter[j].txn # None => iter[j].cursor \in Cursors BY <2>1 DEF IInv, IterInv, IterOK
  <2>3. CASE j = i
    BY <1>1, <1>2, <1>7, <2>2, <2>3 DEF IInv, IterInv, IterOK
  <2>4. CASE j # i
    <3>1. iter[j].txn # None => cursor'[iter[j].cursor] = cursor[iter[j].cursor]
      <4>1. iter[j].txn # None => iter[j].cursor # iter[i].cursor
        BY <2>2, <2>4, ReadBounds DEF IInv, CursorExclusive
      <4> QED BY <1>2, <2>2, <4>1
    <3>2. call = [at |-> "read", i |-> j] => FALSE
      <4>1. call = Idle \/ call = [at |-> "read", i |-> i] BY <1>1, Reading
      <4>2. Idle.at = "idle" BY DEF Idle
      <4> QED BY <2>4, <4>1, <4>2
    <3> QED BY <1>1, <1>7, <2>4, <3>1, <3>2 DEF IInv, IterInv, IterOK
  <2> QED BY <2>3, <2>4
<1>14. CursorExclusive' BY <1>1, <1>7 DEF IInv, CursorExclusive
<1>15. AvailableInv'
  <2>1. available.txn # None => available.cursor \in Cursors BY DEF IInv, AvailableInv, TypeOK
  <2> QED BY <1>1, <1>2, <2>1 DEF IInv, AvailableInv
<1>16. SeenInv' BY <1>1 DEF IInv, SeenInv
<1> QED BY <1>8, <1>10, <1>11, <1>12, <1>13, <1>14, <1>15, <1>16 DEF IInv

-----------------------------------------------------------------------------
(* finishCursor(). *)

\* Iterator i leaves its transaction.
LEMMA LeaveCount ==
    ASSUME IInv, NEW i \in Iterators, iter[i].on, iter[i].txn \in Txns, ~iter'[i].on,
           \A j \in Iterators : j # i => iter'[j] = iter[j]
    PROVE  /\ \A t : t # iter[i].txn => On(t)' = On(t) /\ Following(t)' = Following(t)
           /\ \A t : t = iter[i].txn =>
                /\ i \in On(t) /\ On(t)' = On(t) \ {i} /\ Following(t)' = Following(t) \ {i}
                /\ Cardinality(On(t)) \in Nat \ {0} /\ Cardinality(On(t)') = Cardinality(On(t)) - 1
                /\ Cardinality(Following(t)) \in Nat /\ Cardinality(Following(t)) - Follows(i) \in Nat
                /\ Cardinality(Following(t)') = Cardinality(Following(t)) - Follows(i)
                /\ Cardinality(On(t)) = 1 => On(t)' = {}
                /\ Cardinality(On(t)) # 1 => On(t)' # {}
<1>1. ASSUME NEW t, t # iter[i].txn PROVE On(t)' = On(t) /\ Following(t)' = Following(t)
  <2>1. i \notin On(t) /\ i \notin On(t)' BY <1>1 DEF On
  <2>2. \A j \in Iterators : j # i => (j \in On(t)' <=> j \in On(t)) BY DEF On
  <2>3. On(t)' = On(t) BY <2>1, <2>2 DEF On
  <2> QED BY <2>1, <2>3 DEF Following, On
<1>2. ASSUME NEW t, t = iter[i].txn
      PROVE  /\ i \in On(t) /\ On(t)' = On(t) \ {i} /\ Following(t)' = Following(t) \ {i}
             /\ Cardinality(On(t)) \in Nat \ {0} /\ Cardinality(On(t)') = Cardinality(On(t)) - 1
             /\ Cardinality(Following(t)) \in Nat /\ Cardinality(Following(t)) - Follows(i) \in Nat
             /\ Cardinality(Following(t)') = Cardinality(Following(t)) - Follows(i)
             /\ Cardinality(On(t)) = 1 => On(t)' = {}
             /\ Cardinality(On(t)) # 1 => On(t)' # {}
  <2>1. i \in On(t) /\ On(t)' = On(t) \ {i}
    <3>1. i \in On(t) /\ i \notin On(t)' BY <1>2 DEF On
    <3>2. \A j \in Iterators : j # i => (j \in On(t)' <=> j \in On(t)) BY DEF On
    <3> QED BY <3>1, <3>2 DEF On
  <2>2. Following(t)' = Following(t) \ {i} BY <2>1 DEF Following, On
  <2>3. IsFiniteSet(On(t)) /\ IsFiniteSet(Following(t)) BY Counting
  <2>4. Cardinality(On(t)) \in Nat /\ Cardinality(Following(t)) \in Nat BY <2>3, FS_CardinalityType
  <2>5. Cardinality(On(t)') = Cardinality(On(t)) - 1 BY <2>1, <2>3, FS_RemoveElement
  <2>6. IsFiniteSet(On(t)') /\ Cardinality(On(t)') \in Nat
    BY <2>1, <2>3, FS_RemoveElement, FS_CardinalityType
  <2>7. On(t)' = {} <=> Cardinality(On(t)') = 0 BY <2>6, FS_EmptySet
  <2>8. CASE i \in Following(t)
    <3>1. Follows(i) = 1 BY <2>8 DEF Following, Follows
    <3>2. /\ Cardinality(Following(t) \ {i}) = Cardinality(Following(t)) - 1
          /\ Cardinality(Following(t) \ {i}) \in Nat
      BY <2>3, <2>8, FS_RemoveElement, FS_CardinalityType
    <3> QED BY <2>1, <2>2, <2>4, <2>5, <2>6, <2>7, <3>1, <3>2
  <2>9. CASE i \notin Following(t)
    <3>1. Follows(i) = 0 BY <2>1, <2>9 DEF Following, Follows
    <3>2. Following(t) \ {i} = Following(t) BY <2>9
    <3> QED BY <2>1, <2>2, <2>4, <2>5, <2>6, <2>7, <3>1, <3>2
  <2> QED BY <2>8, <2>9
<1> QED BY <1>1, <1>2

\* What finishCursor() does to the transaction t of the iterator, the cursors and the
\* cursor that the store keeps: nothing if t is over; abort t if it was kept for this
\* iterator; or count it less and keep the cursor or close it.
FinishOutcome(i, cur) ==
    LET t == iter[i].txn
        c == iter[i].cursor
    IN  \/ t = None /\ txn' = txn /\ cursor' = cur /\ UNCHANGED <<available, currentReadTxn>>
        \/ /\ t \in Txns /\ txn[t].onlyCursor /\ txn[t].cursorCount <= 1
           /\ txn'[t] = EndedTxn /\ \A s \in Txns : s # t => txn'[s] = txn[s]
           /\ \A d \in Cursors : d # c /\ cur[d].txn # t =>
                cursor'[d].txn = cur[d].txn /\ cursor'[d].snap = cur[d].snap
           /\ available'.cursor = available.cursor /\ available'.txn = Over(t, available.txn)
           /\ currentReadTxn' = Over(t, currentReadTxn)
        \/ /\ t \in Txns
           /\ txn[t].onlyCursor => txn[t].cursorCount > 1
           /\ \A s \in Txns : s # t => txn'[s] = txn[s]
           /\ txn'[t].lmdb = txn[t].lmdb /\ txn'[t].snap = txn[t].snap
           /\ txn'[t].onlyCursor = txn[t].onlyCursor
           /\ txn'[t].cursorCount = txn[t].cursorCount - 1
           /\ txn'[t].renewingCursorCount = txn[t].renewingCursorCount - Follows(i)
           /\ \A d \in Cursors : d # c => cursor'[d] = cur[d]
           /\ \/ available' = available
              \/ t = readTxn /\ available' = [cursor |-> c, txn |-> t] /\ cursor' = cur
           /\ UNCHANGED currentReadTxn

\* finishCursor() has one of the outcomes above.
LEMMA FinishEffect ==
    ASSUME IInv, NEW i \in Iterators, iter[i].on, ~iter'[i].on,
           \A j \in Iterators : j # i => iter'[j] = iter[j],
           NEW cur \in [Cursors -> [txn : Txns \cup {None}, snap : Nat]], FinishCursor(i, cur)
    PROVE  /\ FinishOutcome(i, cur)
           /\ txn' \in [Txns -> Txn]
           /\ cursor' \in [Cursors -> [txn : Txns \cup {None}, snap : Nat]]
           /\ available' \in [cursor : Cursors \cup {None}, txn : Txns \cup {None}]
           /\ currentReadTxn' \in Txns \cup {None}
           /\ UNCHANGED <<committed, readTxn, readTxnRenewed, timer, ewRenewed, writeTxn, microtasks, seen>>
<1> DEFINE t == iter[i].txn
           c == iter[i].cursor
           closed == [cur EXCEPT ![c] = NoCursor]
           left == [txn[t] EXCEPT !.cursorCount = @ - 1, !.renewingCursorCount = @ - Follows(i)]
<1>1. /\ txn \in [Txns -> Txn] /\ iter[i] \in Iter /\ None \notin Txns /\ None \notin Cursors
      /\ available \in [cursor : Cursors \cup {None}, txn : Txns \cup {None}]
      /\ currentReadTxn \in Txns \cup {None}
  BY ReadBounds DEF IInv, TypeOK
<1>2. t \in Txns \cup {None} /\ c \in Cursors \cup {None} /\ (c # None <=> t # None)
  BY <1>1 DEF Iter, IInv, IterInv, IterOK
<1>3. UNCHANGED <<committed, readTxn, readTxnRenewed, timer, ewRenewed, writeTxn, microtasks, seen>>
  BY DEF FinishCursor, loopVars
<1>4. closed \in [Cursors -> [txn : Txns \cup {None}, snap : Nat]] BY DEF NoCursor
<1>5. \/ IsDone(t) /\ cursor' = cur /\ UNCHANGED <<txn, available, currentReadTxn>>
      \/ /\ ~IsDone(t) /\ IsLastCursor(t)
         /\ txn' = [txn EXCEPT ![t] = EndedTxn]
         /\ cursor' = [d \in Cursors |-> [closed[d] EXCEPT !.txn = Over(t, @)]]
         /\ available' = [available EXCEPT !.txn = Over(t, @)]
         /\ currentReadTxn' = Over(t, currentReadTxn)
      \/ /\ ~IsDone(t) /\ ~IsLastCursor(t)
         /\ txn' = [txn EXCEPT ![t] = left]
         /\ cursor' = IF MustClose(t) THEN closed ELSE cur
         /\ available' = IF MustClose(t) THEN available ELSE [cursor |-> c, txn |-> t]
         /\ UNCHANGED currentReadTxn
  BY DEF FinishCursor
<1>6. \A d \in Cursors : d # c => closed[d] = cur[d] OBVIOUS
<1> HIDE DEF closed, left
<1>7. CASE IsDone(t) /\ cursor' = cur /\ UNCHANGED <<txn, available, currentReadTxn>>
  BY <1>1, <1>3, <1>7 DEF IsDone, FinishOutcome
<1>8. CASE /\ ~IsDone(t) /\ IsLastCursor(t)
           /\ txn' = [txn EXCEPT ![t] = EndedTxn]
           /\ cursor' = [d \in Cursors |-> [closed[d] EXCEPT !.txn = Over(t, @)]]
           /\ available' = [available EXCEPT !.txn = Over(t, @)]
           /\ currentReadTxn' = Over(t, currentReadTxn)
  <2>1. t \in Txns /\ txn[t] \in Txn BY <1>1, <1>2, <1>8 DEF IsDone
  <2>2. txn[t].onlyCursor /\ txn[t].cursorCount <= 1 BY <1>8, <2>1 DEF IsLastCursor, Txn
  <2>3. txn' \in [Txns -> Txn] /\ txn'[t] = EndedTxn /\ \A s \in Txns : s # t => txn'[s] = txn[s]
    BY <1>1, <1>8, <2>1, EndedTxnFields
  <2>4. ASSUME NEW d \in Cursors
        PROVE  /\ cursor'[d] \in [txn : Txns \cup {None}, snap : Nat]
               /\ cursor'[d].txn = Over(t, closed[d].txn) /\ cursor'[d].snap = closed[d].snap
    <3>1. cursor'[d] = [closed[d] EXCEPT !.txn = Over(t, closed[d].txn)] BY <1>8
    <3>2. closed[d] \in [txn : Txns \cup {None}, snap : Nat] BY <1>4
    <3>3. Over(t, closed[d].txn) \in Txns \cup {None} BY <3>2 DEF Over
    <3> QED BY <3>1, <3>2, <3>3
  <2>5. cursor' \in [Cursors -> [txn : Txns \cup {None}, snap : Nat]]
    <3>1. cursor' = [d \in Cursors |-> cursor'[d]] BY <1>8
    <3> QED BY <2>4, <3>1
  <2>6. \A d \in Cursors : d # c /\ cur[d].txn # t =>
          cursor'[d].txn = cur[d].txn /\ cursor'[d].snap = cur[d].snap
    BY <1>6, <2>4 DEF Over
  <2>7. /\ available' \in [cursor : Cursors \cup {None}, txn : Txns \cup {None}]
        /\ available'.cursor = available.cursor /\ available'.txn = Over(t, available.txn)
    BY <1>1, <1>8 DEF Over
  <2>8. currentReadTxn' \in Txns \cup {None} BY <1>1, <1>8 DEF Over
  <2> QED BY <1>3, <1>8, <2>1, <2>2, <2>3, <2>5, <2>6, <2>7, <2>8 DEF FinishOutcome
<1>9. CASE /\ ~IsDone(t) /\ ~IsLastCursor(t)
           /\ txn' = [txn EXCEPT ![t] = left]
           /\ cursor' = IF MustClose(t) THEN closed ELSE cur
           /\ available' = IF MustClose(t) THEN available ELSE [cursor |-> c, txn |-> t]
           /\ UNCHANGED currentReadTxn
  <2>1. t \in Txns /\ txn[t] \in Txn /\ c \in Cursors BY <1>1, <1>2, <1>9 DEF IsDone
  <2>2. txn[t].onlyCursor => txn[t].cursorCount > 1 BY <1>9, <2>1 DEF IsLastCursor, Txn
  <2>3. txn[t].cursorCount - 1 \in Nat /\ txn[t].renewingCursorCount - Follows(i) \in Nat
    <3>1. \A s : s = t => /\ Cardinality(On(s)) \in Nat \ {0}
                          /\ Cardinality(Following(s)) - Follows(i) \in Nat
      BY <2>1, LeaveCount
    <3> QED BY <2>1, <3>1 DEF IInv, CountInv
  <2> DEFINE x == [txn[t] EXCEPT !.cursorCount = txn[t].cursorCount - 1]
             y == [x EXCEPT !.renewingCursorCount = x.renewingCursorCount - Follows(i)]
  <2>4. /\ x \in Txn /\ x.lmdb = txn[t].lmdb /\ x.snap = txn[t].snap /\ x.onlyCursor = txn[t].onlyCursor
        /\ x.cursorCount = txn[t].cursorCount - 1 /\ x.renewingCursorCount = txn[t].renewingCursorCount
    BY <2>1, <2>3 DEF Txn
  <2>5. left = y BY DEF left
  <2> HIDE DEF x
  <2>6. /\ y \in Txn /\ y.lmdb = txn[t].lmdb /\ y.snap = txn[t].snap /\ y.onlyCursor = txn[t].onlyCursor
        /\ y.cursorCount = txn[t].cursorCount - 1
        /\ y.renewingCursorCount = txn[t].renewingCursorCount - Follows(i)
    BY <2>3, <2>4 DEF Txn
  <2> HIDE DEF y
  <2>7. txn' \in [Txns -> Txn] /\ txn'[t] = y /\ \A s \in Txns : s # t => txn'[s] = txn[s]
    BY <1>1, <1>9, <2>1, <2>5, <2>6
  <2>8. /\ cursor' \in [Cursors -> [txn : Txns \cup {None}, snap : Nat]]
        /\ \A d \in Cursors : d # c => cursor'[d] = cur[d]
    BY <1>4, <1>6, <1>9
  <2>9. \/ available' = available
        \/ t = readTxn /\ available' = [cursor |-> c, txn |-> t] /\ cursor' = cur
    BY <1>9 DEF MustClose
  <2>10. /\ available' \in [cursor : Cursors \cup {None}, txn : Txns \cup {None}]
         /\ currentReadTxn' \in Txns \cup {None}
    BY <1>1, <1>9, <2>1, <2>9
  <2> QED BY <1>3, <1>9, <2>1, <2>2, <2>6, <2>7, <2>8, <2>9, <2>10 DEF FinishOutcome
<1> QED BY <1>5, <1>7, <1>8, <1>9

\* The parts of the invariant that an iterator keeps when it gives its cursor up.
LEMMA FinishStep ==
    ASSUME IInv, NEW i \in Iterators, iter[i].on,
           iter' \in [Iterators -> Iter], ~iter'[i].on, iter'[i].txn = None,
           iter'[i].cursor = None, iter'[i].renew = "none",
           \A j \in Iterators : j # i => iter'[j] = iter[j],
           NEW cur \in [Cursors -> [txn : Txns \cup {None}, snap : Nat]], FinishCursor(i, cur),
           \A d \in Cursors : /\ cur[d].txn = cursor[d].txn
                              /\ d # iter[i].cursor => cur[d] = cursor[d],
           \A j \in Iterators : j # i => call # [at |-> "read", i |-> j],
           call' \in [at : {"idle", "get", "stat", "open", "again", "read"}, i : Iterators \cup {None}],
           CallInv'
    PROVE  IInv'
<1> DEFINE t == iter[i].txn
           c == iter[i].cursor
<1>1. /\ FinishOutcome(i, cur) /\ txn' \in [Txns -> Txn]
      /\ cursor' \in [Cursors -> [txn : Txns \cup {None}, snap : Nat]]
      /\ available' \in [cursor : Cursors \cup {None}, txn : Txns \cup {None}]
      /\ currentReadTxn' \in Txns \cup {None}
      /\ UNCHANGED <<committed, readTxn, readTxnRenewed, timer, ewRenewed, writeTxn, microtasks, seen>>
  BY FinishEffect
<1>2. TypeOK' BY <1>1 DEF IInv, TypeOK
<1>3. /\ None \notin Txns /\ None \notin Cursors
      /\ txn \in [Txns -> Txn] /\ iter \in [Iterators -> Iter]
      /\ t \in Txns \cup {None} /\ c \in Cursors \cup {None} /\ (c # None <=> t # None)
      /\ readTxn \in Txns \cup {None} /\ writeTxn \in Txns \cup {None}
      /\ available.txn \in Txns \cup {None} /\ available.cursor \in Cursors \cup {None}
  BY ReadBounds DEF IInv, TypeOK, Iter, IterInv, IterOK
<1>4. ASSUME NEW j \in Iterators, j # i, iter[j].txn # None
      PROVE  /\ iter[j].cursor \in Cursors /\ iter[j].cursor # c /\ iter[j].txn \in Txns
             /\ cur[iter[j].cursor] = cursor[iter[j].cursor]
             /\ cursor[iter[j].cursor].txn = iter[j].txn /\ iter[j].on
  <2>1. iter[j].cursor \in Cursors /\ iter[j].txn \in Txns /\ iter[j].on
        /\ cursor[iter[j].cursor].txn = iter[j].txn
    BY <1>3, <1>4 DEF IInv, IterInv, IterOK, Iter
  <2>2. iter[j].cursor # c BY <1>3, <1>4, <2>1 DEF IInv, CursorExclusive
  <2> QED BY <2>1, <2>2
<1>5. CASE t = None
  <2>1. txn' = txn /\ cursor' = cur /\ UNCHANGED <<available, currentReadTxn>> /\ c = None
    BY <1>1, <1>3, <1>5 DEF FinishOutcome
  <2>2. cur = cursor
    <3>1. \A d \in Cursors : cur[d] = cursor[d] BY <1>3, <2>1
    <3>2. cursor \in [Cursors -> [txn : Txns \cup {None}, snap : Nat]] BY DEF IInv, TypeOK
    <3> QED BY <3>1, <3>2
  <2>3. \A s \in Txns : On(s)' = On(s) /\ Following(s)' = Following(s)
    <3> SUFFICES ASSUME NEW s \in Txns PROVE On(s)' = On(s) /\ Following(s)' = Following(s)
      OBVIOUS
    <3>1. i \notin On(s) /\ i \notin On(s)' BY <1>3, <1>5 DEF On
    <3>2. \A j \in Iterators : j # i => (j \in On(s)' <=> j \in On(s)) BY DEF On
    <3>3. On(s)' = On(s) BY <3>1, <3>2 DEF On
    <3> QED BY <3>1, <3>3 DEF Following, On
  <2>4. CountInv' BY <2>1, <2>3 DEF IInv, CountInv
  <2>5. SharedInv' BY <1>1, <2>1, <2>3 DEF IInv, SharedInv, TxnOK
  <2>6. IterInv'
    <3>1. ASSUME NEW j \in Iterators, j # i PROVE IterOK(j)'
      <4>1. IterOK(j) /\ iter'[j] = iter[j] /\ call # [at |-> "read", i |-> j]
        BY <3>1 DEF IInv, IterInv
      <4> QED BY <1>1, <2>1, <2>2, <4>1 DEF IterOK
    <3>2. IterOK(i)' BY DEF IterOK
    <3> QED BY <3>1, <3>2 DEF IterInv
  <2>7. CursorExclusive' BY <2>1 DEF IInv, CursorExclusive
  <2>8. AvailableInv' BY <2>1, <2>2 DEF IInv, AvailableInv
  <2>9. SeenInv' BY <1>1, <2>1 DEF IInv, SeenInv
  <2> QED BY <1>2, <2>4, <2>5, <2>6, <2>7, <2>8, <2>9 DEF IInv
<1>6. ASSUME t \in Txns
      PROVE  /\ \A s : s # t => On(s)' = On(s) /\ Following(s)' = Following(s)
             /\ \A s : s = t =>
                  /\ i \in On(s) /\ On(s)' = On(s) \ {i}
                  /\ txn[s].cursorCount \in Nat \ {0}
                  /\ Cardinality(On(s)') = txn[s].cursorCount - 1
                  /\ Cardinality(Following(s)') = txn[s].renewingCursorCount - Follows(i)
                  /\ txn[s].cursorCount = 1 => On(s)' = {} /\ Following(s)' = {}
                  /\ txn[s].cursorCount # 1 => On(s)' # {}
             /\ c \in Cursors /\ cursor[c].txn = t /\ TxnOK(t) /\ txn[t].lmdb # "ended"
  <2>0. \A s : s # t => On(s)' = On(s) /\ Following(s)' = Following(s) BY <1>6, LeaveCount
  <2>1. ASSUME NEW s, s = t
        PROVE  /\ i \in On(s) /\ On(s)' = On(s) \ {i}
               /\ Cardinality(On(s)) \in Nat \ {0} /\ Cardinality(On(s)') = Cardinality(On(s)) - 1
               /\ Cardinality(Following(s)') = Cardinality(Following(s)) - Follows(i)
               /\ Cardinality(On(s)) = 1 => On(s)' = {}
               /\ Cardinality(On(s)) # 1 => On(s)' # {}
    <3>1. t \in Txns /\ i \in Iterators /\ iter[i].on BY <1>6
    <3>2. i \in On(s) /\ On(s)' = On(s) \ {i} BY <2>1, <3>1, LeaveCount
    <3>3. Cardinality(On(s)) \in Nat \ {0} BY <2>1, <3>1, LeaveCount
    <3>4. Cardinality(On(s)') = Cardinality(On(s)) - 1 BY <2>1, <3>1, LeaveCount
    <3>5. Cardinality(Following(s)') = Cardinality(Following(s)) - Follows(i)
      BY <2>1, <3>1, LeaveCount
    <3>6. Cardinality(On(s)) = 1 => On(s)' = {} BY <2>1, <3>1, LeaveCount
    <3>7. Cardinality(On(s)) # 1 => On(s)' # {} BY <2>1, <3>1, LeaveCount
    <3> QED BY <3>2, <3>3, <3>4, <3>5, <3>6, <3>7
  <2>2. \A s : s = t => /\ txn[s].cursorCount = Cardinality(On(s))
                        /\ txn[s].renewingCursorCount = Cardinality(Following(s))
    BY <1>6 DEF IInv, CountInv
  <2>3. c \in Cursors /\ cursor[c].txn = t BY <1>3, <1>6 DEF IInv, IterInv, IterOK
  <2>4. TxnOK(t) /\ txn[t].lmdb # "ended" BY <1>6, <2>1 DEF IInv, SharedInv, TxnOK
  <2>5. \A s : On(s)' = {} => Following(s)' = {} BY DEF Following
  <2> QED BY <2>0, <2>1, <2>2, <2>3, <2>4, <2>5
<1>7. CASE /\ t \in Txns /\ txn[t].onlyCursor /\ txn[t].cursorCount <= 1
           /\ txn'[t] = EndedTxn /\ \A s \in Txns : s # t => txn'[s] = txn[s]
           /\ \A d \in Cursors : d # c /\ cur[d].txn # t =>
                cursor'[d].txn = cur[d].txn /\ cursor'[d].snap = cur[d].snap
           /\ available'.cursor = available.cursor /\ available'.txn = Over(t, available.txn)
           /\ currentReadTxn' = Over(t, currentReadTxn)
  <2>1. /\ t # readTxn /\ t # writeTxn /\ txn[t].cursorCount = 1
    <3>1. t # readTxn /\ txn[t].lmdb \in {"active", "reset"} BY <1>6, <1>7 DEF TxnOK
    <3>2. t # writeTxn BY <1>3, <3>1, <1>7 DEF IInv, SharedInv
    <3>3. txn[t].cursorCount = 1
      <4>1. txn[t].cursorCount \in Nat \ {0} BY <1>6, <1>7
      <4>2. txn[t].cursorCount <= 1 BY <1>7
      <4> QED BY <4>1, <4>2
    <3> QED BY <3>1, <3>2, <3>3
  <2>2. \A s : s = t => On(s)' = {} /\ Following(s)' = {} BY <1>6, <1>7, <2>1
  <2>3. \A s : s # t => On(s)' = On(s) /\ Following(s)' = Following(s) BY <1>6, <1>7
  <2>4. CountInv'
    <3> SUFFICES ASSUME NEW s \in Txns
                 PROVE  /\ txn'[s].cursorCount = Cardinality(On(s)')
                        /\ txn'[s].renewingCursorCount = Cardinality(Following(s)')
      BY DEF CountInv
    <3>1. CASE s = t BY <1>7, <2>2, <3>1, EndedTxnFields, FS_EmptySet
    <3>2. CASE s # t BY <1>7, <2>3, <3>2 DEF IInv, CountInv
    <3> QED BY <3>1, <3>2
  <2>5. SharedInv'
    <3>1. ASSUME NEW s \in Txns PROVE TxnOK(s)'
      <4>1. CASE s = t BY <1>1, <1>7, <2>1, <2>2, <4>1, EndedTxnFields DEF TxnOK
      <4>2. CASE s # t
        <5>1. TxnOK(s) /\ txn'[s] = txn[s] /\ On(s)' = On(s) BY <1>7, <2>3, <4>2 DEF IInv, SharedInv
        <5> QED BY <1>1, <5>1 DEF TxnOK
      <4> QED BY <4>1, <4>2
    <3>2. readTxn # None => currentReadTxn' = readTxn
      BY <1>7, <2>1 DEF Over, IInv, SharedInv
    <3>3. writeTxn # None => txn'[writeTxn].lmdb = "write" BY <1>3, <1>7, <2>1 DEF IInv, SharedInv
    <3>4. readTxnRenewed => readTxn # None BY DEF IInv, SharedInv
    <3> QED BY <1>1, <3>1, <3>2, <3>3, <3>4 DEF SharedInv
  <2>6. IterInv'
    <3>1. ASSUME NEW j \in Iterators, j # i PROVE IterOK(j)'
      <4>1. IterOK(j) /\ iter'[j] = iter[j] /\ call # [at |-> "read", i |-> j]
        BY <3>1 DEF IInv, IterInv
      <4>2. iter[j].txn # None => iter[j].txn # t
        <5>1. iter[j].on /\ iter[j].txn = t => j \in On(t)
          BY DEF On
        <5>2. \A s : s = t => On(s) \subseteq {i} BY <1>6, <1>7, <2>2
        <5> QED BY <1>4, <3>1, <5>1, <5>2
      <4>3. iter[j].txn # None => /\ txn'[iter[j].txn] = txn[iter[j].txn]
                                  /\ cursor'[iter[j].cursor].txn = cursor[iter[j].cursor].txn
                                  /\ cursor'[iter[j].cursor].snap = cursor[iter[j].cursor].snap
        BY <1>4, <1>7, <3>1, <4>2
      <4> QED BY <1>1, <4>1, <4>3 DEF IterOK
    <3>2. IterOK(i)' BY DEF IterOK
    <3> QED BY <3>1, <3>2 DEF IterInv
  <2>7. CursorExclusive' BY <1>7 DEF IInv, CursorExclusive
  <2>8. AvailableInv'
    <3>1. available'.cursor = None => available'.txn = None BY <1>7 DEF IInv, AvailableInv, Over
    <3>2. ASSUME available'.txn # None
          PROVE  /\ cursor'[available'.cursor].txn = available'.txn
                 /\ txn'[available'.txn].lmdb \in {"active", "reset"}
      <4>1. /\ available.txn # None /\ available.txn # t /\ available'.txn = available.txn
            /\ available'.cursor = available.cursor
        BY <1>7, <3>2 DEF Over
      <4>2. available.txn \in Txns /\ available.cursor \in Cursors
        BY <1>3, <4>1 DEF IInv, AvailableInv
      <4>3. available.cursor # c BY <1>3, <4>2 DEF IInv, CursorExclusive
      <4>4. cur[available.cursor] = cursor[available.cursor] BY <4>2, <4>3
      <4> QED BY <1>7, <4>1, <4>2, <4>3, <4>4 DEF IInv, AvailableInv
    <3> QED BY <3>1, <3>2 DEF AvailableInv
  <2>9. SeenInv'
    <3>1. readTxnRenewed => txn'[readTxn] = txn[readTxn] BY <1>3, <1>7, <2>1 DEF IInv, SharedInv
    <3> QED BY <1>1, <3>1 DEF IInv, SeenInv
  <2> QED BY <1>2, <2>4, <2>5, <2>6, <2>7, <2>8, <2>9 DEF IInv
<1>8. CASE /\ t \in Txns
           /\ txn[t].onlyCursor => txn[t].cursorCount > 1
           /\ \A s \in Txns : s # t => txn'[s] = txn[s]
           /\ txn'[t].lmdb = txn[t].lmdb /\ txn'[t].snap = txn[t].snap
           /\ txn'[t].onlyCursor = txn[t].onlyCursor
           /\ txn'[t].cursorCount = txn[t].cursorCount - 1
           /\ txn'[t].renewingCursorCount = txn[t].renewingCursorCount - Follows(i)
           /\ \A d \in Cursors : d # c => cursor'[d] = cur[d]
           /\ \/ available' = available
              \/ t = readTxn /\ available' = [cursor |-> c, txn |-> t] /\ cursor' = cur
           /\ UNCHANGED currentReadTxn
  <2>1. \A s \in Txns : txn'[s].lmdb = txn[s].lmdb /\ txn'[s].snap = txn[s].snap
                        /\ txn'[s].onlyCursor = txn[s].onlyCursor
    BY <1>8
  <2>2. \A s : s # t => On(s)' = On(s) /\ Following(s)' = Following(s) BY <1>6, <1>8
  <2>3. CountInv'
    <3> SUFFICES ASSUME NEW s \in Txns
                 PROVE  /\ txn'[s].cursorCount = Cardinality(On(s)')
                        /\ txn'[s].renewingCursorCount = Cardinality(Following(s)')
      BY DEF CountInv
    <3>1. CASE s = t BY <1>6, <1>8, <3>1
    <3>2. CASE s # t BY <1>8, <2>2, <3>2 DEF IInv, CountInv
    <3> QED BY <3>1, <3>2
  <2>4. SharedInv'
    <3>1. ASSUME NEW s \in Txns PROVE TxnOK(s)'
      <4>1. CASE s = t
        <5>1. txn[s].onlyCursor => On(s)' # {} BY <1>6, <1>8, <4>1
        <5>2. TxnOK(s) /\ txn[s].lmdb # "ended" BY <1>6, <1>8, <4>1
        <5> QED BY <1>1, <2>1, <5>1, <5>2 DEF TxnOK
      <4>2. CASE s # t
        <5>1. TxnOK(s) /\ txn'[s] = txn[s] /\ On(s)' = On(s) BY <1>8, <2>2, <4>2 DEF IInv, SharedInv
        <5> QED BY <1>1, <5>1 DEF TxnOK
      <4> QED BY <4>1, <4>2
    <3> QED BY <1>1, <1>3, <1>8, <2>1, <3>1 DEF IInv, SharedInv
  <2>5. IterInv'
    <3>1. ASSUME NEW j \in Iterators, j # i PROVE IterOK(j)'
      <4>1. IterOK(j) /\ iter'[j] = iter[j] /\ call # [at |-> "read", i |-> j]
        BY <3>1 DEF IInv, IterInv
      <4>2. iter[j].txn # None => /\ txn'[iter[j].txn].lmdb = txn[iter[j].txn].lmdb
                                  /\ txn'[iter[j].txn].snap = txn[iter[j].txn].snap
                                  /\ cursor'[iter[j].cursor] = cursor[iter[j].cursor]
        BY <1>4, <1>8, <2>1, <3>1
      <4> QED BY <1>1, <4>1, <4>2 DEF IterOK
    <3>2. IterOK(i)' BY DEF IterOK
    <3> QED BY <3>1, <3>2 DEF IterInv
  <2>6. CursorExclusive'
    <3>1. \A j \in Iterators : j # i /\ iter[j].cursor # None =>
            iter[j].cursor # c /\ iter[j].cursor # available.cursor
      BY DEF IInv, CursorExclusive
    <3>2. available'.cursor \in {available.cursor, c} BY <1>8
    <3> QED BY <3>1, <3>2 DEF IInv, CursorExclusive
  <2>7. AvailableInv'
    <3>1. CASE t = readTxn /\ available' = [cursor |-> c, txn |-> t] /\ cursor' = cur
      <4>1. txn[t].lmdb \in {"active", "reset"} BY <1>6, <3>1, <1>8 DEF TxnOK
      <4>2. cursor'[c].txn = t /\ c # None BY <1>3, <1>6, <1>8, <3>1
      <4> QED BY <1>8, <2>1, <3>1, <4>1, <4>2 DEF AvailableInv
    <3>2. CASE available' = available
      <4>1. SUFFICES ASSUME available.txn # None
                     PROVE  /\ cursor'[available.cursor].txn = available.txn
                            /\ txn'[available.txn].lmdb \in {"active", "reset"}
        BY <3>2 DEF IInv, AvailableInv
      <4>2. available.txn \in Txns /\ available.cursor \in Cursors
        BY <1>3, <4>1 DEF IInv, AvailableInv
      <4>3. available.cursor # c BY <1>3, <4>2 DEF IInv, CursorExclusive
      <4>4. cur[available.cursor] = cursor[available.cursor] BY <4>2, <4>3
      <4> QED BY <1>8, <2>1, <4>1, <4>2, <4>3, <4>4 DEF IInv, AvailableInv
    <3> QED BY <1>8, <3>1, <3>2
  <2>8. SeenInv'
    <3>1. readTxnRenewed => txn'[readTxn].snap = txn[readTxn].snap
      BY <1>3, <2>1 DEF IInv, SharedInv
    <3> QED BY <1>1, <3>1 DEF IInv, SeenInv
  <2> QED BY <1>2, <2>3, <2>4, <2>5, <2>6, <2>7, <2>8 DEF IInv
<1> QED BY <1>1, <1>5, <1>7, <1>8 DEF FinishOutcome

\* The cursors are typed.
LEMMA SameCursors ==
    IInv => cursor \in [Cursors -> [txn : Txns \cup {None}, snap : Nat]]
BY DEF IInv, TypeOK

\* return(), and next() at the end of the range.
LEMMA FinishedFields ==
    ASSUME IInv, NEW i \in Iterators, Finished(i)
    PROVE  /\ iter' \in [Iterators -> Iter] /\ ~iter'[i].on /\ iter'[i].txn = None
           /\ iter'[i].cursor = None /\ iter'[i].renew = "none"
           /\ \A j \in Iterators : j # i => iter'[j] = iter[j]
<1>1. iter \in [Iterators -> Iter] BY DEF IInv, TypeOK
<1>2. iter' = [iter EXCEPT ![i] = NewIter(TRUE)] BY DEF Finished
<1>3. /\ NewIter(TRUE) \in Iter /\ ~NewIter(TRUE).on /\ NewIter(TRUE).txn = None
      /\ NewIter(TRUE).cursor = None /\ NewIter(TRUE).renew = "none"
  BY NewIterFields
<1>4. iter'[i] = NewIter(TRUE) /\ \A j \in Iterators : j # i => iter'[j] = iter[j] BY <1>1, <1>2
<1>5. iter' \in [Iterators -> Iter] BY <1>1, <1>2, <1>3
<1> QED BY <1>3, <1>4, <1>5

\* return().
LEMMA ReturnStep == ASSUME IInv, NEW i \in Iterators, Return(i) PROVE IInv'
<1>1. call = Idle /\ iter[i].on /\ FinishCursor(i, cursor) /\ Finished(i) /\ call' = call
  BY DEF Return, MayCall
<1>2. /\ iter' \in [Iterators -> Iter] /\ ~iter'[i].on /\ iter'[i].txn = None
      /\ iter'[i].cursor = None /\ iter'[i].renew = "none"
      /\ \A j \in Iterators : j # i => iter'[j] = iter[j]
  BY <1>1, FinishedFields
<1>3. /\ call' \in [at : {"idle", "get", "stat", "open", "again", "read"}, i : Iterators \cup {None}]
      /\ CallInv' /\ \A j : call # [at |-> "read", i |-> j]
  BY <1>1 DEF CallInv, Idle
<1> QED BY <1>1, <1>2, <1>3, SameCursors, FinishStep

\* next() meets the end of the range.
LEMMA NextDoneStep == ASSUME IInv, NEW i \in Iterators, NextDone(i) PROVE IInv'
<1>1. Reads(i) /\ FinishCursor(i, Positioned(i)) /\ Finished(i) /\ call' = Idle BY DEF NextDone
<1>2. /\ iter' \in [Iterators -> Iter] /\ ~iter'[i].on /\ iter'[i].txn = None
      /\ iter'[i].cursor = None /\ iter'[i].renew = "none"
      /\ \A j \in Iterators : j # i => iter'[j] = iter[j]
  BY <1>1, FinishedFields
<1>3. /\ call' \in [at : {"idle", "get", "stat", "open", "again", "read"}, i : Iterators \cup {None}]
      /\ CallInv'
  BY <1>1 DEF CallInv, Idle
<1>4. iter[i].on /\ \A j \in Iterators : j # i => call # [at |-> "read", i |-> j]
  BY <1>1, Reading DEF Idle
<1>5. /\ Positioned(i) \in [Cursors -> [txn : Txns \cup {None}, snap : Nat]]
      /\ \A d \in Cursors : /\ Positioned(i)[d].txn = cursor[d].txn
                            /\ d # iter[i].cursor => Positioned(i)[d] = cursor[d]
  BY <1>1, PositionedEffect
<1> QED BY <1>1, <1>2, <1>3, <1>4, <1>5, FinishStep

\* next() gives up a cursor whose transaction was reset or is over.
LEMMA NextResetsStep == ASSUME IInv, NEW i \in Iterators, NextResets(i) PROVE IInv'
<1>1. /\ call = Idle /\ iter[i].on /\ MustReset(i) /\ FinishCursor(i, cursor)
      /\ iter' = [iter EXCEPT ![i].on = FALSE, ![i].txn = None, ![i].cursor = None, ![i].renew = "none"]
      /\ call' = [at |-> "again", i |-> i]
  BY DEF NextResets, MayCall
<1>2. iter \in [Iterators -> Iter] /\ iter[i] \in Iter BY DEF IInv, TypeOK
<1> DEFINE a == [iter[i] EXCEPT !.on = FALSE]
           b == [a EXCEPT !.txn = None]
           d == [b EXCEPT !.cursor = None]
           e == [d EXCEPT !.renew = "none"]
<1>3. iter' = [j \in Iterators |-> IF j = i THEN e ELSE iter[j]] BY <1>1, <1>2
<1>4. a \in Iter /\ ~a.on /\ a.snapshot = iter[i].snapshot BY <1>2 DEF Iter
<1> HIDE DEF a
<1>5. b \in Iter /\ ~b.on /\ b.snapshot = iter[i].snapshot /\ b.txn = None BY <1>4 DEF Iter
<1> HIDE DEF b
<1>6. d \in Iter /\ ~d.on /\ d.snapshot = iter[i].snapshot /\ d.txn = None /\ d.cursor = None
  BY <1>5 DEF Iter
<1> HIDE DEF d
<1>7. e \in Iter /\ ~e.on /\ e.snapshot = iter[i].snapshot /\ e.txn = None /\ e.cursor = None
      /\ e.renew = "none"
  BY <1>6 DEF Iter
<1> HIDE DEF e
<1>8. /\ iter' \in [Iterators -> Iter] /\ iter'[i] = e
      /\ \A j \in Iterators : j # i => iter'[j] = iter[j]
  BY <1>2, <1>3, <1>7
<1>9. ~iter[i].snapshot BY <1>1 DEF MustReset, IInv, IterInv, IterOK
<1>10. /\ call' \in [at : {"idle", "get", "stat", "open", "again", "read"}, i : Iterators \cup {None}]
       /\ \A j : call # [at |-> "read", i |-> j]
  BY <1>1 DEF Idle
<1>11. CallInv' BY <1>1, <1>7, <1>8, <1>9 DEF CallInv
<1> QED BY <1>1, <1>7, <1>8, <1>10, <1>11, SameCursors, FinishStep

-----------------------------------------------------------------------------
(* resetCursor(). *)

\* An iterator that was given a cursor, and the transactions after that.
Opened(it, t, c, same, snapshot, view, renew) ==
    [it EXCEPT !.on = TRUE, !.snapshot = snapshot, !.txn = t, !.cursor = c,
               !.flag = @ \/ same, !.view = view, !.renew = renew]
Counted(f, t, n) == [f EXCEPT ![t].cursorCount = @ + 1, ![t].renewingCursorCount = @ + n]

\* Fields of an iterator that was given a cursor.
LEMMA OpenedFields ==
    ASSUME NEW it \in Iter, NEW t \in Txns, NEW c \in Cursors, NEW same \in BOOLEAN,
           NEW snapshot \in BOOLEAN, NEW view \in Nat, NEW renew \in {"none", "current"}, NEW r,
           r = Opened(it, t, c, same, snapshot, view, renew)
    PROVE  /\ r \in Iter /\ r.on /\ r.snapshot = snapshot /\ r.txn = t /\ r.cursor = c
           /\ (same => r.flag) /\ r.started = it.started /\ r.view = view /\ r.renew = renew
<1> DEFINE r1 == [it EXCEPT !.on = TRUE]
           r2 == [r1 EXCEPT !.snapshot = snapshot]
           r3 == [r2 EXCEPT !.txn = t]
           r4 == [r3 EXCEPT !.cursor = c]
           r5 == [r4 EXCEPT !.flag = @ \/ same]
           r6 == [r5 EXCEPT !.view = view]
           r7 == [r6 EXCEPT !.renew = renew]
<1>1. r = r7 BY DEF Opened
<1>2. r1 \in Iter /\ r1.on /\ r1.started = it.started BY DEF Iter
<1> HIDE DEF r1
<1>3. r2 \in Iter /\ r2.on /\ r2.snapshot = snapshot /\ r2.started = it.started BY <1>2 DEF Iter
<1> HIDE DEF r2
<1>4. r3 \in Iter /\ r3.on /\ r3.snapshot = snapshot /\ r3.txn = t /\ r3.started = it.started
  BY <1>3 DEF Iter
<1> HIDE DEF r3
<1>5. /\ r4 \in Iter /\ r4.on /\ r4.snapshot = snapshot /\ r4.txn = t /\ r4.cursor = c
      /\ r4.started = it.started
  BY <1>4 DEF Iter
<1> HIDE DEF r4
<1>6. /\ r5 \in Iter /\ r5.on /\ r5.snapshot = snapshot /\ r5.txn = t /\ r5.cursor = c
      /\ (same => r5.flag) /\ r5.started = it.started
  BY <1>5 DEF Iter
<1> HIDE DEF r5
<1>7. /\ r6 \in Iter /\ r6.on /\ r6.snapshot = snapshot /\ r6.txn = t /\ r6.cursor = c
      /\ (same => r6.flag) /\ r6.started = it.started /\ r6.view = view
  BY <1>6 DEF Iter
<1> HIDE DEF r6
<1>8. /\ r7 \in Iter /\ r7.on /\ r7.snapshot = snapshot /\ r7.txn = t /\ r7.cursor = c
      /\ (same => r7.flag) /\ r7.started = it.started /\ r7.view = view /\ r7.renew = renew
  BY <1>7 DEF Iter
<1> QED BY <1>1, <1>8

\* Fields of the transactions after that.
LEMMA CountedFields ==
    ASSUME NEW f \in [Txns -> Txn], NEW t \in Txns, NEW n \in {0, 1}, NEW g,
           g = Counted(f, t, n)
    PROVE  /\ g \in [Txns -> Txn] /\ \A s \in Txns : s # t => g[s] = f[s]
           /\ g[t].lmdb = f[t].lmdb /\ g[t].snap = f[t].snap /\ g[t].onlyCursor = f[t].onlyCursor
           /\ g[t].cursorCount = f[t].cursorCount + 1
           /\ g[t].renewingCursorCount = f[t].renewingCursorCount + n
<1> DEFINE x == [f[t] EXCEPT !.cursorCount = @ + 1]
           y == [x EXCEPT !.renewingCursorCount = @ + n]
<1>1. g = [s \in Txns |-> IF s = t THEN y ELSE f[s]] BY DEF Counted
<1>2. f[t] \in Txn OBVIOUS
<1>3. /\ x \in Txn /\ x.lmdb = f[t].lmdb /\ x.snap = f[t].snap /\ x.onlyCursor = f[t].onlyCursor
      /\ x.cursorCount = f[t].cursorCount + 1
      /\ x.renewingCursorCount = f[t].renewingCursorCount
  BY <1>2 DEF Txn
<1> HIDE DEF x
<1>4. /\ y \in Txn /\ y.lmdb = f[t].lmdb /\ y.snap = f[t].snap /\ y.onlyCursor = f[t].onlyCursor
      /\ y.cursorCount = f[t].cursorCount + 1
      /\ y.renewingCursorCount = f[t].renewingCursorCount + n
  BY <1>3 DEF Txn
<1> HIDE DEF y
<1> QED BY <1>1, <1>4

\* resetCursor() gives iterator i a cursor that nobody else has, on the transaction
\* that it may read now: a fresh one, one renewed for it, or the one that the store
\* kept, which is renewed before it is read.
AcquireOutcome(i, t, c) ==
    /\ i = call.i /\ call.at \in {"open", "again"} /\ i \in Iterators /\ t \in Txns /\ c \in Cursors
    /\ t = (IF writeTxn # None THEN writeTxn ELSE readTxn)
    /\ writeTxn = None => readTxnRenewed
    /\ call' = IF call.at = "open" THEN Idle ELSE [at |-> "read", i |-> i]
    /\ \A j \in Iterators : iter[j].cursor # c
    /\ \/ available' = NoAvailable
       \/ available' = available /\ c # available.cursor
    /\ cursor' \in [Cursors -> [txn : Txns \cup {None}, snap : Nat]]
    /\ cursor'[c].txn = t /\ \A d \in Cursors : d # c => cursor'[d] = cursor[d]
    /\ cursor'[c].snap = txn[t].snap \/ iter'[i].flag
    /\ txn' \in [Txns -> Txn] /\ \A s \in Txns : s # t => txn'[s] = txn[s]
    /\ txn'[t].lmdb = txn[t].lmdb /\ txn'[t].snap = txn[t].snap
    /\ txn'[t].onlyCursor = txn[t].onlyCursor
    /\ txn'[t].cursorCount = txn[t].cursorCount + 1
    /\ txn'[t].renewingCursorCount =
         txn[t].renewingCursorCount + (IF iter'[i].renew = "none" THEN 0 ELSE 1)
    /\ iter' \in [Iterators -> Iter] /\ \A j \in Iterators : j # i => iter'[j] = iter[j]
    /\ iter'[i].on /\ iter'[i].txn = t /\ iter'[i].cursor = c /\ iter'[i].started = iter[i].started
    /\ \/ /\ iter'[i].renew = "none" /\ iter'[i].snapshot /\ writeTxn = None /\ iter[i].snapshot
          /\ iter'[i].view = txn[t].snap
       \/ iter'[i].renew = "current" /\ ~iter'[i].snapshot
    /\ ewRenewed' \in BOOLEAN
    /\ UNCHANGED <<committed, readTxn, readTxnRenewed, timer, currentReadTxn, writeTxn, microtasks, seen>>

\* resetCursor() has the outcome above.
LEMMA AcquireEffect ==
    ASSUME IInv, AcquireCursor
    PROVE  \E i, t, c : AcquireOutcome(i, t, c)
<1> DEFINE i == call.i
           t == IF writeTxn # None THEN writeTxn ELSE readTxn
           reuse == writeTxn = None /\ available # NoAvailable
           same == reuse /\ available.txn = t
           snapshot == iter[i].snapshot /\ writeTxn = None
           n == IF snapshot THEN 0 ELSE 1
           view == IF snapshot THEN txn[t].snap ELSE 0
           renew == IF snapshot THEN "none" ELSE "current"
<1>1. call.at \in {"open", "again"} /\ ReadyToRead BY DEF AcquireCursor
<1>2. /\ txn \in [Txns -> Txn] /\ iter \in [Iterators -> Iter] /\ None \notin Txns
      /\ None \notin Cursors /\ available \in [cursor : Cursors \cup {None}, txn : Txns \cup {None}]
      /\ cursor \in [Cursors -> [txn : Txns \cup {None}, snap : Nat]] /\ i \in Iterators
  BY <1>1, ReadBounds DEF IInv, TypeOK, CallInv
<1>3. NativeRenewed = txn /\ GetReadTxn = t /\ t \in Txns
  <2>1. /\ NativeRenewed = txn
        /\ writeTxn = None => GetReadTxn = readTxn /\ readTxn \in Txns
        /\ writeTxn # None => GetReadTxn = writeTxn /\ writeTxn \in Txns
    BY <1>1, NativeSame
  <2> QED BY <2>1
<1>4. PICK c \in IF reuse THEN {available.cursor} ELSE UnusedCursors :
        /\ cursor' = IF same THEN cursor
                     ELSE [cursor EXCEPT ![c] = [txn |-> GetReadTxn,
                                                 snap |-> NativeRenewed[GetReadTxn].snap]]
        /\ ewRenewed' = (ewRenewed \/ (~same /\ writeTxn = None))
        /\ available' = TakenCursor(reuse)
        /\ txn' = [(IF same THEN txn ELSE NativeRenewed)
                     EXCEPT ![t].cursorCount = @ + 1,
                            ![t].renewingCursorCount = @ + IF snapshot THEN 0 ELSE 1]
        /\ iter' = [iter EXCEPT ![i] =
             [iter[i] EXCEPT !.on = TRUE, !.snapshot = snapshot, !.txn = t, !.cursor = c,
                       !.flag = @ \/ same, !.view = IF snapshot THEN txn[t].snap ELSE 0,
                       !.renew = IF snapshot THEN "none" ELSE "current"]]
        /\ call' = IF call.at = "open" THEN Idle ELSE [at |-> "read", i |-> i]
  BY DEF AcquireCursor
<1>5. /\ snapshot \in BOOLEAN /\ same \in BOOLEAN /\ n \in {0, 1} /\ renew \in {"none", "current"}
  OBVIOUS
<1>6. view \in Nat
  <2>1. txn[t].snap \in Nat BY <1>2, <1>3 DEF Txn
  <2> QED BY <2>1
<1>7. available # NoAvailable => available.cursor \in Cursors
  <2>1. available = [cursor |-> available.cursor, txn |-> available.txn] BY <1>2
  <2>2. available.cursor = None => available.txn = None BY DEF IInv, AvailableInv
  <2>3. available.cursor = None => available = NoAvailable BY <2>1, <2>2 DEF NoAvailable
  <2> QED BY <1>2, <2>3
<1>8. /\ c \in Cursors /\ \A j \in Iterators : iter[j].cursor # c
      /\ available' = NoAvailable \/ (available' = available /\ c # available.cursor)
  <2>1. CASE reuse
    <3>1. c = available.cursor /\ c \in Cursors /\ available' = NoAvailable
      BY <1>4, <1>7, <2>1 DEF TakenCursor
    <3> QED BY <1>2, <3>1 DEF IInv, CursorExclusive
  <2>2. CASE ~reuse
    BY <1>4, <2>2 DEF TakenCursor, UnusedCursors
  <2> QED BY <2>1, <2>2
<1>9. /\ cursor' \in [Cursors -> [txn : Txns \cup {None}, snap : Nat]]
      /\ cursor'[c].txn = t /\ \A d \in Cursors : d # c => cursor'[d] = cursor[d]
      /\ ~same => cursor'[c].snap = txn[t].snap
  <2>1. CASE same
    <3>1. cursor' = cursor /\ c = available.cursor /\ available.txn = t BY <1>4, <2>1
    <3> QED BY <1>2, <1>3, <2>1, <3>1 DEF IInv, AvailableInv
  <2>2. CASE ~same
    <3>1. cursor' = [cursor EXCEPT ![c] = [txn |-> t, snap |-> txn[t].snap]] BY <1>3, <1>4, <2>2
    <3>2. txn[t].snap \in Nat BY <1>2, <1>3 DEF Txn
    <3> QED BY <1>2, <1>3, <1>8, <2>2, <3>1, <3>2
  <2> QED BY <2>1, <2>2
<1>10. txn' = Counted(txn, t, n) BY <1>3, <1>4 DEF Counted
<1>11. /\ txn' \in [Txns -> Txn] /\ \A s \in Txns : s # t => txn'[s] = txn[s]
       /\ txn'[t].lmdb = txn[t].lmdb /\ txn'[t].snap = txn[t].snap
       /\ txn'[t].onlyCursor = txn[t].onlyCursor
       /\ txn'[t].cursorCount = txn[t].cursorCount + 1
       /\ txn'[t].renewingCursorCount = txn[t].renewingCursorCount + n
  <2>1. txn \in [Txns -> Txn] /\ t \in Txns /\ n \in {0, 1} BY <1>2, <1>3, <1>5
  <2> HIDE DEF t, n
  <2> QED BY ONLY <2>1, <1>10, CountedFields
<1> DEFINE r == Opened(iter[i], t, c, same, snapshot, view, renew)
<1>12. iter' = [iter EXCEPT ![i] = r] BY <1>4 DEF Opened
<1>13. iter[i] \in Iter BY <1>2
<1>14. /\ r \in Iter /\ r.on /\ r.snapshot = snapshot /\ r.txn = t /\ r.cursor = c
       /\ (same => r.flag) /\ r.started = iter[i].started /\ r.view = view /\ r.renew = renew
  <2>1. /\ t \in Txns /\ c \in Cursors /\ same \in BOOLEAN /\ snapshot \in BOOLEAN /\ view \in Nat
        /\ renew \in {"none", "current"}
    BY <1>3, <1>5, <1>6, <1>8
  <2> HIDE DEF i, t, snapshot, same, view, renew
  <2> QED BY ONLY <2>1, <1>13, OpenedFields
<1> HIDE DEF r
<1>15. /\ iter' \in [Iterators -> Iter] /\ iter'[i] = r
       /\ \A j \in Iterators : j # i => iter'[j] = iter[j]
  BY <1>2, <1>12, <1>14
<1>16. /\ ewRenewed' \in BOOLEAN
       /\ UNCHANGED <<committed, readTxn, readTxnRenewed, timer, currentReadTxn, writeTxn, microtasks,
                      seen>>
  BY <1>4 DEF AcquireCursor, loopVars
<1>17. writeTxn = None => readTxnRenewed BY <1>1 DEF ReadyToRead
<1>18. call' = IF call.at = "open" THEN Idle ELSE [at |-> "read", i |-> i] BY <1>4
<1>19. \/ /\ iter'[i].renew = "none" /\ iter'[i].snapshot /\ writeTxn = None /\ iter[i].snapshot
          /\ iter'[i].view = txn[t].snap
       \/ iter'[i].renew = "current" /\ ~iter'[i].snapshot
  BY <1>14, <1>15
<1>20. n = (IF iter'[i].renew = "none" THEN 0 ELSE 1) BY <1>14, <1>15
<1>21. t = (IF writeTxn # None THEN writeTxn ELSE readTxn) OBVIOUS
<1>22. cursor'[c].snap = txn[t].snap \/ iter'[i].flag BY <1>9, <1>14, <1>15
<1>23. i = call.i OBVIOUS
<1> HIDE DEF i, t, same, snapshot, n, view, renew, reuse
<1>24. AcquireOutcome(i, t, c)
  BY <1>1, <1>2, <1>3, <1>8, <1>9, <1>11, <1>14, <1>15, <1>16, <1>17, <1>18, <1>19, <1>20, <1>21,
     <1>22, <1>23
  DEF AcquireOutcome
<1> QED BY <1>24

\* resetCursor() preserves the invariant: its cursor is new to every iterator.
LEMMA AcquireStep == ASSUME IInv, AcquireCursor PROVE IInv'
<1>1. PICK i, t, c : AcquireOutcome(i, t, c) BY AcquireEffect
<1> USE DEF AcquireOutcome
<1>2. i \in Iterators /\ t \in Txns /\ c \in Cursors /\ i = call.i BY <1>1
<1>3. None \notin Txns /\ None \notin Cursors BY ReadBounds
<1>4. ~iter[i].on /\ iter[i].txn = None BY <1>1 DEF IInv, CallInv, IterInv, IterOK
<1>5. /\ \A s \in Txns : /\ txn'[s].lmdb = txn[s].lmdb /\ txn'[s].snap = txn[s].snap
                         /\ txn'[s].onlyCursor = txn[s].onlyCursor
  BY <1>1
<1>6. TypeOK'
  <2>1. call' \in [at : {"idle", "get", "stat", "open", "again", "read"}, i : Iterators \cup {None}]
    BY <1>1 DEF Idle
  <2>2. available' \in [cursor : Cursors \cup {None}, txn : Txns \cup {None}]
    BY <1>1 DEF NoAvailable, IInv, TypeOK
  <2> QED BY <1>1, <2>1, <2>2 DEF IInv, TypeOK
<1>7. \A s : s # t => On(s)' = On(s) /\ Following(s)' = Following(s)
  <2> SUFFICES ASSUME NEW s, s # t PROVE On(s)' = On(s) /\ Following(s)' = Following(s) OBVIOUS
  <2>1. i \notin On(s) /\ i \notin On(s)' BY <1>1, <1>4 DEF On
  <2>2. \A j \in Iterators : j # i => (j \in On(s)' <=> j \in On(s)) BY <1>1 DEF On
  <2>3. On(s)' = On(s) BY <2>1, <2>2 DEF On
  <2> QED BY <1>1, <2>1, <2>3 DEF Following, On
<1>8. On(t)' = On(t) \cup {i} /\ i \notin On(t)
  <2>1. i \notin On(t) /\ i \in On(t)' BY <1>1, <1>4 DEF On
  <2>2. \A j \in Iterators : j # i => (j \in On(t)' <=> j \in On(t)) BY <1>1 DEF On
  <2> QED BY <2>1, <2>2 DEF On
<1>9. Following(t)' = (IF iter'[i].renew = "none" THEN Following(t) ELSE Following(t) \cup {i})
      /\ i \notin Following(t)
  BY <1>1, <1>8 DEF Following, On
<1>10. /\ IsFiniteSet(On(t)) /\ IsFiniteSet(Following(t)) /\ Cardinality(On(t)) \in Nat
       /\ Cardinality(Following(t)) \in Nat
  BY Counting
<1>11. /\ Cardinality(On(t)') = Cardinality(On(t)) + 1
       /\ Cardinality(Following(t)')
            = Cardinality(Following(t)) + (IF iter'[i].renew = "none" THEN 0 ELSE 1)
  <2>1. Cardinality(On(t) \cup {i}) = Cardinality(On(t)) + 1 BY <1>8, <1>10, FS_AddElement
  <2>2. Cardinality(Following(t) \cup {i}) = Cardinality(Following(t)) + 1
    BY <1>9, <1>10, FS_AddElement
  <2>3. Cardinality(On(t)') = Cardinality(On(t)) + 1 BY <1>8, <2>1
  <2>4. CASE iter'[i].renew = "none" BY ONLY <1>9, <1>10, <2>3, <2>4
  <2>5. CASE iter'[i].renew # "none" BY ONLY <1>9, <2>2, <2>3, <2>5
  <2> QED BY ONLY <2>4, <2>5
<1>12. CountInv'
  <2> SUFFICES ASSUME NEW s \in Txns
               PROVE  /\ txn'[s].cursorCount = Cardinality(On(s)')
                      /\ txn'[s].renewingCursorCount = Cardinality(Following(s)')
    BY DEF CountInv
  <2>1. CASE s = t
    <3>1. txn[t].cursorCount = Cardinality(On(t)) /\ txn[t].renewingCursorCount = Cardinality(Following(t))
      BY <1>2 DEF IInv, CountInv
    <3> QED BY <1>1, <1>11, <2>1, <3>1
  <2>2. CASE s # t BY <1>1, <1>7, <2>2 DEF IInv, CountInv
  <2> QED BY <2>1, <2>2
<1>13. txn[t].lmdb = (IF writeTxn # None THEN "write" ELSE "active")
  BY <1>1, <1>2 DEF IInv, SharedInv, TxnOK
<1>14. SharedInv'
  <2>1. ASSUME NEW s \in Txns PROVE TxnOK(s)'
    <3>1. TxnOK(s) BY DEF IInv, SharedInv
    <3>2. On(s)' # {} \/ On(s)' = On(s) BY <1>7, <1>8
    <3>3. txn[s].lmdb = "ended" => On(s)' = On(s) BY <1>7, <1>13
    <3> QED BY <1>1, <1>5, <3>1, <3>2, <3>3 DEF TxnOK
  <2>2. writeTxn # None => txn'[writeTxn].lmdb = "write" BY <1>1, <1>5 DEF IInv, SharedInv
  <2> QED BY <1>1, <2>1, <2>2 DEF IInv, SharedInv
<1>15. CallInv'
  <2>1. CASE call.at = "open" BY <1>1, <2>1 DEF CallInv, Idle
  <2>2. CASE call.at = "again"
    <3>1. ~iter[i].snapshot BY <1>1, <2>2 DEF IInv, CallInv
    <3> QED BY <1>1, <1>2, <1>3, <2>2, <3>1 DEF CallInv
  <2> QED BY <1>1, <2>1, <2>2
<1>16. IterInv'
  <2>1. ASSUME NEW j \in Iterators, j # i PROVE IterOK(j)'
    <3>1. IterOK(j) /\ iter'[j] = iter[j] BY <1>1, <2>1 DEF IInv, IterInv
    <3>2. call # [at |-> "read", i |-> j] BY <1>1
    <3>3. iter[j] \in Iter /\ iter[j].cursor \in Cursors \cup {None} /\ iter[j].txn \in Txns \cup {None}
      BY DEF IInv, TypeOK, Iter
    <3>4. iter[j].txn # None => /\ iter[j].cursor \in Cursors /\ iter[j].txn \in Txns
                                /\ cursor'[iter[j].cursor] = cursor[iter[j].cursor]
                                /\ txn'[iter[j].txn].lmdb = txn[iter[j].txn].lmdb
                                /\ txn'[iter[j].txn].snap = txn[iter[j].txn].snap
      BY <1>1, <1>5, <3>1, <3>3 DEF IterOK
    <3>5. UNCHANGED <<readTxn, readTxnRenewed, writeTxn>> BY <1>1
    <3> HIDE DEF AcquireOutcome
    <3> QED BY <3>1, <3>2, <3>4, <3>5 DEF IterOK
  <2>2. IterOK(i)'
    <3>1. ~iter'[i].started \/ call' = [at |-> "read", i |-> i]
      <4>1. CASE call.at = "open" BY <1>1, <4>1 DEF IInv, CallInv
      <4>2. CASE call.at = "again" BY <1>1, <4>2
      <4> QED BY <1>1, <4>1, <4>2
    <3>2. iter'[i].renew = "none" => txn'[t].lmdb = "active" /\ iter'[i].view = txn'[t].snap
      BY <1>1, <1>2, <1>5, <1>13
    <3>3. t = writeTxn \/ (t = readTxn /\ readTxnRenewed) BY <1>1
    <3> QED BY <1>1, <1>2, <1>3, <3>1, <3>2, <3>3 DEF IterOK
  <2> QED BY <2>1, <2>2 DEF IterInv
<1>17. CursorExclusive'
  <2>1. \A j \in Iterators : j # i => iter'[j].cursor = iter[j].cursor /\ iter[j].cursor # c BY <1>1
  <2>2. iter'[i].cursor = c /\ c # None BY <1>1, <1>3
  <2>3. available'.cursor = None \/ (available'.cursor = available.cursor /\ c # available.cursor)
    BY <1>1 DEF NoAvailable
  <2> HIDE DEF AcquireOutcome
  <2> QED BY <2>1, <2>2, <2>3 DEF IInv, CursorExclusive
<1>18. AvailableInv'
  <2>1. CASE available' = NoAvailable BY <2>1 DEF AvailableInv, NoAvailable
  <2>2. CASE available' = available /\ c # available.cursor
    <3>1. SUFFICES ASSUME available.txn # None
                   PROVE  /\ cursor'[available.cursor].txn = available.txn
                          /\ txn'[available.txn].lmdb \in {"active", "reset"}
      BY <2>2 DEF IInv, AvailableInv
    <3>2. available.txn \in Txns /\ available.cursor \in Cursors
      BY <3>1, <1>3 DEF IInv, TypeOK, AvailableInv
    <3> QED BY <1>1, <1>5, <2>2, <3>1, <3>2 DEF IInv, AvailableInv
  <2> QED BY <1>1, <2>1, <2>2
<1>19. SeenInv'
  <2>1. readTxnRenewed => txn'[readTxn].snap = txn[readTxn].snap
    BY <1>5 DEF IInv, SharedInv, TypeOK
  <2> QED BY <1>1, <2>1 DEF IInv, SeenInv
<1> QED BY <1>6, <1>12, <1>14, <1>15, <1>16, <1>17, <1>18, <1>19 DEF IInv

-----------------------------------------------------------------------------
(* The invariant holds, and what follows from it. *)

\* Nothing changes.
LEMMA StutterStep == ASSUME IInv, UNCHANGED vars PROVE IInv'
<1>1. /\ UNCHANGED <<committed, readTxn, readTxnRenewed, timer, currentReadTxn, ewRenewed, writeTxn>>
      /\ UNCHANGED <<txn, cursor, available, iter, call, microtasks, seen>>
  BY DEF vars, readVars, cursorVars, loopVars
<1>2. CountInv' /\ SharedInv' /\ IterInv' /\ CursorExclusive' /\ AvailableInv'
  BY <1>1, HeldStep DEF heldVars
<1>3. TypeOK' BY <1>1 DEF IInv, TypeOK
<1>4. CallInv' BY <1>1 DEF IInv, CallInv
<1>5. SeenInv' BY <1>1 DEF IInv, SeenInv
<1> QED BY <1>2, <1>3, <1>4, <1>5 DEF IInv

\* Every step preserves the invariant.
LEMMA StepIInv == IInv /\ [Next]_vars => IInv'
<1> SUFFICES ASSUME IInv, [Next]_vars PROVE IInv' OBVIOUS
<1>1. CASE CallStep BY ONLY <1>1, IInv, RenewStep, GetStep, AcquireStep DEF CallStep
<1>2. CASE Timer \/ ExplicitReset BY ONLY <1>2, IInv, TimerStep
<1>3. ASSUME NEW i \in Iterators, Advance(i) PROVE IInv'
  <2>1. CASE NextResets(i) BY ONLY <2>1, IInv, i \in Iterators, NextResetsStep
  <2>2. CASE NextEntry(i) BY ONLY <2>2, IInv, i \in Iterators, NextEntryStep
  <2>3. CASE NextDone(i) BY ONLY <2>3, IInv, i \in Iterators, NextDoneStep
  <2>4. CASE Return(i) BY ONLY <2>4, IInv, i \in Iterators, ReturnStep
  <2> QED BY ONLY <1>3, <2>1, <2>2, <2>3, <2>4 DEF Advance
<1>4. ASSUME NEW i \in Iterators, NEW s \in BOOLEAN, Iterate(i, s) PROVE IInv'
  BY ONLY <1>4, IInv, IterateStep
<1>5. ASSUME NEW at \in {"get", "stat"}, StartGet(at) PROVE IInv' BY ONLY <1>5, IInv, StartGetStep
<1>6. CASE BeginWriteTxn BY ONLY <1>6, IInv, BeginWriteStep
<1>7. CASE CommitSync BY ONLY <1>7, IInv, CommitSyncStep
<1>8. CASE LeaveWriteTxn BY ONLY <1>8, IInv, LeaveWriteStep
<1>9. CASE Commit BY ONLY <1>9, IInv, CommitStep
<1>10. ASSUME NEW v \in 1..committed, ResolveAsync(v) PROVE IInv'
  BY ONLY <1>10, IInv, ResolveAsyncStep
<1>11. ASSUME NEW v \in 1..committed, ResolveSync(v) PROVE IInv'
  BY ONLY <1>11, IInv, ResolveSyncStep
<1>12. CASE MicrotaskReset BY ONLY <1>12, IInv, MicrotaskResetStep
<1>13. CASE MicrotaskReaction BY ONLY <1>13, IInv, ReactionStep
<1>14. CASE UNCHANGED vars BY ONLY <1>14, IInv, StutterStep
<1> QED BY ONLY <1>1, <1>2, <1>3, <1>4, <1>5, <1>6, <1>7, <1>8, <1>9, <1>10, <1>11, <1>12, <1>13,
                <1>14, [Next]_vars DEF Next

\* The invariant always holds.
LEMMA AlwaysIInv == Spec => []IInv
BY InitIInv, StepIInv, PTL DEF Spec

\* Every reachable state is typed; in particular cursorCount and
\* renewingCursorCount, which read.js changes at five places, are never negative.
THEOREM ReadTyped == Spec => []TypeOK
<1>1. IInv => TypeOK BY DEF IInv
<1> QED BY <1>1, AlwaysIInv, PTL

\* For any number of iterators and commits, an iterator that next() lets read does so
\* with a cursor on a transaction that is active and that was not renewed under it, or
\* that doPosition renews first.
THEOREM CursorLiveCorrect == Spec => []CursorLive
<1>1. IInv => CursorLive
  <2> SUFFICES ASSUME IInv, NEW i \in Iterators, ReadsNext(i)
               PROVE  /\ iter[i].txn # None /\ cursor[iter[i].cursor].txn = iter[i].txn
                      /\ txn[iter[i].txn].lmdb \in {"active", "write"}
                      /\ \/ cursor[iter[i].cursor].snap = txn[iter[i].txn].snap
                         \/ iter[i].flag /\ PositionsNext(i)
    BY DEF CursorLive
  <2>1. IterOK(i) BY DEF IInv, IterInv
  <2>2. iter[i].on /\ (iter[i].renew = "none" \/ (iter[i].renew # "stale" /\ iter[i].txn # None))
    BY DEF ReadsNext, MustReset, IsDone
  <2>3. iter[i].txn # None BY <2>1, <2>2 DEF IterOK
  <2>4. iter[i] \in Iter /\ iter[i].renew \in {"none", "current", "stale"} /\ iter[i].txn \in Txns
    BY <2>3 DEF IInv, TypeOK, Iter
  <2>5. txn[iter[i].txn].lmdb \in {"active", "write"}
    <3>1. CASE iter[i].renew = "none" BY <2>1, <2>2, <3>1 DEF IterOK
    <3>2. CASE iter[i].renew = "current"
      <4>1. iter[i].txn = writeTxn \/ (iter[i].txn = readTxn /\ readTxnRenewed)
        BY <2>1, <2>3, <3>2 DEF IterOK
      <4>2. writeTxn # None => txn[writeTxn].lmdb = "write" BY DEF IInv, SharedInv
      <4>3. TxnOK(iter[i].txn) BY <2>4 DEF IInv, SharedInv
      <4> QED BY <2>3, <4>1, <4>2, <4>3 DEF TxnOK
    <3> QED BY <2>2, <2>4, <3>1, <3>2
  <2>6. cursor[iter[i].cursor].txn = iter[i].txn BY <2>1, <2>3 DEF IterOK
  <2>7. \/ cursor[iter[i].cursor].snap = txn[iter[i].txn].snap
        \/ iter[i].flag /\ (~iter[i].started \/ call = [at |-> "read", i |-> i])
    BY <2>1, <2>2, <2>3 DEF IterOK
  <2>8. call = [at |-> "read", i |-> i] => call.at = "read" OBVIOUS
  <2> QED BY <2>3, <2>5, <2>6, <2>7, <2>8 DEF PositionsNext
<1> QED BY <1>1, AlwaysIInv, PTL

\* An iterator with a snapshot reads that one until it is done, however many commits,
\* resets and other iterators there are.
THEOREM SnapshotStableCorrect == Spec => []SnapshotStable
<1>1. IInv => SnapshotStable
  <2> SUFFICES ASSUME IInv, NEW i \in Iterators, iter[i].on, iter[i].renew = "none"
               PROVE  /\ txn[iter[i].txn].lmdb = "active" /\ txn[iter[i].txn].snap = iter[i].view
                      /\ iter[i].started => cursor[iter[i].cursor].snap = iter[i].view
    BY DEF SnapshotStable
  <2>1. IterOK(i) BY DEF IInv, IterInv
  <2>2. call # [at |-> "read", i |-> i]
    <3>1. call.at = "read" => iter[call.i].renew = "current" BY DEF IInv, CallInv
    <3> QED BY <3>1
  <2> QED BY <2>1, <2>2 DEF IterOK
<1> QED BY <1>1, AlwaysIInv, PTL

\* A cursor is never in the hands of two iterators, or of one and of the store.
THEOREM CursorExclusiveCorrect == Spec => []CursorExclusive
<1>1. IInv => CursorExclusive BY DEF IInv
<1> QED BY <1>1, AlwaysIInv, PTL

\* Code that awaited a write reads it: of all orders in which resets, reactions and
\* renewals can run, none leaves a renewed transaction that is older.
THEOREM ReadOwnWritesCorrect == Spec => []ReadOwnWrites
<1>1. IInv => ReadOwnWrites BY DEF IInv, SeenInv, ReadOwnWrites
<1> QED BY <1>1, AlwaysIInv, PTL

\* The transaction that read.js believes in is the one that native code reads.
THEOREM NativeAgreesCorrect == Spec => []NativeAgrees
<1>1. IInv => NativeAgrees
  <2> SUFFICES ASSUME IInv PROVE NativeAgrees OBVIOUS
  <2>1. readTxnRenewed => readTxn \in Txns BY DEF IInv, TypeOK, SharedInv
  <2> QED BY <2>1 DEF IInv, SharedInv, TxnOK, NativeAgrees
<1> QED BY <1>1, AlwaysIInv, PTL

\* A read transaction that resetReadTxn gave up is never forgotten: an iterator is
\* open on it, and the last one aborts it.
THEOREM NoReaderLeakCorrect == Spec => []NoReaderLeak
<1>1. IInv => NoReaderLeak
  <2> SUFFICES ASSUME IInv, NEW t \in Txns, txn[t].lmdb \in {"active", "reset"}, t # readTxn
               PROVE  \E i \in Iterators : iter[i].on /\ iter[i].txn = t
    BY DEF NoReaderLeak
  <2>1. On(t) # {} BY DEF IInv, SharedInv, TxnOK
  <2> QED BY <2>1 DEF On
<1> QED BY <1>1, AlwaysIInv, PTL

=============================================================================
