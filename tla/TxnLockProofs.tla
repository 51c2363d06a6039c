--------------------------- MODULE TxnLockProofs ----------------------------
(***************************************************************************)
(* Proofs about TxnLock, for any number of instructions and synchronous     *)
(* transactions.  IInv is the inductive invariant: who holds writingLock    *)
(* and LMDB's transaction at which point of the code (LockInv), when the    *)
(* batch is offered for a split (OfferInv), where blocks are open           *)
(* (BlockInv), and how the compression word follows the two threads that    *)
(* exchange it (ZipInv).  SignalInv and CommitInv are inductive relative    *)
(* to it under the restrictions that their theorems state.                  *)
(***************************************************************************)
EXTENDS TxnLock, FiniteSetTheorems, TLAPS

-----------------------------------------------------------------------------
(* The inductive invariant. *)

\* Where the write thread has its transaction open, and where it holds the lock.
InTxn == {"run", "put", "strict", "exchange", "zip", "commit", "wait", "strictwait", "zipwait"}
Locked == {"begin", "run", "put", "strict", "exchange", "zip", "commit"}

\* Each thread holds writingLock where its code is between lock and unlock (the
\* JavaScript thread also where it would lock it twice), and the open
\* transaction of LMDB is the one its owner has noted.
LockInv ==
    /\ mutex = "worker" <=> pc \in Locked
    /\ jsPc \in {"begin", "sync", "callback"} => mutex = "js"
    /\ mutex = "js" => jsPc \in {"begin", "sync", "callback", "lock"}
    /\ current = 0 <=> owner = Free
    /\ current <= last
    /\ owner = "worker" <=> pc \in InTxn
    /\ txn = (IF owner = "worker" THEN current ELSE 0)
    /\ owner = "js" => mutex = "js" /\ jsPc # "begin" /\ writeTxn.own
    /\ jsPc \in {"sync", "callback"} =>
         writeTxn.txn = current /\ current # 0 /\ (writeTxn.own => owner = "js")
    /\ jsPc = "callback" => ~writeTxn.own
    /\ pc # "none" => hasWorker

\* A batch is offered for a split only while the write thread waits outside all
\* blocks.
OfferInv ==
    interruptionStatus \in {"ALLOW_COMMIT", "INTERRUPT_BATCH"} =>
        pc \in {"wait", "strictwait"} /\ conditionDepth = 0

\* In a queue q, the block that begins at slot i is open at slot n: no END lies
\* between them.
OpenSince(q, n, i) == i < n /\ q[i] = "START" /\ \A k \in (i + 1)..(n - 1) : q[k] # "END"
Open(q, n) == \E i \in 1..(n - 1) : OpenSince(q, n, i)
Marks(q, op) == {i \in 1..Len(q) : q[i] = op}

\* Blocks do not nest, conditionDepth says whether the next instruction is in
\* one, and the open one belongs to the open transaction.
BlockInv ==
    /\ \A i \in 1..Len(queue) : /\ queue[i] = "START" => ~Open(queue, i)
                                /\ queue[i] = "END" => Open(queue, i)
    /\ Cardinality(Marks(queue, "START"))
         = Cardinality(Marks(queue, "END")) + (IF Open(queue, Len(queue) + 1) THEN 1 ELSE 0)
    /\ conditionDepth = (IF Open(queue, pos) THEN 1 ELSE 0)
    /\ conditionDepth # 0 => pc \in InTxn \ {"commit"}
    /\ \A i \in 1..Len(queue) : OpenSince(queue, pos, i) => txnOf[i] = txn
    /\ \A i \in Instructions : i >= pos => txnOf[i] = 0
    /\ \A i, j \in 1..Len(queue) : OpenSince(queue, j, i) /\ txnOf[j] # 0 => txnOf[j] = txnOf[i]

\* The write thread has exchanged the compression word of slot i.
Exchanged(i) == i < pos \/ (i = pos /\ pc \in {"zip", "zipwait", "put"})
Phase == [pointer |-> {"none", "queued"}, busy |-> {"busy", "written"}, done |-> {"done"},
          claimed |-> {}]

\* The word of a slot that the write thread has not exchanged says where the pool
\* thread is; of one that it claimed, the pool thread keeps off.
ZipInv ==
    /\ pc \in {"put", "exchange", "zip", "zipwait"} => pos <= Len(queue) /\ queue[pos] = "ZIP"
    /\ \A i \in Instructions :
         /\ zipper[i] \in {"written", "signal"} => compressed[i]
         /\ i > Len(queue) => zipper[i] = "none"
         /\ ~Exchanged(i) => /\ zipper[i] \in Phase[status[i]]
                             /\ zipper[i] = "done" => compressed[i]
    /\ pc = "zip" => \/ zipper[pos] = "done"
                     \/ zipper[pos] \in {"none", "queued"} /\ status[pos] = "claimed"
    /\ pc = "put" => compressed[pos]

IInv == TypeOK /\ LockInv /\ OfferInv /\ BlockInv /\ ZipInv

\* Without compression nobody but the write thread answers an interruption.
SignalInv ==
    /\ \A i \in 1..Len(queue) : queue[i] # "ZIP"
    /\ \A i \in Instructions : zipper[i] = "none"
    /\ jsPc = "interrupting" =>
         \/ interruptionStatus = "INTERRUPT_BATCH" /\ "js" \in waiting
         \/ pc = "restart" /\ "worker" \in waiting
    /\ jsPc = "begin" => txn = 0

\* Outside blocks and without compression, the write thread gives the transaction
\* away only by an offer to split the batch, so synchronous ones have their own.
CommitInv ==
    /\ \A i \in 1..Len(queue) : queue[i] # "START"
    /\ pc \in {"wait", "strictwait"} =>
          \/ interruptionStatus = "ALLOW_COMMIT"
          \/ interruptionStatus = "INTERRUPT_BATCH" /\ jsPc = "interrupting"
    /\ jsPc = "sync" => writeTxn.own
    /\ kind \in {"put", "txn"}
    /\ syncTxn # 0 => syncTxn \in committed

\* The parts of TypeOK.
ControlOK ==
    /\ pc \in {"none", "queued", "begin", "run", "put", "strict", "wait", "strictwait", "restart",
               "commit", "finished", "exchange", "zip", "zipwait"}
    /\ back \in {"run", "strict"}
    /\ interruptionStatus \in Statuses
    /\ jsPc \in {"idle", "acquire", "interrupting", "begin", "sync", "lock", "txnwait",
                 "callback", "abort"}
    /\ kind \in SyncKinds \cup {"txn"} /\ syncs \in 0..MaxSyncs
    /\ mutex \in {Free, "worker", "js"} /\ owner \in {Free, "worker", "js"}
FlagsOK == {finishedProgress, hasWorker, pending, progress} \subseteq BOOLEAN
TxnsOK == {txn, current, last, syncTxn, awaiting} \subseteq Nat /\ committed \subseteq 1..last
WriteTxnOK == writeTxn \in [txn : Nat, own : BOOLEAN, abortable : BOOLEAN]
WaitingOK == waiting \subseteq {"worker", "js"}
SlotsOK ==
    /\ queue \in Seq(Operations \cup {"END"}) /\ Len(queue) \in 0..MaxInstructions
    /\ pos \in 1..(Len(queue) + 1)
    /\ conditionDepth \in 0..1
    /\ status \in [Instructions -> {"pointer", "claimed", "busy", "done"}]
    /\ compressed \in [Instructions -> BOOLEAN]
    /\ zipper \in [Instructions -> {"none", "queued", "busy", "written", "signal", "done"}]
    /\ txnOf \in [Instructions -> Nat]


-----------------------------------------------------------------------------
(* Queues and their blocks. *)

\* pthread_cond_signal takes threads away and adds none.
LEMMA SignalledLess == ASSUME NEW T, NEW rest \in Signalled(T) PROVE rest \subseteq T
BY DEF Signalled

\* Appending to the queue.
LEMMA QueueAppend ==
    ASSUME NEW S, NEW q \in Seq(S), NEW op \in S
    PROVE  /\ Append(q, op) \in Seq(S) /\ Len(q) \in Nat
           /\ Len(Append(q, op)) = Len(q) + 1
           /\ \A i \in 1..Len(q) : Append(q, op)[i] = q[i]
           /\ Append(q, op)[Len(q) + 1] = op
           /\ DOMAIN q = 1..Len(q)
OBVIOUS

\* The block open after slot n is the one that begins there or, unless a block
\* ends there, the one open before.
LEMMA OpenNext ==
    ASSUME NEW q, NEW n \in Nat \ {0}
    PROVE  /\ \A i \in 1..n : OpenSince(q, n + 1, i) <=>
                 (i = n /\ q[n] = "START") \/ (OpenSince(q, n, i) /\ q[n] # "END")
           /\ Open(q, n + 1) <=> q[n] = "START" \/ (q[n] # "END" /\ Open(q, n))
<1>1. ASSUME NEW i \in 1..n
      PROVE  OpenSince(q, n + 1, i) <=>
               (i = n /\ q[n] = "START") \/ (OpenSince(q, n, i) /\ q[n] # "END")
  <2>1. CASE i = n BY <2>1 DEF OpenSince
  <2>2. CASE i < n
    <3>1. \A k : k \in (i + 1)..(n + 1 - 1) <=> k \in (i + 1)..(n - 1) \/ k = n BY <2>2
    <3> QED BY <2>2, <3>1 DEF OpenSince
  <2> QED BY <2>1, <2>2
<1>2. Open(q, n + 1) <=> \E i \in 1..n : OpenSince(q, n + 1, i) BY DEF Open
<1>3. Open(q, n) <=> \E i \in 1..n : OpenSince(q, n, i) BY DEF Open, OpenSince
<1> QED BY <1>1, <1>2, <1>3

\* What lies before a slot decides what is open there.
LEMMA OpenSame ==
    ASSUME NEW q, NEW r, NEW n \in Nat, \A i \in 1..(n - 1) : q[i] = r[i]
    PROVE  /\ \A i \in Nat \ {0} : OpenSince(q, n, i) <=> OpenSince(r, n, i)
           /\ Open(q, n) <=> Open(r, n)
<1>1. ASSUME NEW i \in Nat \ {0} PROVE OpenSince(q, n, i) <=> OpenSince(r, n, i)
  BY DEF OpenSince
<1> QED BY <1>1 DEF Open

\* One more BLOCK_START or BLOCK_END is one more to count.
LEMMA MarksAppend ==
    ASSUME NEW S, NEW q \in Seq(S), NEW op \in S, NEW mark
    PROVE  /\ Cardinality(Marks(q, mark)) \in Nat
           /\ Cardinality(Marks(Append(q, op), mark))
                = Cardinality(Marks(q, mark)) + (IF op = mark THEN 1 ELSE 0)
<1> DEFINE n == Len(q)
           r == Append(q, op)
<1>1. n \in Nat /\ Len(r) = n + 1 /\ r[n + 1] = op /\ \A i \in 1..n : r[i] = q[i]
  BY QueueAppend
<1> HIDE DEF n, r
<1>2. IsFiniteSet(Marks(q, mark)) /\ Cardinality(Marks(q, mark)) \in Nat
  <2>1. IsFiniteSet(1..n) BY <1>1, FS_Interval
  <2>2. Marks(q, mark) \in SUBSET (1..n) BY DEF Marks, n
  <2> QED BY <2>1, <2>2, FS_Subset, FS_CardinalityType
<1>3. CASE op = mark
  <2>1. Marks(r, mark) = Marks(q, mark) \cup {n + 1} BY <1>1, <1>3 DEF Marks, n
  <2>2. n + 1 \notin Marks(q, mark) BY <1>1 DEF Marks, n
  <2> QED BY <1>2, <1>3, <2>1, <2>2, FS_AddElement DEF r
<1>4. CASE op # mark
  <2>1. Marks(r, mark) = Marks(q, mark) BY <1>1, <1>4 DEF Marks, n
  <2> QED BY <1>2, <1>4, <2>1 DEF r
<1> QED BY <1>2, <1>3, <1>4


-----------------------------------------------------------------------------
(* Steps. *)

\* Every step keeps the account of writingLock and of LMDB's transaction.
LEMMA LockStep == ASSUME TypeOK, LockInv, [Next]_vars PROVE LockInv'
<1> USE LockOptions DEF Free, workerVars, startVars, jsVars, lmdbVars, zipVars,
       LockInv, InTxn, Locked, TypeOK, Statuses
<1>1. ASSUME NEW op \in Operations \cup {"END"}, Publish(op) PROVE LockInv'
  BY <1>1 DEF Publish, Signalled
<1>2. ASSUME NEW k \in SyncKinds, TransactionSync(k) PROVE LockInv'
  BY <1>2 DEF TransactionSync
<1>3. ASSUME AcquireTxn PROVE LockInv'
  BY <1>3 DEF AcquireTxn, Signalled, Synchronous, Abortable
<1>4. ASSUME InterruptAnswered PROVE LockInv'
  BY <1>4 DEF InterruptAnswered
<1>5. ASSUME BeginSync PROVE LockInv'
  BY <1>5 DEF BeginSync, MdbBegin
<1>6. ASSUME CommitTxn PROVE LockInv'
  BY <1>6 DEF CommitTxn, MdbEnd, UnlockTxn, UnlockSignal, Signalled, NoTxn
<1>7. ASSUME AbortTxn PROVE LockInv'
  BY <1>7 DEF AbortTxn, MdbEnd, UnlockTxn, UnlockSignal, Signalled, NoTxn
<1>8. ASSUME HandleProgress PROVE LockInv'
  BY <1>8 DEF HandleProgress
<1>9. ASSUME LockForCallbacks PROVE LockInv'
  BY <1>9 DEF LockForCallbacks, AwaitsTxn
<1>10. ASSUME TxnAwaited PROVE LockInv'
  BY <1>10 DEF TxnAwaited
<1>11. ASSUME CallbacksReturn PROVE LockInv'
  BY <1>11 DEF CallbacksReturn, Signalled, NoTxn
<1>12. ASSUME PromiseResolves PROVE LockInv'
  BY <1>12 DEF PromiseResolves
<1>13. ASSUME DeleteWorker PROVE LockInv'
  BY <1>13 DEF DeleteWorker
<1>14. ASSUME TakeLock PROVE LockInv'
  BY <1>14 DEF TakeLock
<1>15. ASSUME BeginTxn PROVE LockInv'
  BY <1>15 DEF BeginTxn, MdbBegin
<1>16. ASSUME ExecutePut PROVE LockInv'
  BY <1>16 DEF ExecutePut, AtInstruction, Advance
<1>17. ASSUME ExecuteBlock PROVE LockInv'
  BY <1>17 DEF ExecuteBlock, AtInstruction, Advance, DepthAfter
<1>18. ASSUME ExecuteCall PROVE LockInv'
  BY <1>18 DEF ExecuteCall, AtInstruction, Advance
<1>19. ASSUME StrictDone PROVE LockInv'
  BY <1>19 DEF StrictDone
<1>20. ASSUME WaitForCallbacks PROVE LockInv'
  BY <1>20 DEF WaitForCallbacks, Signalled, AllowCommit
<1>21. ASSUME PollAgain PROVE LockInv'
  BY <1>21 DEF PollAgain
<1>22. ASSUME Resume PROVE LockInv'
  BY <1>22 DEF Resume, WaitIsOver, BackTo
<1>23. ASSUME Interrupted PROVE LockInv'
  BY <1>23 DEF Interrupted, WaitIsOver, BackTo, MdbEnd, InterruptSignal, Signalled
<1>24. ASSUME Restart PROVE LockInv'
  BY <1>24 DEF Restart, RestartSignalled
<1>25. ASSUME Delimit PROVE LockInv'
  BY <1>25 DEF Delimit
<1>26. ASSUME Commit PROVE LockInv'
  BY <1>26 DEF Commit, MdbEnd
<1>27. ASSUME ZipCheck PROVE LockInv'
  BY <1>27 DEF ZipCheck, AtInstruction
<1>28. ASSUME ZipExchange PROVE LockInv'
  BY <1>28 DEF ZipExchange
<1>29. ASSUME ZipSelf PROVE LockInv'
  BY <1>29 DEF ZipSelf
<1>30. ASSUME ZipWake PROVE LockInv'
  BY <1>30 DEF ZipWake
<1>31. ASSUME NEW j \in Instructions, Zipper(j) PROVE LockInv'
  BY <1>31 DEF Zipper, ZipperStart, ZipperWrite, ZipperDone, ZipperSignal, Claims, Signalled
<1>32. CASE UNCHANGED vars
  BY <1>32 DEF vars
<1> QED BY <1>1, <1>2, <1>3, <1>4, <1>5, <1>6, <1>7, <1>8, <1>9, <1>10, <1>11, <1>12, <1>13,
  <1>14, <1>15, <1>16, <1>17, <1>18, <1>19, <1>20, <1>21, <1>22, <1>23, <1>24, <1>25, <1>26,
  <1>27, <1>28, <1>29, <1>30, <1>31, <1>32 DEF Next, JsStep, WorkerStep

\* Only a step into a wait outside all blocks makes an offer.
LEMMA OfferStep == ASSUME TypeOK, LockInv, OfferInv, [Next]_vars PROVE OfferInv'
<1> USE LockOptions DEF Free, workerVars, startVars, jsVars, lmdbVars, zipVars,
       LockInv, OfferInv, InTxn, Locked, TypeOK, Statuses
<1>1. ASSUME NEW op \in Operations \cup {"END"}, Publish(op) PROVE OfferInv'
  BY <1>1 DEF Publish, Signalled
<1>2. ASSUME NEW k \in SyncKinds, TransactionSync(k) PROVE OfferInv'
  BY <1>2 DEF TransactionSync
<1>3. ASSUME AcquireTxn PROVE OfferInv'
  BY <1>3 DEF AcquireTxn, Signalled, Synchronous, Abortable
<1>4. ASSUME InterruptAnswered PROVE OfferInv'
  BY <1>4 DEF InterruptAnswered
<1>5. ASSUME BeginSync PROVE OfferInv'
  BY <1>5 DEF BeginSync, MdbBegin
<1>6. ASSUME CommitTxn PROVE OfferInv'
  BY <1>6 DEF CommitTxn, MdbEnd, UnlockTxn, UnlockSignal, Signalled, NoTxn
<1>7. ASSUME AbortTxn PROVE OfferInv'
  BY <1>7 DEF AbortTxn, MdbEnd, UnlockTxn, UnlockSignal, Signalled, NoTxn
<1>8. ASSUME HandleProgress PROVE OfferInv'
  BY <1>8 DEF HandleProgress
<1>9. ASSUME LockForCallbacks PROVE OfferInv'
  BY <1>9 DEF LockForCallbacks, AwaitsTxn
<1>10. ASSUME TxnAwaited PROVE OfferInv'
  BY <1>10 DEF TxnAwaited
<1>11. ASSUME CallbacksReturn PROVE OfferInv'
  BY <1>11 DEF CallbacksReturn, Signalled, NoTxn
<1>12. ASSUME PromiseResolves PROVE OfferInv'
  BY <1>12 DEF PromiseResolves
<1>13. ASSUME DeleteWorker PROVE OfferInv'
  BY <1>13 DEF DeleteWorker
<1>14. ASSUME TakeLock PROVE OfferInv'
  BY <1>14 DEF TakeLock
<1>15. ASSUME BeginTxn PROVE OfferInv'
  BY <1>15 DEF BeginTxn, MdbBegin
<1>16. ASSUME ExecutePut PROVE OfferInv'
  BY <1>16 DEF ExecutePut, AtInstruction, Advance
<1>17. ASSUME ExecuteBlock PROVE OfferInv'
  BY <1>17 DEF ExecuteBlock, AtInstruction, Advance, DepthAfter
<1>18. ASSUME ExecuteCall PROVE OfferInv'
  BY <1>18 DEF ExecuteCall, AtInstruction, Advance
<1>19. ASSUME StrictDone PROVE OfferInv'
  BY <1>19 DEF StrictDone
<1>20. ASSUME WaitForCallbacks PROVE OfferInv'
  BY <1>20 DEF WaitForCallbacks, Signalled, AllowCommit
<1>21. ASSUME PollAgain PROVE OfferInv'
  BY <1>21 DEF PollAgain
<1>22. ASSUME Resume PROVE OfferInv'
  BY <1>22 DEF Resume, WaitIsOver, BackTo
<1>23. ASSUME Interrupted PROVE OfferInv'
  BY <1>23 DEF Interrupted, WaitIsOver, BackTo, MdbEnd, InterruptSignal, Signalled
<1>24. ASSUME Restart PROVE OfferInv'
  BY <1>24 DEF Restart, RestartSignalled
<1>25. ASSUME Delimit PROVE OfferInv'
  BY <1>25 DEF Delimit
<1>26. ASSUME Commit PROVE OfferInv'
  BY <1>26 DEF Commit, MdbEnd
<1>27. ASSUME ZipCheck PROVE OfferInv'
  BY <1>27 DEF ZipCheck, AtInstruction
<1>28. ASSUME ZipExchange PROVE OfferInv'
  BY <1>28 DEF ZipExchange
<1>29. ASSUME ZipSelf PROVE OfferInv'
  BY <1>29 DEF ZipSelf
<1>30. ASSUME ZipWake PROVE OfferInv'
  BY <1>30 DEF ZipWake
<1>31. ASSUME NEW j \in Instructions, Zipper(j) PROVE OfferInv'
  BY <1>31 DEF Zipper, ZipperStart, ZipperWrite, ZipperDone, ZipperSignal, Claims, Signalled
<1>32. CASE UNCHANGED vars
  BY <1>32 DEF vars
<1> QED BY <1>1, <1>2, <1>3, <1>4, <1>5, <1>6, <1>7, <1>8, <1>9, <1>10, <1>11, <1>12, <1>13,
  <1>14, <1>15, <1>16, <1>17, <1>18, <1>19, <1>20, <1>21, <1>22, <1>23, <1>24, <1>25, <1>26,
  <1>27, <1>28, <1>29, <1>30, <1>31, <1>32 DEF Next, JsStep, WorkerStep

\* The transaction that ends is one of those begun.
LEMMA EndedTxns ==
    ASSUME IInv, owner # Free, NEW ok \in BOOLEAN, MdbEnd(ok)
    PROVE  current' \in Nat /\ last' \in Nat /\ committed' \subseteq 1..last'
<1>1. current \in Nat /\ last \in Nat /\ current # 0 /\ current <= last /\ committed \subseteq 1..last
  BY DEF IInv, TypeOK, LockInv
<1>2. current' = 0 /\ last' = last /\ committed' \subseteq committed \cup {current}
  BY DEF MdbEnd
<1>3. current \in 1..last BY <1>1
<1> QED BY <1>1, <1>2, <1>3

\* Every step keeps the types.
LEMMA TypeStep == ASSUME IInv, [Next]_vars PROVE TypeOK'
<1> USE DEF Free, workerVars, startVars, jsVars, lmdbVars, zipVars
<1>1. ASSUME NEW op \in Operations \cup {"END"}, Publish(op) PROVE TypeOK'
  <2>1. ControlOK'
    BY <1>1, LockOptions DEF Publish, Signalled, IInv, TypeOK, ControlOK, Statuses
  <2>2. FlagsOK' BY <1>1 DEF Publish, Signalled, IInv, TypeOK, FlagsOK
  <2>3. TxnsOK' BY <1>1 DEF Publish, Signalled, IInv, TypeOK, TxnsOK, LockInv, InTxn, Locked
  <2>4. WriteTxnOK' BY <1>1 DEF Publish, Signalled, IInv, TypeOK, WriteTxnOK, NoTxn
  <2>5. WaitingOK' BY <1>1, SignalledLess DEF Publish, IInv, TypeOK, WaitingOK
  <2>6. SlotsOK'
    BY <1>1, LockOptions, QueueAppend DEF Publish, Signalled, IInv, TypeOK, SlotsOK, ZipInv,
      BlockInv, Instructions
  <2> QED BY <2>1, <2>2, <2>3, <2>4, <2>5, <2>6
    DEF TypeOK, ControlOK, FlagsOK, TxnsOK, WriteTxnOK, WaitingOK, SlotsOK
<1>2. ASSUME NEW k \in SyncKinds, TransactionSync(k) PROVE TypeOK'
  BY <1>2, LockOptions DEF TransactionSync, IInv, TypeOK, LockInv, InTxn, Locked, ZipInv,
    BlockInv, Statuses, Instructions, NoTxn
<1>3. ASSUME AcquireTxn PROVE TypeOK'
  <2>1. ControlOK'
    BY <1>3, LockOptions DEF AcquireTxn, Signalled, Synchronous, Abortable, IInv, TypeOK,
      ControlOK, Statuses
  <2>2. FlagsOK'
    BY <1>3 DEF AcquireTxn, Signalled, Synchronous, Abortable, IInv, TypeOK, FlagsOK
  <2>3. TxnsOK'
    BY <1>3 DEF AcquireTxn, Signalled, Synchronous, Abortable, IInv, TypeOK, TxnsOK, LockInv,
      InTxn, Locked
  <2>4. WriteTxnOK'
    <3>1. writeTxn \in [txn : Nat, own : BOOLEAN, abortable : BOOLEAN] /\ txn \in Nat
      BY DEF IInv, TypeOK
    <3>2. [txn |-> txn, own |-> FALSE, abortable |-> Abortable(kind)]
            \in [txn : Nat, own : BOOLEAN, abortable : BOOLEAN]
      BY <3>1 DEF Abortable
    <3>3. \/ writeTxn' = writeTxn
          \/ writeTxn' = [txn |-> txn, own |-> FALSE, abortable |-> Abortable(kind)]
      BY <1>3 DEF AcquireTxn
    <3> QED BY <3>1, <3>2, <3>3 DEF WriteTxnOK
  <2>5. WaitingOK'
    BY <1>3, SignalledLess DEF AcquireTxn, Synchronous, Abortable, IInv, TypeOK, WaitingOK
  <2>6. SlotsOK'
    BY <1>3, LockOptions DEF AcquireTxn, Signalled, Synchronous, Abortable, IInv, TypeOK,
      SlotsOK, ZipInv, BlockInv, Instructions
  <2> QED BY <2>1, <2>2, <2>3, <2>4, <2>5, <2>6
    DEF TypeOK, ControlOK, FlagsOK, TxnsOK, WriteTxnOK, WaitingOK, SlotsOK
<1>4. ASSUME InterruptAnswered PROVE TypeOK'
  BY <1>4, LockOptions DEF InterruptAnswered, IInv, TypeOK, LockInv, InTxn, Locked, ZipInv,
    BlockInv, Statuses, Instructions, NoTxn
<1>5. ASSUME BeginSync PROVE TypeOK'
  BY <1>5, LockOptions DEF BeginSync, MdbBegin, IInv, TypeOK, LockInv, InTxn, Locked, ZipInv,
    BlockInv, Statuses, Instructions, NoTxn
<1>6. ASSUME CommitTxn PROVE TypeOK'
  <2>1. ControlOK'
    BY <1>6, LockOptions DEF CommitTxn, MdbEnd, UnlockTxn, UnlockSignal, Signalled, NoTxn, IInv,
      TypeOK, ControlOK, Statuses
  <2>2. FlagsOK'
    BY <1>6 DEF CommitTxn, MdbEnd, UnlockTxn, UnlockSignal, Signalled, NoTxn, IInv, TypeOK,
      FlagsOK
  <2>3. TxnsOK'
    <3>1. syncTxn' = writeTxn.txn /\ UNCHANGED <<txn, awaiting>> BY <1>6 DEF CommitTxn
    <3>2. syncTxn' \in Nat BY <3>1 DEF IInv, TypeOK
    <3>3. CASE writeTxn.own
      <4>1. MdbEnd(TRUE) /\ owner # Free BY <1>6, <3>3 DEF CommitTxn, IInv, LockInv
      <4> QED BY <3>1, <3>2, <4>1, EndedTxns DEF IInv, TypeOK, TxnsOK
    <3>4. CASE ~writeTxn.own
      <4>1. UNCHANGED <<current, last, committed>> BY <1>6, <3>4 DEF CommitTxn
      <4> QED BY <3>1, <3>2, <4>1 DEF IInv, TypeOK, TxnsOK
    <3> QED BY <3>3, <3>4
  <2>4. WriteTxnOK'
    BY <1>6 DEF CommitTxn, MdbEnd, UnlockTxn, UnlockSignal, Signalled, NoTxn, IInv, TypeOK,
      WriteTxnOK, NoTxn
  <2>5. WaitingOK'
    BY <1>6, SignalledLess DEF CommitTxn, MdbEnd, UnlockTxn, UnlockSignal, NoTxn, IInv, TypeOK,
      WaitingOK
  <2>6. SlotsOK'
    BY <1>6, LockOptions DEF CommitTxn, MdbEnd, UnlockTxn, UnlockSignal, Signalled, NoTxn, IInv,
      TypeOK, SlotsOK, ZipInv, BlockInv, Instructions
  <2> QED BY <2>1, <2>2, <2>3, <2>4, <2>5, <2>6
    DEF TypeOK, ControlOK, FlagsOK, TxnsOK, WriteTxnOK, WaitingOK, SlotsOK
<1>7. ASSUME AbortTxn PROVE TypeOK'
  <2>1. ControlOK'
    BY <1>7, LockOptions DEF AbortTxn, MdbEnd, UnlockTxn, UnlockSignal, Signalled, NoTxn, IInv,
      TypeOK, ControlOK, Statuses
  <2>2. FlagsOK'
    BY <1>7 DEF AbortTxn, MdbEnd, UnlockTxn, UnlockSignal, Signalled, NoTxn, IInv, TypeOK,
      FlagsOK
  <2>3. TxnsOK'
    <3>1. syncTxn' = 0 /\ UNCHANGED <<txn, awaiting>> BY <1>7 DEF AbortTxn
    <3>2. syncTxn' \in Nat BY <3>1 DEF IInv, TypeOK
    <3>3. CASE writeTxn.own
      <4>1. MdbEnd(FALSE) /\ owner # Free BY <1>7, <3>3 DEF AbortTxn, IInv, LockInv
      <4> QED BY <3>1, <3>2, <4>1, EndedTxns DEF IInv, TypeOK, TxnsOK
    <3>4. CASE ~writeTxn.own
      <4>1. UNCHANGED <<current, last, committed>> BY <1>7, <3>4 DEF AbortTxn
      <4> QED BY <3>1, <3>2, <4>1 DEF IInv, TypeOK, TxnsOK
    <3> QED BY <3>3, <3>4
  <2>4. WriteTxnOK'
    BY <1>7 DEF AbortTxn, MdbEnd, UnlockTxn, UnlockSignal, Signalled, NoTxn, IInv, TypeOK,
      WriteTxnOK, NoTxn
  <2>5. WaitingOK'
    BY <1>7, SignalledLess DEF AbortTxn, MdbEnd, UnlockTxn, UnlockSignal, NoTxn, IInv, TypeOK,
      WaitingOK
  <2>6. SlotsOK'
    BY <1>7, LockOptions DEF AbortTxn, MdbEnd, UnlockTxn, UnlockSignal, Signalled, NoTxn, IInv,
      TypeOK, SlotsOK, ZipInv, BlockInv, Instructions
  <2> QED BY <2>1, <2>2, <2>3, <2>4, <2>5, <2>6
    DEF TypeOK, ControlOK, FlagsOK, TxnsOK, WriteTxnOK, WaitingOK, SlotsOK
<1>8. ASSUME HandleProgress PROVE TypeOK'
  <2>1. ControlOK' BY <1>8, LockOptions DEF HandleProgress, IInv, TypeOK, ControlOK, Statuses
  <2>2. FlagsOK' BY <1>8 DEF HandleProgress, IInv, TypeOK, FlagsOK
  <2>3. TxnsOK' BY <1>8 DEF HandleProgress, IInv, TypeOK, TxnsOK, LockInv, InTxn, Locked
  <2>4. WriteTxnOK' BY <1>8 DEF HandleProgress, IInv, TypeOK, WriteTxnOK, NoTxn
  <2>5. WaitingOK' BY <1>8, SignalledLess DEF HandleProgress, IInv, TypeOK, WaitingOK
  <2>6. SlotsOK'
    BY <1>8, LockOptions DEF HandleProgress, IInv, TypeOK, SlotsOK, ZipInv, BlockInv,
      Instructions
  <2> QED BY <2>1, <2>2, <2>3, <2>4, <2>5, <2>6
    DEF TypeOK, ControlOK, FlagsOK, TxnsOK, WriteTxnOK, WaitingOK, SlotsOK
<1>9. ASSUME LockForCallbacks PROVE TypeOK'
  <2>1. ControlOK'
    BY <1>9, LockOptions DEF LockForCallbacks, AwaitsTxn, IInv, TypeOK, ControlOK, Statuses
  <2>2. FlagsOK' BY <1>9 DEF LockForCallbacks, AwaitsTxn, IInv, TypeOK, FlagsOK
  <2>3. TxnsOK'
    BY <1>9 DEF LockForCallbacks, AwaitsTxn, IInv, TypeOK, TxnsOK, LockInv, InTxn, Locked
  <2>4. WriteTxnOK'
    <3>1. writeTxn \in [txn : Nat, own : BOOLEAN, abortable : BOOLEAN] /\ txn \in Nat
      BY DEF IInv, TypeOK
    <3>2. [txn |-> txn, own |-> FALSE, abortable |-> FALSE]
            \in [txn : Nat, own : BOOLEAN, abortable : BOOLEAN]
      BY <3>1
    <3>3. \/ writeTxn' = writeTxn
          \/ writeTxn' = [txn |-> txn, own |-> FALSE, abortable |-> FALSE]
      BY <1>9 DEF LockForCallbacks
    <3> QED BY <3>1, <3>2, <3>3 DEF WriteTxnOK
  <2>5. WaitingOK'
    BY <1>9, SignalledLess DEF LockForCallbacks, AwaitsTxn, IInv, TypeOK, WaitingOK
  <2>6. SlotsOK'
    BY <1>9, LockOptions DEF LockForCallbacks, AwaitsTxn, IInv, TypeOK, SlotsOK, ZipInv,
      BlockInv, Instructions
  <2> QED BY <2>1, <2>2, <2>3, <2>4, <2>5, <2>6
    DEF TypeOK, ControlOK, FlagsOK, TxnsOK, WriteTxnOK, WaitingOK, SlotsOK
<1>10. ASSUME TxnAwaited PROVE TypeOK'
  BY <1>10, LockOptions DEF TxnAwaited, IInv, TypeOK, LockInv, InTxn, Locked, ZipInv, BlockInv,
    Statuses, Instructions, NoTxn
<1>11. ASSUME CallbacksReturn PROVE TypeOK'
  <2>1. ControlOK'
    BY <1>11, LockOptions DEF CallbacksReturn, Signalled, NoTxn, IInv, TypeOK, ControlOK,
      Statuses
  <2>2. FlagsOK' BY <1>11 DEF CallbacksReturn, Signalled, NoTxn, IInv, TypeOK, FlagsOK
  <2>3. TxnsOK'
    BY <1>11 DEF CallbacksReturn, Signalled, NoTxn, IInv, TypeOK, TxnsOK, LockInv, InTxn, Locked
  <2>4. WriteTxnOK'
    BY <1>11 DEF CallbacksReturn, Signalled, NoTxn, IInv, TypeOK, WriteTxnOK, NoTxn
  <2>5. WaitingOK' BY <1>11, SignalledLess DEF CallbacksReturn, NoTxn, IInv, TypeOK, WaitingOK
  <2>6. SlotsOK'
    BY <1>11, LockOptions DEF CallbacksReturn, Signalled, NoTxn, IInv, TypeOK, SlotsOK, ZipInv,
      BlockInv, Instructions
  <2> QED BY <2>1, <2>2, <2>3, <2>4, <2>5, <2>6
    DEF TypeOK, ControlOK, FlagsOK, TxnsOK, WriteTxnOK, WaitingOK, SlotsOK
<1>12. ASSUME PromiseResolves PROVE TypeOK'
  BY <1>12, LockOptions DEF PromiseResolves, IInv, TypeOK, LockInv, InTxn, Locked, ZipInv,
    BlockInv, Statuses, Instructions, NoTxn
<1>13. ASSUME DeleteWorker PROVE TypeOK'
  BY <1>13, LockOptions DEF DeleteWorker, IInv, TypeOK, LockInv, InTxn, Locked, ZipInv,
    BlockInv, Statuses, Instructions, NoTxn
<1>14. ASSUME TakeLock PROVE TypeOK'
  BY <1>14, LockOptions DEF TakeLock, IInv, TypeOK, LockInv, InTxn, Locked, ZipInv, BlockInv,
    Statuses, Instructions, NoTxn
<1>15. ASSUME BeginTxn PROVE TypeOK'
  BY <1>15, LockOptions DEF BeginTxn, MdbBegin, IInv, TypeOK, LockInv, InTxn, Locked, ZipInv,
    BlockInv, Statuses, Instructions, NoTxn
<1>16. ASSUME ExecutePut PROVE TypeOK'
  BY <1>16, LockOptions DEF ExecutePut, AtInstruction, Advance, IInv, TypeOK, LockInv, InTxn,
    Locked, ZipInv, BlockInv, Statuses, Instructions, NoTxn
<1>17. ASSUME ExecuteBlock PROVE TypeOK'
  BY <1>17, LockOptions DEF ExecuteBlock, AtInstruction, Advance, DepthAfter, IInv, TypeOK,
    LockInv, InTxn, Locked, ZipInv, BlockInv, Statuses, Instructions, NoTxn
<1>18. ASSUME ExecuteCall PROVE TypeOK'
  <2>1. ControlOK'
    BY <1>18, LockOptions DEF ExecuteCall, AtInstruction, Advance, IInv, TypeOK, ControlOK,
      Statuses
  <2>2. FlagsOK' BY <1>18 DEF ExecuteCall, AtInstruction, Advance, IInv, TypeOK, FlagsOK
  <2>3. TxnsOK'
    BY <1>18 DEF ExecuteCall, AtInstruction, Advance, IInv, TypeOK, TxnsOK, LockInv, InTxn,
      Locked
  <2>4. WriteTxnOK'
    BY <1>18 DEF ExecuteCall, AtInstruction, Advance, IInv, TypeOK, WriteTxnOK, NoTxn
  <2>5. WaitingOK'
    BY <1>18, SignalledLess DEF ExecuteCall, AtInstruction, Advance, IInv, TypeOK, WaitingOK
  <2>6. SlotsOK'
    BY <1>18, LockOptions DEF ExecuteCall, AtInstruction, Advance, IInv, TypeOK, SlotsOK,
      ZipInv, BlockInv, Instructions
  <2> QED BY <2>1, <2>2, <2>3, <2>4, <2>5, <2>6
    DEF TypeOK, ControlOK, FlagsOK, TxnsOK, WriteTxnOK, WaitingOK, SlotsOK
<1>19. ASSUME StrictDone PROVE TypeOK'
  BY <1>19, LockOptions DEF StrictDone, IInv, TypeOK, LockInv, InTxn, Locked, ZipInv, BlockInv,
    Statuses, Instructions, NoTxn
<1>20. ASSUME WaitForCallbacks PROVE TypeOK'
  <2>1. ControlOK'
    BY <1>20, LockOptions DEF WaitForCallbacks, Signalled, AllowCommit, IInv, TypeOK, ControlOK,
      Statuses
  <2>2. FlagsOK' BY <1>20 DEF WaitForCallbacks, Signalled, AllowCommit, IInv, TypeOK, FlagsOK
  <2>3. TxnsOK'
    BY <1>20 DEF WaitForCallbacks, Signalled, AllowCommit, IInv, TypeOK, TxnsOK, LockInv, InTxn,
      Locked
  <2>4. WriteTxnOK'
    BY <1>20 DEF WaitForCallbacks, Signalled, AllowCommit, IInv, TypeOK, WriteTxnOK, NoTxn
  <2>5. WaitingOK'
    BY <1>20, SignalledLess DEF WaitForCallbacks, AllowCommit, IInv, TypeOK, WaitingOK
  <2>6. SlotsOK'
    BY <1>20, LockOptions DEF WaitForCallbacks, Signalled, AllowCommit, IInv, TypeOK, SlotsOK,
      ZipInv, BlockInv, Instructions
  <2> QED BY <2>1, <2>2, <2>3, <2>4, <2>5, <2>6
    DEF TypeOK, ControlOK, FlagsOK, TxnsOK, WriteTxnOK, WaitingOK, SlotsOK
<1>21. ASSUME PollAgain PROVE TypeOK'
  BY <1>21, LockOptions DEF PollAgain, IInv, TypeOK, LockInv, InTxn, Locked, ZipInv, BlockInv,
    Statuses, Instructions, NoTxn
<1>22. ASSUME Resume PROVE TypeOK'
  BY <1>22, LockOptions DEF Resume, WaitIsOver, BackTo, IInv, TypeOK, LockInv, InTxn, Locked,
    ZipInv, BlockInv, Statuses, Instructions, NoTxn
<1>23. ASSUME Interrupted PROVE TypeOK'
  <2>1. ControlOK'
    BY <1>23, LockOptions DEF Interrupted, WaitIsOver, BackTo, MdbEnd, InterruptSignal,
      Signalled, IInv, TypeOK, ControlOK, Statuses
  <2>2. FlagsOK'
    BY <1>23 DEF Interrupted, WaitIsOver, BackTo, MdbEnd, InterruptSignal, Signalled, IInv,
      TypeOK, FlagsOK
  <2>3. TxnsOK'
    <3>1. owner # Free BY <1>23 DEF Interrupted, WaitIsOver, IInv, LockInv, InTxn
    <3>2. MdbEnd(TRUE) /\ txn' = 0 /\ UNCHANGED <<syncTxn, awaiting>> BY <1>23 DEF Interrupted
    <3>3. current' \in Nat /\ last' \in Nat /\ committed' \subseteq 1..last'
      BY <3>1, <3>2, EndedTxns
    <3>4. txn' \in Nat /\ syncTxn' \in Nat /\ awaiting' \in Nat BY <3>2 DEF IInv, TypeOK
    <3> QED BY <3>3, <3>4 DEF TxnsOK
  <2>4. WriteTxnOK'
    BY <1>23 DEF Interrupted, WaitIsOver, BackTo, MdbEnd, InterruptSignal, Signalled, IInv,
      TypeOK, WriteTxnOK, NoTxn
  <2>5. WaitingOK'
    <3>1. PICK rest \in Signalled(waiting \ {"worker"}) : waiting' = rest \cup {"worker"}
      BY <1>23 DEF Interrupted, InterruptSignal
    <3>2. rest \subseteq waiting \ {"worker"} BY SignalledLess
    <3> QED BY <3>1, <3>2 DEF IInv, TypeOK, WaitingOK
  <2>6. SlotsOK'
    BY <1>23, LockOptions DEF Interrupted, WaitIsOver, BackTo, MdbEnd, InterruptSignal,
      Signalled, IInv, TypeOK, SlotsOK, ZipInv, BlockInv, Instructions
  <2> QED BY <2>1, <2>2, <2>3, <2>4, <2>5, <2>6
    DEF TypeOK, ControlOK, FlagsOK, TxnsOK, WriteTxnOK, WaitingOK, SlotsOK
<1>24. ASSUME Restart PROVE TypeOK'
  BY <1>24, LockOptions DEF Restart, RestartSignalled, IInv, TypeOK, LockInv, InTxn, Locked,
    ZipInv, BlockInv, Statuses, Instructions, NoTxn
<1>25. ASSUME Delimit PROVE TypeOK'
  BY <1>25, LockOptions DEF Delimit, IInv, TypeOK, LockInv, InTxn, Locked, ZipInv, BlockInv,
    Statuses, Instructions, NoTxn
<1>26. ASSUME Commit PROVE TypeOK'
  <2>1. ControlOK' BY <1>26, LockOptions DEF Commit, MdbEnd, IInv, TypeOK, ControlOK, Statuses
  <2>2. FlagsOK' BY <1>26 DEF Commit, MdbEnd, IInv, TypeOK, FlagsOK
  <2>3. TxnsOK'
    <3>1. owner # Free BY <1>26 DEF Commit, WaitIsOver, IInv, LockInv, InTxn
    <3>2. MdbEnd(TRUE) /\ txn' = 0 /\ UNCHANGED <<syncTxn, awaiting>> BY <1>26 DEF Commit
    <3>3. current' \in Nat /\ last' \in Nat /\ committed' \subseteq 1..last'
      BY <3>1, <3>2, EndedTxns
    <3>4. txn' \in Nat /\ syncTxn' \in Nat /\ awaiting' \in Nat BY <3>2 DEF IInv, TypeOK
    <3> QED BY <3>3, <3>4 DEF TxnsOK
  <2>4. WriteTxnOK' BY <1>26 DEF Commit, MdbEnd, IInv, TypeOK, WriteTxnOK, NoTxn
  <2>5. WaitingOK' BY <1>26, SignalledLess DEF Commit, MdbEnd, IInv, TypeOK, WaitingOK
  <2>6. SlotsOK'
    BY <1>26, LockOptions DEF Commit, MdbEnd, IInv, TypeOK, SlotsOK, ZipInv, BlockInv,
      Instructions
  <2> QED BY <2>1, <2>2, <2>3, <2>4, <2>5, <2>6
    DEF TypeOK, ControlOK, FlagsOK, TxnsOK, WriteTxnOK, WaitingOK, SlotsOK
<1>27. ASSUME ZipCheck PROVE TypeOK'
  BY <1>27, LockOptions DEF ZipCheck, AtInstruction, IInv, TypeOK, LockInv, InTxn, Locked,
    ZipInv, BlockInv, Statuses, Instructions, NoTxn
<1>28. ASSUME ZipExchange PROVE TypeOK'
  BY <1>28, LockOptions DEF ZipExchange, IInv, TypeOK, LockInv, InTxn, Locked, ZipInv, BlockInv,
    Statuses, Instructions, NoTxn
<1>29. ASSUME ZipSelf PROVE TypeOK'
  BY <1>29, LockOptions DEF ZipSelf, IInv, TypeOK, LockInv, InTxn, Locked, ZipInv, BlockInv,
    Statuses, Instructions, NoTxn
<1>30. ASSUME ZipWake PROVE TypeOK'
  <2>1. ControlOK' BY <1>30, LockOptions DEF ZipWake, IInv, TypeOK, ControlOK, Statuses
  <2>2. FlagsOK' BY <1>30 DEF ZipWake, IInv, TypeOK, FlagsOK
  <2>3. TxnsOK' BY <1>30 DEF ZipWake, IInv, TypeOK, TxnsOK, LockInv, InTxn, Locked
  <2>4. WriteTxnOK' BY <1>30 DEF ZipWake, IInv, TypeOK, WriteTxnOK, NoTxn
  <2>5. WaitingOK' BY <1>30, SignalledLess DEF ZipWake, IInv, TypeOK, WaitingOK
  <2>6. SlotsOK'
    BY <1>30, LockOptions DEF ZipWake, IInv, TypeOK, SlotsOK, ZipInv, BlockInv, Instructions
  <2> QED BY <2>1, <2>2, <2>3, <2>4, <2>5, <2>6
    DEF TypeOK, ControlOK, FlagsOK, TxnsOK, WriteTxnOK, WaitingOK, SlotsOK
<1>31. ASSUME NEW j \in Instructions, Zipper(j) PROVE TypeOK'
  <2>1. ControlOK'
    BY <1>31, LockOptions DEF Zipper, ZipperStart, ZipperWrite, ZipperDone, ZipperSignal,
      Claims, Signalled, IInv, TypeOK, ControlOK, Statuses
  <2>2. FlagsOK'
    BY <1>31 DEF Zipper, ZipperStart, ZipperWrite, ZipperDone, ZipperSignal, Claims, Signalled,
      IInv, TypeOK, FlagsOK
  <2>3. TxnsOK'
    BY <1>31 DEF Zipper, ZipperStart, ZipperWrite, ZipperDone, ZipperSignal, Claims, Signalled,
      IInv, TypeOK, TxnsOK, LockInv, InTxn, Locked
  <2>4. WriteTxnOK'
    BY <1>31 DEF Zipper, ZipperStart, ZipperWrite, ZipperDone, ZipperSignal, Claims, Signalled,
      IInv, TypeOK, WriteTxnOK, NoTxn
  <2>5. WaitingOK'
    BY <1>31, SignalledLess DEF Zipper, ZipperStart, ZipperWrite, ZipperDone, ZipperSignal,
      Claims, IInv, TypeOK, WaitingOK
  <2>6. SlotsOK'
    <3>1. UNCHANGED <<queue, pos, conditionDepth, txnOf>> BY <1>31 DEF Zipper
    <3>2. status' \in [Instructions -> {"pointer", "claimed", "busy", "done"}]
      BY <1>31 DEF Zipper, ZipperStart, ZipperWrite, ZipperDone, ZipperSignal, IInv, TypeOK
    <3>3. compressed' \in [Instructions -> BOOLEAN]
      BY <1>31 DEF Zipper, ZipperStart, ZipperWrite, ZipperDone, ZipperSignal, IInv, TypeOK
    <3>4. zipper' \in [Instructions -> {"none", "queued", "busy", "written", "signal", "done"}]
      BY <1>31 DEF Zipper, ZipperStart, ZipperWrite, ZipperDone, ZipperSignal, IInv, TypeOK
    <3> QED BY <3>1, <3>2, <3>3, <3>4 DEF IInv, TypeOK, SlotsOK
  <2> QED BY <2>1, <2>2, <2>3, <2>4, <2>5, <2>6
    DEF TypeOK, ControlOK, FlagsOK, TxnsOK, WriteTxnOK, WaitingOK, SlotsOK
<1>32. CASE UNCHANGED vars
  BY <1>32 DEF vars, IInv, TypeOK, LockInv, InTxn, Locked, ZipInv, BlockInv, Statuses,
    Instructions, NoTxn
<1> QED BY <1>1, <1>2, <1>3, <1>4, <1>5, <1>6, <1>7, <1>8, <1>9, <1>10, <1>11, <1>12, <1>13,
  <1>14, <1>15, <1>16, <1>17, <1>18, <1>19, <1>20, <1>21, <1>22, <1>23, <1>24, <1>25, <1>26,
  <1>27, <1>28, <1>29, <1>30, <1>31, <1>32 DEF Next, JsStep, WorkerStep

\* Every step keeps the account of the compression words.
LEMMA ZipStep == ASSUME IInv, [Next]_vars PROVE ZipInv'
<1> USE DEF Free, workerVars, startVars, jsVars, lmdbVars, zipVars
<1>1. ASSUME NEW op \in Operations \cup {"END"}, Publish(op) PROVE ZipInv'
  <2> USE DEF IInv, ZipInv, Exchanged, Instructions
  <2>1. /\ Len(queue') = Len(queue) + 1 /\ Len(queue) \in Nat /\ Len(queue) < MaxInstructions
        /\ \A i \in 1..Len(queue) : queue'[i] = queue[i]
        /\ \A i \in Instructions : i # Len(queue) + 1 => zipper'[i] = zipper[i]
        /\ zipper'[Len(queue) + 1] \in {"none", "queued"}
        /\ pc' = pc \/ (pc \in {"none", "finished"} /\ pc' = "queued")
        /\ UNCHANGED <<pos, status, compressed>>
    <3>1. queue' = Append(queue, op) /\ queue \in Seq(Operations \cup {"END"})
      BY <1>1 DEF Publish, TypeOK
    <3>2. /\ Len(queue') = Len(queue) + 1 /\ Len(queue) \in Nat
          /\ \A i \in 1..Len(queue) : queue'[i] = queue[i]
      BY <3>1, QueueAppend
    <3>3. Len(queue) < MaxInstructions /\ Len(queue) + 1 \in Instructions
      BY <1>1, <3>2, LockOptions DEF Publish
    <3>4. zipper[Len(queue) + 1] = "none" BY <3>2, <3>3
    <3>5. /\ zipper'[Len(queue) + 1] \in {"none", "queued"}
          /\ \A i \in Instructions : i # Len(queue) + 1 => zipper'[i] = zipper[i]
      BY <1>1, <3>2, <3>3, <3>4 DEF Publish, TypeOK
    <3>6. pc' = pc \/ (pc \in {"none", "finished"} /\ pc' = "queued")
      <4>1. pc' = IF pc \in {"none", "finished"} THEN "queued" ELSE pc BY <1>1 DEF Publish
      <4> QED BY <4>1
    <3>7. UNCHANGED <<pos, status, compressed>> BY <1>1 DEF Publish
    <3> QED BY <3>2, <3>3, <3>5, <3>6, <3>7
  <2>2. pos \in 1..(Len(queue) + 1) /\ MaxInstructions \in Nat BY LockOptions DEF TypeOK
  <2>3. zipper[Len(queue) + 1] = "none" BY <2>1, <2>2
  <2>4. ASSUME NEW i \in Instructions
        PROVE  /\ zipper'[i] \in {"written", "signal"} => compressed'[i]
               /\ i > Len(queue') => zipper'[i] = "none"
               /\ ~Exchanged(i)' => /\ zipper'[i] \in Phase[status'[i]]
                                    /\ zipper'[i] = "done" => compressed'[i]
    <3>1. CASE i = Len(queue) + 1
      BY <2>1, <2>2, <2>3, <3>1 DEF Phase, TypeOK
    <3>2. CASE i # Len(queue) + 1 BY <2>1, <2>2, <3>2
    <3> QED BY <3>1, <3>2
  <2>5. pc \in {"put", "exchange", "zip", "zipwait"} =>
          pc' = pc /\ pos # Len(queue) + 1 /\ queue'[pos] = "ZIP"
    BY <2>1, <2>2
  <2> QED BY <2>1, <2>2, <2>4, <2>5
<1>2. ASSUME NEW k \in SyncKinds, TransactionSync(k) PROVE ZipInv'
  BY <1>2, LockOptions DEF TransactionSync, IInv, TypeOK, ZipInv, Exchanged, Phase, Instructions
<1>3. ASSUME AcquireTxn PROVE ZipInv'
  BY <1>3, LockOptions DEF AcquireTxn, Signalled, Synchronous, Abortable, IInv, TypeOK, ZipInv,
    Exchanged, Phase, Instructions
<1>4. ASSUME InterruptAnswered PROVE ZipInv'
  BY <1>4, LockOptions DEF InterruptAnswered, IInv, TypeOK, ZipInv, Exchanged, Phase,
    Instructions
<1>5. ASSUME BeginSync PROVE ZipInv'
  BY <1>5, LockOptions DEF BeginSync, MdbBegin, IInv, TypeOK, ZipInv, Exchanged, Phase,
    Instructions
<1>6. ASSUME CommitTxn PROVE ZipInv'
  BY <1>6, LockOptions DEF CommitTxn, MdbEnd, UnlockTxn, UnlockSignal, Signalled, NoTxn, IInv,
    TypeOK, ZipInv, Exchanged, Phase, Instructions
<1>7. ASSUME AbortTxn PROVE ZipInv'
  BY <1>7, LockOptions DEF AbortTxn, MdbEnd, UnlockTxn, UnlockSignal, Signalled, NoTxn, IInv,
    TypeOK, ZipInv, Exchanged, Phase, Instructions
<1>8. ASSUME HandleProgress PROVE ZipInv'
  BY <1>8, LockOptions DEF HandleProgress, IInv, TypeOK, ZipInv, Exchanged, Phase, Instructions
<1>9. ASSUME LockForCallbacks PROVE ZipInv'
  BY <1>9, LockOptions DEF LockForCallbacks, AwaitsTxn, IInv, TypeOK, ZipInv, Exchanged, Phase,
    Instructions
<1>10. ASSUME TxnAwaited PROVE ZipInv'
  BY <1>10, LockOptions DEF TxnAwaited, IInv, TypeOK, ZipInv, Exchanged, Phase, Instructions
<1>11. ASSUME CallbacksReturn PROVE ZipInv'
  BY <1>11, LockOptions DEF CallbacksReturn, Signalled, NoTxn, IInv, TypeOK, ZipInv, Exchanged,
    Phase, Instructions
<1>12. ASSUME PromiseResolves PROVE ZipInv'
  BY <1>12, LockOptions DEF PromiseResolves, IInv, TypeOK, ZipInv, Exchanged, Phase,
    Instructions
<1>13. ASSUME DeleteWorker PROVE ZipInv'
  BY <1>13, LockOptions DEF DeleteWorker, IInv, TypeOK, ZipInv, Exchanged, Phase, Instructions
<1>14. ASSUME TakeLock PROVE ZipInv'
  BY <1>14, LockOptions DEF TakeLock, IInv, TypeOK, ZipInv, Exchanged, Phase, Instructions
<1>15. ASSUME BeginTxn PROVE ZipInv'
  BY <1>15, LockOptions DEF BeginTxn, MdbBegin, IInv, TypeOK, ZipInv, Exchanged, Phase,
    Instructions
<1>16. ASSUME ExecutePut PROVE ZipInv'
  BY <1>16, LockOptions DEF ExecutePut, AtInstruction, Advance, IInv, TypeOK, ZipInv, Exchanged,
    Phase, Instructions
<1>17. ASSUME ExecuteBlock PROVE ZipInv'
  BY <1>17, LockOptions DEF ExecuteBlock, AtInstruction, Advance, DepthAfter, IInv, TypeOK,
    ZipInv, Exchanged, Phase, Instructions
<1>18. ASSUME ExecuteCall PROVE ZipInv'
  BY <1>18, LockOptions DEF ExecuteCall, AtInstruction, Advance, IInv, TypeOK, ZipInv,
    Exchanged, Phase, Instructions
<1>19. ASSUME StrictDone PROVE ZipInv'
  BY <1>19, LockOptions DEF StrictDone, IInv, TypeOK, ZipInv, Exchanged, Phase, Instructions
<1>20. ASSUME WaitForCallbacks PROVE ZipInv'
  BY <1>20, LockOptions DEF WaitForCallbacks, Signalled, AllowCommit, IInv, TypeOK, ZipInv,
    Exchanged, Phase, Instructions
<1>21. ASSUME PollAgain PROVE ZipInv'
  BY <1>21, LockOptions DEF PollAgain, IInv, TypeOK, ZipInv, Exchanged, Phase, Instructions
<1>22. ASSUME Resume PROVE ZipInv'
  BY <1>22, LockOptions DEF Resume, WaitIsOver, BackTo, IInv, TypeOK, ZipInv, Exchanged, Phase,
    Instructions
<1>23. ASSUME Interrupted PROVE ZipInv'
  BY <1>23, LockOptions DEF Interrupted, WaitIsOver, BackTo, MdbEnd, InterruptSignal, Signalled,
    IInv, TypeOK, ZipInv, Exchanged, Phase, Instructions
<1>24. ASSUME Restart PROVE ZipInv'
  BY <1>24, LockOptions DEF Restart, RestartSignalled, IInv, TypeOK, ZipInv, Exchanged, Phase,
    Instructions
<1>25. ASSUME Delimit PROVE ZipInv'
  BY <1>25, LockOptions DEF Delimit, IInv, TypeOK, ZipInv, Exchanged, Phase, Instructions
<1>26. ASSUME Commit PROVE ZipInv'
  BY <1>26, LockOptions DEF Commit, MdbEnd, IInv, TypeOK, ZipInv, Exchanged, Phase, Instructions
<1>27. ASSUME ZipCheck PROVE ZipInv'
  BY <1>27, LockOptions DEF ZipCheck, AtInstruction, IInv, TypeOK, ZipInv, Exchanged, Phase,
    Instructions
<1>28. ASSUME ZipExchange PROVE ZipInv'
  BY <1>28, LockOptions DEF ZipExchange, IInv, TypeOK, ZipInv, Exchanged, Phase, Instructions
<1>29. ASSUME ZipSelf PROVE ZipInv'
  BY <1>29, LockOptions DEF ZipSelf, IInv, TypeOK, ZipInv, Exchanged, Phase, Instructions
<1>30. ASSUME ZipWake PROVE ZipInv'
  BY <1>30, LockOptions DEF ZipWake, IInv, TypeOK, ZipInv, Exchanged, Phase, Instructions
<1>31. ASSUME NEW j \in Instructions, Zipper(j) PROVE ZipInv'
  <2> USE DEF IInv, ZipInv, Exchanged
  <2>1. /\ UNCHANGED <<queue, pos, pc>> /\ Instructions \subseteq Nat
        /\ \A i \in Instructions : i # j => /\ zipper'[i] = zipper[i] /\ status'[i] = status[i]
                                            /\ compressed'[i] = compressed[i]
        /\ pc \in {"put", "exchange", "zip", "zipwait"} => pos \in Instructions
    <3>1. UNCHANGED <<queue, pos, pc>> BY <1>31 DEF Zipper
    <3>2. pos \in Nat \ {0} /\ Len(queue) <= MaxInstructions /\ Len(queue) \in Nat
      BY LockOptions DEF TypeOK
    <3>3. \A i \in Instructions : i # j => /\ zipper'[i] = zipper[i] /\ status'[i] = status[i]
                                           /\ compressed'[i] = compressed[i]
      BY <1>31 DEF Zipper, ZipperStart, ZipperWrite, ZipperDone, ZipperSignal, TypeOK
    <3> QED BY <3>1, <3>2, <3>3, LockOptions DEF Instructions
  <2>2. ASSUME NEW i \in Instructions
        PROVE  /\ zipper'[i] \in {"written", "signal"} => compressed'[i]
               /\ i > Len(queue') => zipper'[i] = "none"
               /\ ~Exchanged(i)' => /\ zipper'[i] \in Phase[status'[i]]
                                    /\ zipper'[i] = "done" => compressed'[i]
    <3>1. CASE i = j
      BY <1>31, <2>1, <3>1 DEF Zipper, ZipperStart, ZipperWrite, ZipperDone, ZipperSignal,
        Claims, TypeOK, Phase
    <3>2. CASE i # j BY <2>1, <3>2
    <3> QED BY <3>1, <3>2
  <2>3. pc = "zip" => \/ zipper'[pos] = "done"
                      \/ zipper'[pos] \in {"none", "queued"} /\ status'[pos] = "claimed"
    <3>1. CASE pos = j
      BY <1>31, <2>1, <3>1 DEF Zipper, ZipperStart, ZipperWrite, ZipperDone, ZipperSignal,
        Claims, TypeOK
    <3>2. CASE pos # j BY <2>1, <3>2
    <3> QED BY <3>1, <3>2
  <2>4. pc = "put" => compressed'[pos]
    BY <1>31, <2>1 DEF Zipper, ZipperStart, ZipperWrite, ZipperDone, ZipperSignal, TypeOK
  <2> QED BY <2>1, <2>2, <2>3, <2>4
<1>32. CASE UNCHANGED vars
  BY <1>32 DEF vars, IInv, TypeOK, ZipInv, Exchanged, Phase, Instructions
<1> QED BY <1>1, <1>2, <1>3, <1>4, <1>5, <1>6, <1>7, <1>8, <1>9, <1>10, <1>11, <1>12, <1>13,
  <1>14, <1>15, <1>16, <1>17, <1>18, <1>19, <1>20, <1>21, <1>22, <1>23, <1>24, <1>25, <1>26,
  <1>27, <1>28, <1>29, <1>30, <1>31, <1>32 DEF Next, JsStep, WorkerStep

\* Outside all blocks none is open.
LEMMA NoOpen ==
    ASSUME IInv, conditionDepth = 0
    PROVE  \A i \in 1..Len(queue) : ~OpenSince(queue, pos, i)
<1>1. ~Open(queue, pos) BY DEF IInv, BlockInv
<1>2. pos \in Nat BY DEF IInv, TypeOK
<1> QED BY <1>1, <1>2 DEF Open, OpenSince

\* A new instruction lies behind all that were looked at.
LEMMA PublishBlock == ASSUME IInv, NEW op \in Operations \cup {"END"}, Publish(op) PROVE BlockInv'
<1> DEFINE n == Len(queue)
           S == Operations \cup {"END"}
<1>1. /\ queue \in Seq(S) /\ n \in Nat /\ queue' = Append(queue, op) /\ Len(queue') = n + 1
      /\ \A i \in 1..n : queue'[i] = queue[i] /\ queue'[n + 1] = op
      /\ DOMAIN queue = 1..n
  BY QueueAppend DEF IInv, TypeOK, Publish
<1>2. /\ UNCHANGED <<pos, conditionDepth, txn, txnOf>> /\ pos \in 1..(n + 1)
      /\ n + 1 \in Instructions /\ n + 1 >= pos
  BY <1>1, LockOptions DEF Publish, IInv, TypeOK, Instructions
<1>3. ASSUME NEW m \in 1..(n + 1)
      PROVE  /\ \A i \in Nat \ {0} : OpenSince(queue', m, i) <=> OpenSince(queue, m, i)
             /\ Open(queue', m) <=> Open(queue, m)
  <2>1. \A i \in 1..(m - 1) : queue'[i] = queue[i] BY <1>1
  <2>2. m \in Nat BY <1>1
  <2> QED BY ONLY <2>1, <2>2, OpenSame
<1>4. queue'[n + 1] = op BY <1>1, QueueAppend
<1>5. Open(queue', n + 2) <=> op = "START" \/ (op # "END" /\ Open(queue, n + 1))
  <2>1. Open(queue', (n + 1) + 1) <=> op = "START" \/ (op # "END" /\ Open(queue', n + 1))
    <3>1. n + 1 \in Nat \ {0} BY <1>1
    <3> QED BY ONLY <1>4, <3>1, OpenNext
  <2> QED BY <1>1, <1>3, <2>1
<1>6. InBlock <=> Open(queue, n + 1)
  <2>1. InBlock <=> Cardinality(Marks(queue, "START")) > Cardinality(Marks(queue, "END"))
    BY <1>1 DEF InBlock, Marks
  <2>2. /\ Cardinality(Marks(queue, "START")) \in Nat /\ Cardinality(Marks(queue, "END")) \in Nat
    BY <1>1, MarksAppend
  <2> QED BY <2>1, <2>2 DEF IInv, BlockInv
<1>7. (op = "START" => ~Open(queue, n + 1)) /\ (op = "END" => Open(queue, n + 1))
  BY <1>6 DEF Publish
<1>8. \A i \in 1..(n + 1) : /\ queue'[i] = "START" => ~Open(queue', i)
                            /\ queue'[i] = "END" => Open(queue', i)
  <2> SUFFICES ASSUME NEW i \in 1..(n + 1)
               PROVE  /\ queue'[i] = "START" => ~Open(queue', i)
                      /\ queue'[i] = "END" => Open(queue', i)
    OBVIOUS
  <2>1. CASE i = n + 1 BY <1>3, <1>4, <1>7, <2>1
  <2>2. CASE i \in 1..n BY <1>1, <1>3, <2>2 DEF IInv, BlockInv
  <2> QED BY <1>1, <2>1, <2>2
<1>9. Cardinality(Marks(queue', "START"))
        = Cardinality(Marks(queue', "END")) + (IF Open(queue', n + 2) THEN 1 ELSE 0)
  <2>1. /\ Cardinality(Marks(queue, "START")) \in Nat /\ Cardinality(Marks(queue, "END")) \in Nat
        /\ Cardinality(Marks(queue', "START"))
             = Cardinality(Marks(queue, "START")) + (IF op = "START" THEN 1 ELSE 0)
        /\ Cardinality(Marks(queue', "END"))
             = Cardinality(Marks(queue, "END")) + (IF op = "END" THEN 1 ELSE 0)
    BY <1>1, MarksAppend
  <2> QED BY <1>5, <1>7, <2>1 DEF IInv, BlockInv
<1>10. conditionDepth' = (IF Open(queue', pos') THEN 1 ELSE 0)
  BY <1>2, <1>3 DEF IInv, BlockInv
<1>11. conditionDepth' # 0 => pc' \in InTxn \ {"commit"}
  BY <1>2 DEF IInv, BlockInv, Publish, InTxn
<1>12. \A i \in 1..(n + 1) : OpenSince(queue', pos', i) => txnOf'[i] = txn'
  <2> SUFFICES ASSUME NEW i \in 1..(n + 1), OpenSince(queue', pos', i) PROVE txnOf'[i] = txn'
    OBVIOUS
  <2>1. OpenSince(queue, pos, i) BY <1>1, <1>2, <1>3
  <2>2. i \in 1..n BY <1>1, <1>2, <2>1 DEF OpenSince
  <2> QED BY <1>2, <2>1, <2>2 DEF IInv, BlockInv
<1>13. \A i \in Instructions : i >= pos' => txnOf'[i] = 0 BY <1>2 DEF IInv, BlockInv
<1>14. \A i, j \in 1..(n + 1) :
         OpenSince(queue', j, i) /\ txnOf'[j] # 0 => txnOf'[j] = txnOf'[i]
  <2> SUFFICES ASSUME NEW i \in 1..(n + 1), NEW j \in 1..(n + 1), OpenSince(queue', j, i),
                      txnOf'[j] # 0
               PROVE  txnOf'[j] = txnOf'[i]
    OBVIOUS
  <2>1. j \in 1..n BY <1>1, <1>2 DEF IInv, BlockInv
  <2>2. OpenSince(queue, j, i) BY <1>1, <1>3
  <2>3. i \in 1..n BY <1>1, <2>1, <2>2 DEF OpenSince
  <2> QED BY <1>2, <2>1, <2>2, <2>3 DEF IInv, BlockInv
<1>15. n + 1 + 1 = n + 2 BY <1>1
<1> QED BY <1>1, <1>8, <1>9, <1>10, <1>11, <1>12, <1>13, <1>14, <1>15 DEF BlockInv

\* The instruction at pos runs in the transaction of the block it is in.
LEMMA AdvanceBlock == ASSUME IInv, ExecutePut \/ ExecuteBlock \/ ExecuteCall PROVE BlockInv'
<1> DEFINE n == Len(queue)
<1>1. /\ queue' = queue /\ n \in Nat /\ pos \in 1..n /\ pos' = pos + 1 /\ txn' = txn
      /\ pos \in Instructions /\ n <= MaxInstructions
      /\ txnOf' = [txnOf EXCEPT ![pos] = txn] /\ txnOf \in [Instructions -> Nat]
      /\ pc' \in {"run", "strict"} /\ MaxInstructions \in Nat
  <2>1. Advance /\ pc' \in {"run", "strict"}
    BY DEF ExecutePut, ExecuteBlock, ExecuteCall, AtInstruction
  <2>2. pos <= Len(queue)
    BY DEF ExecutePut, ExecuteBlock, ExecuteCall, AtInstruction, IInv, ZipInv
  <2>3. pos \in 1..n /\ n \in Nat /\ n <= MaxInstructions /\ MaxInstructions \in Nat
    BY <2>2, LockOptions DEF IInv, TypeOK
  <2> QED BY <2>1, <2>3 DEF Advance, IInv, TypeOK, Instructions
<1>2. /\ \A i \in Instructions : i # pos => txnOf'[i] = txnOf[i]
      /\ txnOf'[pos] = txn
  BY <1>1
<1>3. /\ queue[pos] = "START" => conditionDepth' = conditionDepth + 1
      /\ queue[pos] = "END" => conditionDepth' = conditionDepth - 1
      /\ queue[pos] \notin {"START", "END"} => conditionDepth' = conditionDepth
  BY DEF ExecutePut, ExecuteBlock, ExecuteCall, DepthAfter, AtInstruction, IInv, ZipInv
<1>4. /\ \A i \in 1..pos : OpenSince(queue, pos + 1, i) <=>
           (i = pos /\ queue[pos] = "START") \/ (OpenSince(queue, pos, i) /\ queue[pos] # "END")
      /\ Open(queue, pos + 1) <=> queue[pos] = "START" \/ (queue[pos] # "END" /\ Open(queue, pos))
  <2>1. pos \in Nat \ {0} BY <1>1
  <2> QED BY ONLY <2>1, OpenNext
<1>5. /\ queue[pos] = "START" => ~Open(queue, pos)
      /\ queue[pos] = "END" => Open(queue, pos)
      /\ conditionDepth = (IF Open(queue, pos) THEN 1 ELSE 0)
  BY <1>1 DEF IInv, BlockInv
<1>6. conditionDepth' = (IF Open(queue', pos') THEN 1 ELSE 0) BY <1>1, <1>3, <1>4, <1>5
<1>7. conditionDepth' # 0 => pc' \in InTxn \ {"commit"} BY <1>1 DEF InTxn
<1>8. \A i \in 1..n : OpenSince(queue, pos, i) => i < pos /\ txnOf[i] = txn
  BY DEF IInv, BlockInv, OpenSince
<1>9. \A i \in 1..n : OpenSince(queue, pos + 1, i) => txnOf'[i] = txn
  <2> SUFFICES ASSUME NEW i \in 1..n, OpenSince(queue, pos + 1, i) PROVE txnOf'[i] = txn OBVIOUS
  <2>1. i \in 1..pos /\ i \in Instructions BY <1>1 DEF OpenSince, Instructions
  <2> QED BY <1>2, <1>4, <1>8, <2>1
<1>10. \A i \in Instructions : i >= pos' => txnOf'[i] = 0
  BY <1>1, <1>2 DEF IInv, BlockInv, Instructions
<1>11. \A i, j \in 1..n : OpenSince(queue, j, i) /\ txnOf'[j] # 0 => txnOf'[j] = txnOf'[i]
  <2> SUFFICES ASSUME NEW i \in 1..n, NEW j \in 1..n, OpenSince(queue, j, i), txnOf'[j] # 0
               PROVE  txnOf'[j] = txnOf'[i]
    OBVIOUS
  <2>1. i \in Instructions /\ j \in Instructions /\ i < j BY <1>1 DEF Instructions, OpenSince
  <2>2. j <= pos BY <1>1, <1>10, <2>1
  <2>3. CASE j = pos BY <1>2, <1>8, <2>1, <2>3
  <2>4. CASE j < pos BY <1>1, <1>2, <2>1, <2>4 DEF IInv, BlockInv
  <2> QED BY <1>1, <2>1, <2>2, <2>3, <2>4
<1> QED BY <1>1, <1>6, <1>7, <1>9, <1>10, <1>11 DEF IInv, BlockInv

\* Every step keeps the account of blocks.
LEMMA BlockStep == ASSUME IInv, [Next]_vars PROVE BlockInv'
<1> USE DEF Free, workerVars, startVars, jsVars, lmdbVars, zipVars
<1>1. ASSUME NEW op \in Operations \cup {"END"}, Publish(op) PROVE BlockInv'
  BY <1>1, PublishBlock
<1>2. ASSUME NEW k \in SyncKinds, TransactionSync(k) PROVE BlockInv'
  BY <1>2 DEF TransactionSync, IInv, LockInv, OfferInv, BlockInv, InTxn, Locked, TypeOK
<1>3. ASSUME AcquireTxn PROVE BlockInv'
  BY <1>3 DEF AcquireTxn, Signalled, Synchronous, Abortable, IInv, LockInv, OfferInv, BlockInv,
    InTxn, Locked, TypeOK
<1>4. ASSUME InterruptAnswered PROVE BlockInv'
  BY <1>4 DEF InterruptAnswered, IInv, LockInv, OfferInv, BlockInv, InTxn, Locked, TypeOK
<1>5. ASSUME BeginSync PROVE BlockInv'
  BY <1>5 DEF BeginSync, MdbBegin, IInv, LockInv, OfferInv, BlockInv, InTxn, Locked, TypeOK
<1>6. ASSUME CommitTxn PROVE BlockInv'
  BY <1>6 DEF CommitTxn, MdbEnd, UnlockTxn, UnlockSignal, Signalled, NoTxn, IInv, LockInv,
    OfferInv, BlockInv, InTxn, Locked, TypeOK
<1>7. ASSUME AbortTxn PROVE BlockInv'
  BY <1>7 DEF AbortTxn, MdbEnd, UnlockTxn, UnlockSignal, Signalled, NoTxn, IInv, LockInv,
    OfferInv, BlockInv, InTxn, Locked, TypeOK
<1>8. ASSUME HandleProgress PROVE BlockInv'
  BY <1>8 DEF HandleProgress, IInv, LockInv, OfferInv, BlockInv, InTxn, Locked, TypeOK
<1>9. ASSUME LockForCallbacks PROVE BlockInv'
  BY <1>9 DEF LockForCallbacks, AwaitsTxn, IInv, LockInv, OfferInv, BlockInv, InTxn, Locked,
    TypeOK
<1>10. ASSUME TxnAwaited PROVE BlockInv'
  BY <1>10 DEF TxnAwaited, IInv, LockInv, OfferInv, BlockInv, InTxn, Locked, TypeOK
<1>11. ASSUME CallbacksReturn PROVE BlockInv'
  BY <1>11 DEF CallbacksReturn, Signalled, NoTxn, IInv, LockInv, OfferInv, BlockInv, InTxn,
    Locked, TypeOK
<1>12. ASSUME PromiseResolves PROVE BlockInv'
  BY <1>12 DEF PromiseResolves, IInv, LockInv, OfferInv, BlockInv, InTxn, Locked, TypeOK
<1>13. ASSUME DeleteWorker PROVE BlockInv'
  BY <1>13 DEF DeleteWorker, IInv, LockInv, OfferInv, BlockInv, InTxn, Locked, TypeOK
<1>14. ASSUME TakeLock PROVE BlockInv'
  BY <1>14 DEF TakeLock, IInv, LockInv, OfferInv, BlockInv, InTxn, Locked, TypeOK
<1>15. ASSUME BeginTxn PROVE BlockInv'
  <2>1. conditionDepth = 0 BY <1>15 DEF BeginTxn, IInv, OfferInv, BlockInv, InTxn
  <2>2. \A i \in 1..Len(queue) : ~OpenSince(queue, pos, i) BY <2>1, NoOpen
  <2> QED BY <1>15, <2>1, <2>2 DEF BeginTxn, MdbBegin, IInv, BlockInv
<1>16. ASSUME ExecutePut PROVE BlockInv'
  BY <1>16, AdvanceBlock
<1>17. ASSUME ExecuteBlock PROVE BlockInv'
  BY <1>17, AdvanceBlock
<1>18. ASSUME ExecuteCall PROVE BlockInv'
  BY <1>18, AdvanceBlock
<1>19. ASSUME StrictDone PROVE BlockInv'
  BY <1>19 DEF StrictDone, IInv, LockInv, OfferInv, BlockInv, InTxn, Locked, TypeOK
<1>20. ASSUME WaitForCallbacks PROVE BlockInv'
  BY <1>20 DEF WaitForCallbacks, Signalled, AllowCommit, IInv, LockInv, OfferInv, BlockInv,
    InTxn, Locked, TypeOK
<1>21. ASSUME PollAgain PROVE BlockInv'
  BY <1>21 DEF PollAgain, IInv, LockInv, OfferInv, BlockInv, InTxn, Locked, TypeOK
<1>22. ASSUME Resume PROVE BlockInv'
  BY <1>22 DEF Resume, WaitIsOver, BackTo, IInv, LockInv, OfferInv, BlockInv, InTxn, Locked,
    TypeOK
<1>23. ASSUME Interrupted PROVE BlockInv'
  <2>1. conditionDepth = 0 BY <1>23 DEF Interrupted, IInv, OfferInv, BlockInv, InTxn
  <2>2. \A i \in 1..Len(queue) : ~OpenSince(queue, pos, i) BY <2>1, NoOpen
  <2> QED
    BY <1>23, <2>1, <2>2 DEF Interrupted, WaitIsOver, BackTo, MdbEnd, InterruptSignal,
      Signalled, IInv, BlockInv
<1>24. ASSUME Restart PROVE BlockInv'
  BY <1>24 DEF Restart, RestartSignalled, IInv, LockInv, OfferInv, BlockInv, InTxn, Locked,
    TypeOK
<1>25. ASSUME Delimit PROVE BlockInv'
  BY <1>25 DEF Delimit, IInv, LockInv, OfferInv, BlockInv, InTxn, Locked, TypeOK
<1>26. ASSUME Commit PROVE BlockInv'
  <2>1. conditionDepth = 0 BY <1>26 DEF Commit, IInv, OfferInv, BlockInv, InTxn
  <2>2. \A i \in 1..Len(queue) : ~OpenSince(queue, pos, i) BY <2>1, NoOpen
  <2> QED BY <1>26, <2>1, <2>2 DEF Commit, MdbEnd, IInv, BlockInv
<1>27. ASSUME ZipCheck PROVE BlockInv'
  BY <1>27 DEF ZipCheck, AtInstruction, IInv, LockInv, OfferInv, BlockInv, InTxn, Locked, TypeOK
<1>28. ASSUME ZipExchange PROVE BlockInv'
  BY <1>28 DEF ZipExchange, IInv, LockInv, OfferInv, BlockInv, InTxn, Locked, TypeOK
<1>29. ASSUME ZipSelf PROVE BlockInv'
  BY <1>29 DEF ZipSelf, IInv, LockInv, OfferInv, BlockInv, InTxn, Locked, TypeOK
<1>30. ASSUME ZipWake PROVE BlockInv'
  BY <1>30 DEF ZipWake, IInv, LockInv, OfferInv, BlockInv, InTxn, Locked, TypeOK
<1>31. ASSUME NEW j \in Instructions, Zipper(j) PROVE BlockInv'
  BY <1>31 DEF Zipper, ZipperStart, ZipperWrite, ZipperDone, ZipperSignal, Claims, Signalled,
    IInv, LockInv, OfferInv, BlockInv, InTxn, Locked, TypeOK
<1>32. CASE UNCHANGED vars
  BY <1>32 DEF vars, IInv, LockInv, OfferInv, BlockInv, InTxn, Locked, TypeOK
<1> QED BY <1>1, <1>2, <1>3, <1>4, <1>5, <1>6, <1>7, <1>8, <1>9, <1>10, <1>11, <1>12, <1>13,
  <1>14, <1>15, <1>16, <1>17, <1>18, <1>19, <1>20, <1>21, <1>22, <1>23, <1>24, <1>25, <1>26,
  <1>27, <1>28, <1>29, <1>30, <1>31, <1>32 DEF Next, JsStep, WorkerStep

\* Without compression every step keeps the account of interruptions.
LEMMA SignalStep == ASSUME "ZIP" \notin Operations, IInv, SignalInv, [Next]_vars PROVE SignalInv'
<1> USE DEF Free, workerVars, startVars, jsVars, lmdbVars, zipVars
<1>1. ASSUME NEW op \in Operations \cup {"END"}, Publish(op) PROVE SignalInv'
  <2>1. /\ Len(queue') = Len(queue) + 1 /\ Len(queue) \in Nat
        /\ \A i \in 1..Len(queue) : queue'[i] = queue[i] /\ queue'[Len(queue) + 1] = op
    BY <1>1, QueueAppend DEF Publish, IInv, TypeOK
  <2>2. op # "ZIP" /\ zipper' = zipper /\ jsPc' = "idle" BY <1>1 DEF Publish
  <2>3. queue'[Len(queue) + 1] = op BY <1>1, QueueAppend DEF Publish, IInv, TypeOK
  <2>4. \A i \in 1..Len(queue') : queue'[i] # "ZIP" BY <2>1, <2>2, <2>3 DEF SignalInv
  <2> QED BY <2>2, <2>4 DEF SignalInv
<1>2. ASSUME NEW k \in SyncKinds, TransactionSync(k) PROVE SignalInv'
  BY <1>2, LockOptions DEF TransactionSync, IInv, TypeOK, LockInv, InTxn, Locked, OfferInv,
    SignalInv, Instructions
<1>3. ASSUME AcquireTxn PROVE SignalInv'
  BY <1>3, LockOptions DEF AcquireTxn, Signalled, Synchronous, Abortable, IInv, TypeOK, LockInv,
    InTxn, Locked, OfferInv, SignalInv, Instructions
<1>4. ASSUME InterruptAnswered PROVE SignalInv'
  BY <1>4, LockOptions DEF InterruptAnswered, IInv, TypeOK, LockInv, InTxn, Locked, OfferInv,
    SignalInv, Instructions
<1>5. ASSUME BeginSync PROVE SignalInv'
  BY <1>5, LockOptions DEF BeginSync, MdbBegin, IInv, TypeOK, LockInv, InTxn, Locked, OfferInv,
    SignalInv, Instructions
<1>6. ASSUME CommitTxn PROVE SignalInv'
  BY <1>6, LockOptions DEF CommitTxn, MdbEnd, UnlockTxn, UnlockSignal, Signalled, NoTxn, IInv,
    TypeOK, LockInv, InTxn, Locked, OfferInv, SignalInv, Instructions
<1>7. ASSUME AbortTxn PROVE SignalInv'
  BY <1>7, LockOptions DEF AbortTxn, MdbEnd, UnlockTxn, UnlockSignal, Signalled, NoTxn, IInv,
    TypeOK, LockInv, InTxn, Locked, OfferInv, SignalInv, Instructions
<1>8. ASSUME HandleProgress PROVE SignalInv'
  BY <1>8, LockOptions DEF HandleProgress, IInv, TypeOK, LockInv, InTxn, Locked, OfferInv,
    SignalInv, Instructions
<1>9. ASSUME LockForCallbacks PROVE SignalInv'
  BY <1>9, LockOptions DEF LockForCallbacks, AwaitsTxn, IInv, TypeOK, LockInv, InTxn, Locked,
    OfferInv, SignalInv, Instructions
<1>10. ASSUME TxnAwaited PROVE SignalInv'
  BY <1>10, LockOptions DEF TxnAwaited, IInv, TypeOK, LockInv, InTxn, Locked, OfferInv,
    SignalInv, Instructions
<1>11. ASSUME CallbacksReturn PROVE SignalInv'
  BY <1>11, LockOptions DEF CallbacksReturn, Signalled, NoTxn, IInv, TypeOK, LockInv, InTxn,
    Locked, OfferInv, SignalInv, Instructions
<1>12. ASSUME PromiseResolves PROVE SignalInv'
  BY <1>12, LockOptions DEF PromiseResolves, IInv, TypeOK, LockInv, InTxn, Locked, OfferInv,
    SignalInv, Instructions
<1>13. ASSUME DeleteWorker PROVE SignalInv'
  BY <1>13, LockOptions DEF DeleteWorker, IInv, TypeOK, LockInv, InTxn, Locked, OfferInv,
    SignalInv, Instructions
<1>14. ASSUME TakeLock PROVE SignalInv'
  BY <1>14, LockOptions DEF TakeLock, IInv, TypeOK, LockInv, InTxn, Locked, OfferInv, SignalInv,
    Instructions
<1>15. ASSUME BeginTxn PROVE SignalInv'
  BY <1>15, LockOptions DEF BeginTxn, MdbBegin, IInv, TypeOK, LockInv, InTxn, Locked, OfferInv,
    SignalInv, Instructions
<1>16. ASSUME ExecutePut PROVE SignalInv'
  BY <1>16, LockOptions DEF ExecutePut, AtInstruction, Advance, IInv, TypeOK, LockInv, InTxn,
    Locked, OfferInv, SignalInv, Instructions
<1>17. ASSUME ExecuteBlock PROVE SignalInv'
  BY <1>17, LockOptions DEF ExecuteBlock, AtInstruction, Advance, DepthAfter, IInv, TypeOK,
    LockInv, InTxn, Locked, OfferInv, SignalInv, Instructions
<1>18. ASSUME ExecuteCall PROVE SignalInv'
  BY <1>18, LockOptions DEF ExecuteCall, AtInstruction, Advance, IInv, TypeOK, LockInv, InTxn,
    Locked, OfferInv, SignalInv, Instructions
<1>19. ASSUME StrictDone PROVE SignalInv'
  BY <1>19, LockOptions DEF StrictDone, IInv, TypeOK, LockInv, InTxn, Locked, OfferInv,
    SignalInv, Instructions
<1>20. ASSUME WaitForCallbacks PROVE SignalInv'
  BY <1>20, LockOptions DEF WaitForCallbacks, Signalled, AllowCommit, IInv, TypeOK, LockInv,
    InTxn, Locked, OfferInv, SignalInv, Instructions
<1>21. ASSUME PollAgain PROVE SignalInv'
  BY <1>21, LockOptions DEF PollAgain, IInv, TypeOK, LockInv, InTxn, Locked, OfferInv,
    SignalInv, Instructions
<1>22. ASSUME Resume PROVE SignalInv'
  BY <1>22, LockOptions DEF Resume, WaitIsOver, BackTo, IInv, TypeOK, LockInv, InTxn, Locked,
    OfferInv, SignalInv, Instructions
<1>23. ASSUME Interrupted PROVE SignalInv'
  BY <1>23, LockOptions DEF Interrupted, WaitIsOver, BackTo, MdbEnd, InterruptSignal, Signalled,
    IInv, TypeOK, LockInv, InTxn, Locked, OfferInv, SignalInv, Instructions
<1>24. ASSUME Restart PROVE SignalInv'
  BY <1>24, LockOptions DEF Restart, RestartSignalled, IInv, TypeOK, LockInv, InTxn, Locked,
    OfferInv, SignalInv, Instructions
<1>25. ASSUME Delimit PROVE SignalInv'
  BY <1>25, LockOptions DEF Delimit, IInv, TypeOK, LockInv, InTxn, Locked, OfferInv, SignalInv,
    Instructions
<1>26. ASSUME Commit PROVE SignalInv'
  BY <1>26, LockOptions DEF Commit, MdbEnd, IInv, TypeOK, LockInv, InTxn, Locked, OfferInv,
    SignalInv, Instructions
<1>27. ASSUME ZipCheck PROVE SignalInv'
  BY <1>27, LockOptions DEF ZipCheck, AtInstruction, IInv, TypeOK, LockInv, InTxn, Locked,
    OfferInv, SignalInv, Instructions
<1>28. ASSUME ZipExchange PROVE SignalInv'
  BY <1>28, LockOptions DEF ZipExchange, IInv, TypeOK, LockInv, InTxn, Locked, OfferInv,
    SignalInv, Instructions
<1>29. ASSUME ZipSelf PROVE SignalInv'
  BY <1>29, LockOptions DEF ZipSelf, IInv, TypeOK, LockInv, InTxn, Locked, OfferInv, SignalInv,
    Instructions
<1>30. ASSUME ZipWake PROVE SignalInv'
  BY <1>30, LockOptions DEF ZipWake, IInv, TypeOK, LockInv, InTxn, Locked, OfferInv, SignalInv,
    Instructions
<1>31. ASSUME NEW j \in Instructions, Zipper(j) PROVE SignalInv'
  BY <1>31, LockOptions DEF Zipper, ZipperStart, ZipperWrite, ZipperDone, ZipperSignal, Claims,
    Signalled, IInv, TypeOK, LockInv, InTxn, Locked, OfferInv, SignalInv, Instructions
<1>32. CASE UNCHANGED vars
  BY <1>32 DEF vars, IInv, TypeOK, LockInv, InTxn, Locked, OfferInv, SignalInv, Instructions
<1> QED BY <1>1, <1>2, <1>3, <1>4, <1>5, <1>6, <1>7, <1>8, <1>9, <1>10, <1>11, <1>12, <1>13,
  <1>14, <1>15, <1>16, <1>17, <1>18, <1>19, <1>20, <1>21, <1>22, <1>23, <1>24, <1>25, <1>26,
  <1>27, <1>28, <1>29, <1>30, <1>31, <1>32 DEF Next, JsStep, WorkerStep

\* Outside blocks every step keeps what a synchronous transaction relies on.
LEMMA CommitStep ==
    ASSUME Operations \subseteq {"PUT", "CALL", "STRICT"}, SyncKinds \subseteq {"put", "txn"},
           IInv, SignalInv, CommitInv, [Next]_vars
    PROVE  CommitInv'
<1> USE DEF Free, workerVars, startVars, jsVars, lmdbVars, zipVars
<1>1. ASSUME NEW op \in Operations \cup {"END"}, Publish(op) PROVE CommitInv'
  <2>1. /\ Len(queue') = Len(queue) + 1 /\ Len(queue) \in Nat
        /\ \A i \in 1..Len(queue) : queue'[i] = queue[i]
        /\ queue'[Len(queue) + 1] = op
    BY <1>1, QueueAppend DEF Publish, IInv, TypeOK
  <2>2. op # "START" BY <1>1
  <2>3. \A i \in 1..Len(queue') : queue'[i] # "START" BY <2>1, <2>2 DEF CommitInv
  <2>4. /\ UNCHANGED <<interruptionStatus, jsPc, kind, writeTxn, syncTxn, committed>>
        /\ pc' = pc \/ pc' = "queued"
    BY <1>1 DEF Publish, jsVars, lmdbVars
  <2> QED BY <2>3, <2>4 DEF CommitInv
<1>2. ASSUME NEW k \in SyncKinds, TransactionSync(k) PROVE CommitInv'
  BY <1>2, LockOptions DEF TransactionSync, IInv, TypeOK, LockInv, InTxn, Locked, OfferInv,
    SignalInv, CommitInv, Instructions
<1>3. ASSUME AcquireTxn PROVE CommitInv'
  <2>1. hasWorker /\ interruptionStatus = "ALLOW_COMMIT" <=> pc \in {"wait", "strictwait"}
    BY <1>3 DEF AcquireTxn, IInv, LockInv, OfferInv, CommitInv
  <2>2. mutex = Free /\ Synchronous(kind) BY <1>3 DEF AcquireTxn, CommitInv, Synchronous
  <2>3. pc # "zipwait" BY DEF IInv, ZipInv, TypeOK, SignalInv
  <2>4. txn # 0 => pc \in {"wait", "strictwait"}
    BY <2>2, <2>3 DEF IInv, LockInv, InTxn, Locked
  <2>5. CASE pc \in {"wait", "strictwait"}
    BY <1>3, <2>1, <2>2, <2>5 DEF AcquireTxn, CommitInv
  <2>6. CASE pc \notin {"wait", "strictwait"}
    BY <1>3, <2>1, <2>4, <2>6 DEF AcquireTxn, CommitInv
  <2> QED BY <2>5, <2>6
<1>4. ASSUME InterruptAnswered PROVE CommitInv'
  BY <1>4, LockOptions DEF InterruptAnswered, IInv, TypeOK, LockInv, InTxn, Locked, OfferInv,
    SignalInv, CommitInv, Instructions
<1>5. ASSUME BeginSync PROVE CommitInv'
  BY <1>5, LockOptions DEF BeginSync, MdbBegin, IInv, TypeOK, LockInv, InTxn, Locked, OfferInv,
    SignalInv, CommitInv, Instructions
<1>6. ASSUME CommitTxn PROVE CommitInv'
  BY <1>6, LockOptions DEF CommitTxn, MdbEnd, UnlockTxn, UnlockSignal, Signalled, NoTxn, IInv,
    TypeOK, LockInv, InTxn, Locked, OfferInv, SignalInv, CommitInv, Instructions
<1>7. ASSUME AbortTxn PROVE CommitInv'
  BY <1>7, LockOptions DEF AbortTxn, MdbEnd, UnlockTxn, UnlockSignal, Signalled, NoTxn, IInv,
    TypeOK, LockInv, InTxn, Locked, OfferInv, SignalInv, CommitInv, Instructions
<1>8. ASSUME HandleProgress PROVE CommitInv'
  BY <1>8, LockOptions DEF HandleProgress, IInv, TypeOK, LockInv, InTxn, Locked, OfferInv,
    SignalInv, CommitInv, Instructions
<1>9. ASSUME LockForCallbacks PROVE CommitInv'
  BY <1>9, LockOptions DEF LockForCallbacks, AwaitsTxn, IInv, TypeOK, LockInv, InTxn, Locked,
    OfferInv, SignalInv, CommitInv, Instructions
<1>10. ASSUME TxnAwaited PROVE CommitInv'
  BY <1>10, LockOptions DEF TxnAwaited, IInv, TypeOK, LockInv, InTxn, Locked, OfferInv,
    SignalInv, CommitInv, Instructions
<1>11. ASSUME CallbacksReturn PROVE CommitInv'
  BY <1>11, LockOptions DEF CallbacksReturn, Signalled, NoTxn, IInv, TypeOK, LockInv, InTxn,
    Locked, OfferInv, SignalInv, CommitInv, Instructions
<1>12. ASSUME PromiseResolves PROVE CommitInv'
  BY <1>12, LockOptions DEF PromiseResolves, IInv, TypeOK, LockInv, InTxn, Locked, OfferInv,
    SignalInv, CommitInv, Instructions
<1>13. ASSUME DeleteWorker PROVE CommitInv'
  BY <1>13, LockOptions DEF DeleteWorker, IInv, TypeOK, LockInv, InTxn, Locked, OfferInv,
    SignalInv, CommitInv, Instructions
<1>14. ASSUME TakeLock PROVE CommitInv'
  BY <1>14, LockOptions DEF TakeLock, IInv, TypeOK, LockInv, InTxn, Locked, OfferInv, SignalInv,
    CommitInv, Instructions
<1>15. ASSUME BeginTxn PROVE CommitInv'
  BY <1>15, LockOptions DEF BeginTxn, MdbBegin, IInv, TypeOK, LockInv, InTxn, Locked, OfferInv,
    SignalInv, CommitInv, Instructions
<1>16. ASSUME ExecutePut PROVE CommitInv'
  BY <1>16, LockOptions DEF ExecutePut, AtInstruction, Advance, IInv, TypeOK, LockInv, InTxn,
    Locked, OfferInv, SignalInv, CommitInv, Instructions
<1>17. ASSUME ExecuteBlock PROVE CommitInv'
  BY <1>17, LockOptions DEF ExecuteBlock, AtInstruction, Advance, DepthAfter, IInv, TypeOK,
    LockInv, InTxn, Locked, OfferInv, SignalInv, CommitInv, Instructions
<1>18. ASSUME ExecuteCall PROVE CommitInv'
  BY <1>18, LockOptions DEF ExecuteCall, AtInstruction, Advance, IInv, TypeOK, LockInv, InTxn,
    Locked, OfferInv, SignalInv, CommitInv, Instructions
<1>19. ASSUME StrictDone PROVE CommitInv'
  BY <1>19, LockOptions DEF StrictDone, IInv, TypeOK, LockInv, InTxn, Locked, OfferInv,
    SignalInv, CommitInv, Instructions
<1>20. ASSUME WaitForCallbacks PROVE CommitInv'
  <2>1. ~Open(queue, pos) BY DEF Open, OpenSince, CommitInv, IInv, TypeOK
  <2>2. conditionDepth = 0 BY <2>1 DEF IInv, BlockInv
  <2> QED BY <1>20, <2>2 DEF WaitForCallbacks, AllowCommit, CommitInv, IInv, LockInv, Locked
<1>21. ASSUME PollAgain PROVE CommitInv'
  BY <1>21, LockOptions DEF PollAgain, IInv, TypeOK, LockInv, InTxn, Locked, OfferInv,
    SignalInv, CommitInv, Instructions
<1>22. ASSUME Resume PROVE CommitInv'
  BY <1>22, LockOptions DEF Resume, WaitIsOver, BackTo, IInv, TypeOK, LockInv, InTxn, Locked,
    OfferInv, SignalInv, CommitInv, Instructions
<1>23. ASSUME Interrupted PROVE CommitInv'
  BY <1>23, LockOptions DEF Interrupted, WaitIsOver, BackTo, MdbEnd, InterruptSignal, Signalled,
    IInv, TypeOK, LockInv, InTxn, Locked, OfferInv, SignalInv, CommitInv, Instructions
<1>24. ASSUME Restart PROVE CommitInv'
  BY <1>24, LockOptions DEF Restart, RestartSignalled, IInv, TypeOK, LockInv, InTxn, Locked,
    OfferInv, SignalInv, CommitInv, Instructions
<1>25. ASSUME Delimit PROVE CommitInv'
  BY <1>25, LockOptions DEF Delimit, IInv, TypeOK, LockInv, InTxn, Locked, OfferInv, SignalInv,
    CommitInv, Instructions
<1>26. ASSUME Commit PROVE CommitInv'
  BY <1>26, LockOptions DEF Commit, MdbEnd, IInv, TypeOK, LockInv, InTxn, Locked, OfferInv,
    SignalInv, CommitInv, Instructions
<1>27. ASSUME ZipCheck PROVE CommitInv'
  BY <1>27, LockOptions DEF ZipCheck, AtInstruction, IInv, TypeOK, LockInv, InTxn, Locked,
    OfferInv, SignalInv, CommitInv, Instructions
<1>28. ASSUME ZipExchange PROVE CommitInv'
  BY <1>28, LockOptions DEF ZipExchange, IInv, TypeOK, LockInv, InTxn, Locked, OfferInv,
    SignalInv, CommitInv, Instructions
<1>29. ASSUME ZipSelf PROVE CommitInv'
  BY <1>29, LockOptions DEF ZipSelf, IInv, TypeOK, LockInv, InTxn, Locked, OfferInv, SignalInv,
    CommitInv, Instructions
<1>30. ASSUME ZipWake PROVE CommitInv'
  BY <1>30, LockOptions DEF ZipWake, IInv, TypeOK, LockInv, InTxn, Locked, OfferInv, SignalInv,
    CommitInv, Instructions
<1>31. ASSUME NEW j \in Instructions, Zipper(j) PROVE CommitInv'
  BY <1>31, LockOptions DEF Zipper, ZipperStart, ZipperWrite, ZipperDone, ZipperSignal, Claims,
    Signalled, IInv, TypeOK, LockInv, InTxn, Locked, OfferInv, SignalInv, CommitInv,
    Instructions
<1>32. CASE UNCHANGED vars
  BY <1>32 DEF vars, IInv, TypeOK, LockInv, InTxn, Locked, OfferInv, SignalInv, CommitInv,
    Instructions
<1> QED BY <1>1, <1>2, <1>3, <1>4, <1>5, <1>6, <1>7, <1>8, <1>9, <1>10, <1>11, <1>12, <1>13,
  <1>14, <1>15, <1>16, <1>17, <1>18, <1>19, <1>20, <1>21, <1>22, <1>23, <1>24, <1>25, <1>26,
  <1>27, <1>28, <1>29, <1>30, <1>31, <1>32 DEF Next, JsStep, WorkerStep

-----------------------------------------------------------------------------
(* Results. *)

LEMMA InitIInv == Init => IInv
<1> SUFFICES ASSUME Init PROVE IInv OBVIOUS
<1> USE LockOptions DEF Init, Instructions, Free, NoTxn
<1>1. TypeOK
  <2>1. ControlOK /\ WaitingOK BY DEF ControlOK, WaitingOK, Statuses
  <2>2. FlagsOK BY DEF FlagsOK
  <2>3. TxnsOK BY DEF TxnsOK
  <2>4. WriteTxnOK BY DEF WriteTxnOK
  <2>5. SlotsOK BY DEF SlotsOK
  <2> QED BY <2>1, <2>2, <2>3, <2>4, <2>5
    DEF TypeOK, ControlOK, FlagsOK, TxnsOK, WriteTxnOK, WaitingOK, SlotsOK
<1>2. LockInv BY DEF LockInv, InTxn, Locked
<1>3. OfferInv BY DEF OfferInv
<1>4. BlockInv
  <2>1. Len(queue) = 0 /\ \A i : i \notin 1..Len(queue) OBVIOUS
  <2>2. ~Open(queue, 1) BY DEF Open
  <2>3. Marks(queue, "START") = Marks(queue, "END") BY <2>1 DEF Marks
  <2>4. Cardinality(Marks(queue, "END")) = 0 BY <2>1, FS_EmptySet DEF Marks
  <2> QED BY <2>1, <2>2, <2>3, <2>4 DEF BlockInv
<1>5. ZipInv BY DEF ZipInv, Exchanged, Phase
<1> QED BY <1>1, <1>2, <1>3, <1>4, <1>5 DEF IInv

LEMMA StepIInv == IInv /\ [Next]_vars => IInv'
<1> SUFFICES ASSUME IInv, [Next]_vars PROVE IInv' OBVIOUS
<1>1. TypeOK' BY TypeStep
<1>2. LockInv' BY LockStep DEF IInv
<1>3. OfferInv' BY OfferStep DEF IInv
<1>4. BlockInv' BY BlockStep
<1>5. ZipInv' BY ZipStep
<1> QED BY <1>1, <1>2, <1>3, <1>4, <1>5 DEF IInv

LEMMA AlwaysIInv == Spec => []IInv
BY InitIInv, StepIInv, PTL DEF Spec

\* Every reachable state is typed; in particular conditionDepth stays 0 or 1, and
\* only transactions that were begun are committed.
THEOREM LockTyped == Spec => []TypeOK
<1>1. IInv => TypeOK BY DEF IInv
<1> QED BY <1>1, AlwaysIInv, PTL

\* Whoever is about to use LMDB's write transaction holds writingLock and passes
\* the transaction that is open, for every mix of instructions, synchronous
\* transactions and callbacks, compression and stray signals included.
THEOREM TxnUnderLockCorrect == Spec => []TxnUnderLock
<1>1. IInv => TxnUnderLock
  <2> SUFFICES ASSUME IInv PROVE TxnUnderLock OBVIOUS
  <2>1. ASSUME pc \in {"run", "put", "strict", "exchange", "zip", "commit"}
        PROVE  mutex = "worker" /\ owner = "worker" /\ txn = current /\ current # 0
    BY <2>1 DEF IInv, LockInv, Locked, InTxn, Free
  <2>2. ASSUME jsPc \in {"sync", "callback"}
        PROVE  mutex = "js" /\ writeTxn.txn = current /\ current # 0
    BY <2>2 DEF IInv, LockInv
  <2> QED BY <2>1, <2>2 DEF TxnUnderLock
<1> QED BY <1>1, AlwaysIInv, PTL

\* A block of ifVersion or ifNoExists runs in one transaction, in queues of any
\* length: DoWrites never offers or commits its transaction inside a block.
THEOREM BlockUnsplitCorrect == Spec => []BlockUnsplit
<1>1. IInv => BlockUnsplit
  <2> SUFFICES ASSUME IInv, NEW i \in DOMAIN queue, NEW j \in DOMAIN queue,
                      i < j, queue[i] = "START", txnOf[j] # 0,
                      \A k \in (i + 1)..(j - 1) : queue[k] # "END"
               PROVE  txnOf[j] = txnOf[i]
    BY DEF BlockUnsplit
  <2>1. i \in 1..Len(queue) /\ j \in 1..Len(queue) BY DEF IInv, TypeOK
  <2>2. OpenSince(queue, j, i) BY DEF OpenSince
  <2> QED BY <2>1, <2>2 DEF IInv, BlockInv
<1> QED BY <1>1, AlwaysIInv, PTL

\* The write thread and the pool thread never compress one value at the same time,
\* and a value is stored only in its compressed form, however their exchanges of the
\* compression word interleave.
THEOREM CompressedOnceCorrect == Spec => []CompressedOnce
<1>1. IInv => CompressedOnce BY DEF IInv, ZipInv, CompressedOnce
<1> QED BY <1>1, AlwaysIInv, PTL

LEMMA AlwaysSignalInv == ASSUME "ZIP" \notin Operations PROVE Spec => [](IInv /\ SignalInv)
<1>1. Init => SignalInv BY DEF Init, SignalInv
<1>2. IInv /\ SignalInv /\ [Next]_vars => SignalInv' BY SignalStep
<1> QED BY <1>1, <1>2, InitIInv, StepIInv, PTL DEF Spec

\* No thread blocks in mdb_txn_begin with writingLock held while the other has the
\* write transaction open, provided no value is handed to the compression pool: its
\* signal of writingCond is the only one that can end the wait of AcquireTxn before
\* the write thread has committed.
THEOREM NoLockCycleCorrect == ASSUME "ZIP" \notin Operations PROVE Spec => []NoLockCycle
<1>1. IInv /\ SignalInv => NoLockCycle
  BY DEF IInv, LockInv, SignalInv, NoLockCycle, Locked, InTxn, Free
<1> QED BY <1>1, AlwaysSignalInv, PTL

\* What a synchronous transaction wrote is committed when it returns, provided that
\* the program uses no conditional blocks, no compression and no transactions that
\* ask for no synchronous commit (flags 0): outside blocks the write thread can
\* always be made to give way.
THEOREM SyncCommittedCorrect ==
    ASSUME Operations \subseteq {"PUT", "CALL", "STRICT"}, SyncKinds \subseteq {"put", "txn"}
    PROVE  Spec => []SyncCommitted
<1>1. Init => CommitInv BY DEF Init, CommitInv
<1>2. IInv /\ SignalInv /\ CommitInv /\ [Next]_vars => CommitInv' BY CommitStep
<1>3. Spec => [](IInv /\ SignalInv) BY AlwaysSignalInv
<1>4. CommitInv => SyncCommitted BY DEF CommitInv, SyncCommitted
<1> QED BY <1>1, <1>2, <1>3, <1>4, PTL DEF Spec

=============================================================================
