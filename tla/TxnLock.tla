------------------------------ MODULE TxnLock -------------------------------
(***************************************************************************)
(* writingLock and writingCond of an environment: how synchronous           *)
(* transactions and transaction callbacks of the JavaScript thread share    *)
(* LMDB's single write transaction with the write thread (AcquireTxn,       *)
(* UnlockTxn, WaitForCallbacks and Write of src/writer.cpp; beginTxn,       *)
(* commitTxn and abortTxn of src/env.cpp; transactionSync and               *)
(* executeTxnCallbacks of write.js), and the hand-over of a value that a    *)
(* pool thread compresses (src/compression.cpp), which signals the same     *)
(* condition.                                                               *)
(*                                                                          *)
(* Publishing is reduced to appending to a queue; WriteQueue models it.     *)
(* One action is what a thread does between two points where it releases    *)
(* writingLock, blocks, or touches the compression word.                    *)
(***************************************************************************)
EXTENDS Integers, Sequences, FiniteSets

CONSTANTS
    Operations,         \* instructions the program queues: "ZIP" is a put whose value
                        \* is to be compressed, "STRICT" a callback in strict order
    SyncKinds,          \* synchronous transactions it runs: "put" is flags 2,
                        \* "txn" is flags 3 and "start" is flags 0
    AsyncCallbacks,     \* whether a transaction callback may return a promise
    AsyncSyncs,         \* whether a transactionSync callback may
    WriteMap,           \* option useWritemap: no child transactions
    CanAbort,           \* whether a transactionSync callback may return ABORT
    MaxInstructions,    \* bound: instructions ever queued
    MaxSyncs            \* bound: synchronous transactions ever run

ASSUME LockOptions ==
    /\ Operations \subseteq {"PUT", "ZIP", "CALL", "STRICT", "START"}
    /\ SyncKinds \subseteq {"put", "txn", "start"}
    /\ {AsyncCallbacks, AsyncSyncs, WriteMap, CanAbort} \subseteq BOOLEAN
    /\ MaxInstructions \in Nat /\ MaxSyncs \in Nat

VARIABLES
    queue, pos,             \* published instructions; the next one to execute
    pc, back,               \* the write thread; where it goes on after a restart
    conditionDepth,         \* of DoWrites
    finishedProgress, interruptionStatus, txn,   \* fields of WriteWorker
    hasWorker, pending,     \* env->writeWorker is set; the next worker is queued
    progress,               \* an update sent to JavaScript is not handled yet
    jsPc, kind, syncs,      \* the JavaScript thread, its synchronous transaction
    writeTxn,               \* env->writeTxn: transaction, owned, abortable
    awaiting,               \* a transaction callback that returned a promise
    mutex, waiting,         \* writingLock; the threads blocked on writingCond
    owner, current, last, committed,   \* LMDB: the open write transaction
    status, compressed, zipper,   \* compression word, value and thread of each slot
    txnOf, syncTxn          \* history: transaction of each instruction and of the
                            \* last synchronous transaction that returned

workerVars == <<pc, back, conditionDepth, finishedProgress, txn>>
jsVars == <<jsPc, kind, syncs, writeTxn, awaiting>>
lmdbVars == <<owner, current, last, committed>>
zipVars == <<status, compressed, zipper>>
startVars == <<hasWorker, pending>>
vars == <<queue, pos, workerVars, interruptionStatus, startVars, progress, jsVars, mutex,
          waiting, lmdbVars, zipVars, txnOf, syncTxn>>

-----------------------------------------------------------------------------

Instructions == 1..MaxInstructions
Free == "free"
Statuses == {"none", "ALLOW_COMMIT", "INTERRUPT_BATCH", "RESTART_WORKER_TXN", "USER_HAS_LOCK"}
NoTxn == [txn |-> 0, own |-> FALSE, abortable |-> FALSE]

\* pthread_cond_signal wakes one of the waiting threads: the possible remainders.
Signalled(threads) == IF threads = {} THEN {{}} ELSE {threads \ {t} : t \in threads}

InBlock == Cardinality({i \in DOMAIN queue : queue[i] = "START"})
             > Cardinality({i \in DOMAIN queue : queue[i] = "END"})

Init ==
    /\ queue = <<>> /\ pos = 1
    /\ pc = "none" /\ back = "run" /\ conditionDepth = 0
    /\ finishedProgress = TRUE /\ interruptionStatus = "none" /\ txn = 0
    /\ hasWorker = FALSE /\ pending = FALSE /\ progress = FALSE
    /\ jsPc = "idle" /\ kind = "txn" /\ syncs = 0 /\ writeTxn = NoTxn /\ awaiting = 0
    /\ mutex = Free /\ waiting = {}
    /\ owner = Free /\ current = 0 /\ last = 0 /\ committed = {}
    /\ status = [i \in Instructions |-> "pointer"] /\ compressed = [i \in Instructions |-> FALSE]
    /\ zipper = [i \in Instructions |-> "none"]
    /\ txnOf = [i \in Instructions |-> 0] /\ syncTxn = 0

\* mdb_txn_begin blocks while another thread has the write transaction.
MdbBegin(thread) ==
    /\ owner = Free
    /\ owner' = thread /\ current' = last + 1 /\ last' = last + 1
    /\ UNCHANGED committed
MdbEnd(ok) ==
    /\ owner' = Free /\ current' = 0
    /\ committed' = IF ok THEN committed \cup {current} ELSE committed
    /\ UNCHANGED last

-----------------------------------------------------------------------------
(* JavaScript queues an instruction; one that the write thread polls for     *)
(* signals it (env.write(0)), one after a delimiter starts a worker.         *)

Publish(op) ==
    /\ jsPc = "idle" /\ awaiting = 0
    /\ op \in Operations \cup {"END"}
    /\ op = "END" => InBlock
    /\ op = "START" => ~InBlock
    /\ Len(queue) + (IF op = "END" THEN 1 ELSE IF InBlock \/ op = "START" THEN 2 ELSE 1)
         <= MaxInstructions
    /\ queue' = Append(queue, op)
    /\ zipper' = IF op = "ZIP" THEN [zipper EXCEPT ![Len(queue) + 1] = "queued"] ELSE zipper
    /\ IF pc = "wait" /\ pos = Len(queue) + 1 THEN waiting' \in Signalled(waiting)
                                              ELSE UNCHANGED waiting
    /\ pc' = IF pc \in {"none", "finished"} THEN "queued" ELSE pc
    /\ pending' = (pending \/ pc = "commit")
    /\ hasWorker' = TRUE
    /\ UNCHANGED <<pos, back, conditionDepth, finishedProgress, txn, interruptionStatus, progress,
                   jsVars, mutex, lmdbVars, status, compressed, txnOf, syncTxn>>

-----------------------------------------------------------------------------
(* The write thread. *)

\* Write() takes the lock, then begins the transaction.
TakeLock ==
    /\ pc = "queued" /\ mutex = Free
    /\ mutex' = "worker" /\ pc' = "begin" /\ back' = "run" /\ finishedProgress' = TRUE
    /\ UNCHANGED <<queue, pos, conditionDepth, txn, interruptionStatus, startVars, progress, jsVars,
                   waiting, lmdbVars, zipVars, txnOf, syncTxn>>

BeginTxn ==
    /\ pc = "begin"
    /\ MdbBegin("worker")
    /\ txn' = last + 1
    /\ pc' = back
    /\ interruptionStatus' = "none"
    /\ UNCHANGED <<queue, pos, back, conditionDepth, finishedProgress, startVars, progress, jsVars,
                   mutex, waiting, zipVars, txnOf, syncTxn>>

AtInstruction(op) == pc = "run" /\ pos <= Len(queue) /\ queue[pos] = op

\* The instruction at pos is done.
Advance ==
    /\ txnOf' = [txnOf EXCEPT ![pos] = txn]
    /\ pos' = pos + 1
    /\ UNCHANGED <<queue, back, txn, interruptionStatus, startVars, progress, jsVars, mutex,
                   waiting, lmdbVars, zipVars, syncTxn>>

ExecutePut ==
    /\ AtInstruction("PUT") \/ pc = "put"
    /\ Advance
    /\ pc' = "run"
    /\ UNCHANGED <<conditionDepth, finishedProgress>>

\* conditionDepth after the start or the end of a block.
DepthAfter(op) == IF op = "START" THEN conditionDepth + 1 ELSE conditionDepth - 1

ExecuteBlock ==
    /\ AtInstruction("START") \/ AtInstruction("END")
    /\ Advance
    /\ conditionDepth' = DepthAfter(queue[pos])
    /\ UNCHANGED <<pc, finishedProgress>>

\* With strictAsyncOrder the write thread waits for the callbacks right away.
ExecuteCall ==
    /\ AtInstruction("CALL") \/ AtInstruction("STRICT")
    /\ Advance
    /\ finishedProgress' = FALSE
    /\ pc' = IF queue[pos] = "STRICT" THEN "strict" ELSE "run"
    /\ UNCHANGED conditionDepth

StrictDone ==
    /\ pc = "strict" /\ finishedProgress
    /\ pc' = "run"
    /\ UNCHANGED <<queue, pos, back, conditionDepth, finishedProgress, txn, interruptionStatus,
                   startVars, progress, jsVars, mutex, waiting, lmdbVars, zipVars, txnOf, syncTxn>>

\* Whether the batch may be split while waiting.  Mutant: also inside a block.
AllowCommitAlways == "ALLOW_COMMIT"
AllowCommit == IF conditionDepth = 0 THEN "ALLOW_COMMIT" ELSE "none"

\* WaitForCallbacks up to its wait: timed at a slot to poll, untimed otherwise.
WaitForCallbacks ==
    /\ \/ pc = "run" /\ pos > Len(queue) /\ (conditionDepth # 0 \/ ~finishedProgress)
       \/ pc = "strict" /\ ~finishedProgress
    /\ pc' = IF pc = "run" THEN "wait" ELSE "strictwait"
    /\ progress' = (progress \/ ~finishedProgress)
    /\ \E rest \in Signalled(waiting) : waiting' = rest \cup {"worker"}
    /\ interruptionStatus' = AllowCommit
    /\ mutex' = Free
    /\ UNCHANGED <<queue, pos, back, conditionDepth, finishedProgress, txn, startVars, jsVars,
                   lmdbVars, zipVars, txnOf, syncTxn>>

PollEnds ==
    \/ pos <= Len(queue)
    \/ conditionDepth = 0 /\ (interruptionStatus = "INTERRUPT_BATCH" \/ finishedProgress)
WaitIsOver ==
    /\ mutex = Free
    /\ \/ pc = "wait" /\ PollEnds    \* polled with a timeout, a signal is not needed
       \/ pc = "strictwait" /\ "worker" \notin waiting
BackTo == IF pc = "wait" THEN "run" ELSE "strict"

\* The wait with a timeout took a signal that was not for it.
PollAgain ==
    /\ pc = "wait" /\ mutex = Free /\ "worker" \notin waiting /\ ~PollEnds
    /\ waiting' = waiting \cup {"worker"}
    /\ UNCHANGED <<queue, pos, workerVars, interruptionStatus, startVars, progress, jsVars, mutex,
                   lmdbVars, zipVars, txnOf, syncTxn>>

Resume ==
    /\ WaitIsOver /\ interruptionStatus # "INTERRUPT_BATCH"
    /\ mutex' = "worker" /\ waiting' = waiting \ {"worker"}
    /\ interruptionStatus' = "none"
    /\ pc' = BackTo
    /\ UNCHANGED <<queue, pos, back, conditionDepth, finishedProgress, txn, startVars, progress,
                   jsVars, lmdbVars, zipVars, txnOf, syncTxn>>

\* Who is left waiting after the signal of an interruption.  Mutant: no signal.
InterruptSilent == {(waiting \ {"worker"}) \cup {"worker"}}
InterruptSignal == {rest \cup {"worker"} : rest \in Signalled(waiting \ {"worker"})}

\* A synchronous transaction asks for the batch to be split: commit, let it run.
Interrupted ==
    /\ WaitIsOver /\ interruptionStatus = "INTERRUPT_BATCH"
    /\ interruptionStatus' = "RESTART_WORKER_TXN"
    /\ MdbEnd(TRUE)
    /\ txn' = 0
    /\ waiting' \in InterruptSignal
    /\ pc' = "restart" /\ back' = BackTo
    /\ UNCHANGED <<queue, pos, conditionDepth, finishedProgress, startVars, progress, jsVars, mutex,
                   zipVars, txnOf, syncTxn>>

\* It waits for a signal before it takes a new transaction.  Mutant: it does not.
RestartAtOnce == TRUE
RestartSignalled == "worker" \notin waiting

Restart ==
    /\ pc = "restart" /\ RestartSignalled /\ mutex = Free
    /\ mutex' = "worker" /\ pc' = "begin"
    /\ UNCHANGED <<queue, pos, back, conditionDepth, finishedProgress, txn, interruptionStatus,
                   startVars, progress, jsVars, waiting, lmdbVars, zipVars, txnOf, syncTxn>>

\* No instruction, no block, no callback: the transaction ends here.
Delimit ==
    /\ pc = "run" /\ pos > Len(queue) /\ conditionDepth = 0 /\ finishedProgress
    /\ pc' = "commit"
    /\ UNCHANGED <<queue, pos, back, conditionDepth, finishedProgress, txn, interruptionStatus,
                   startVars, progress, jsVars, mutex, waiting, lmdbVars, zipVars, txnOf, syncTxn>>

Commit ==
    /\ pc = "commit"
    /\ MdbEnd(TRUE)
    /\ txn' = 0 /\ mutex' = Free
    /\ pc' = IF pending THEN "queued" ELSE "finished"
    /\ pending' = FALSE
    /\ UNCHANGED <<queue, pos, back, conditionDepth, finishedProgress, interruptionStatus, hasWorker,
                   progress, jsVars, waiting, zipVars, txnOf, syncTxn>>

\* The worker is deleted on the JavaScript thread.
DeleteWorker ==
    /\ pc = "finished" /\ jsPc = "idle"
    /\ pc' = "none" /\ hasWorker' = FALSE
    /\ UNCHANGED <<queue, pos, back, conditionDepth, finishedProgress, txn, interruptionStatus,
                   pending, progress, jsVars, mutex, waiting, lmdbVars, zipVars, txnOf, syncTxn>>

-----------------------------------------------------------------------------
(* Compression: the write thread and a pool thread exchange the word.        *)

\* A value that is not compressed yet the write thread claims or awaits.
ZipCheck ==
    /\ AtInstruction("ZIP")
    /\ pc' = IF compressed[pos] THEN "put" ELSE "exchange"
    /\ UNCHANGED <<queue, pos, back, conditionDepth, finishedProgress, txn, interruptionStatus,
                   startVars, progress, jsVars, mutex, waiting, lmdbVars, zipVars, txnOf, syncTxn>>

ZipExchange ==
    /\ pc = "exchange"
    /\ status' = [status EXCEPT ![pos] = "claimed"]
    /\ CASE status[pos] = "busy" -> /\ pc' = "zipwait" /\ mutex' = Free
                                    /\ waiting' = waiting \cup {"worker"}
         [] status[pos] = "pointer" -> pc' = "zip" /\ UNCHANGED <<mutex, waiting>>
         [] OTHER -> pc' = "put" /\ UNCHANGED <<mutex, waiting>>
    /\ UNCHANGED <<queue, pos, back, conditionDepth, finishedProgress, txn, interruptionStatus,
                   startVars, progress, jsVars, lmdbVars, compressed, zipper, txnOf, syncTxn>>

\* The write thread compresses the value itself.
ZipSelf ==
    /\ pc = "zip"
    /\ pc' = "put"
    /\ compressed' = [compressed EXCEPT ![pos] = TRUE]
    /\ status' = [status EXCEPT ![pos] = "done"]
    /\ UNCHANGED <<queue, pos, back, conditionDepth, finishedProgress, txn, interruptionStatus,
                   startVars, progress, jsVars, mutex, waiting, lmdbVars, zipper, txnOf, syncTxn>>

\* Awake: go on, or wait again if it was another signal.
ZipWake ==
    /\ pc = "zipwait" /\ "worker" \notin waiting /\ mutex = Free
    /\ IF compressed[pos]
       THEN pc' = "put" /\ mutex' = "worker" /\ UNCHANGED waiting
       ELSE waiting' = waiting \cup {"worker"} /\ UNCHANGED <<pc, mutex>>
    /\ UNCHANGED <<queue, pos, back, conditionDepth, finishedProgress, txn, interruptionStatus,
                   startVars, progress, jsVars, lmdbVars, zipVars, txnOf, syncTxn>>

\* CompressionWorker: claim the value unless it is claimed, compress it, say so.
\* Mutant: the claim of the write thread is ignored.
ClaimsAlways(old) == TRUE
Claims(old) == old = "pointer"

ZipperStart(i) ==
    /\ zipper[i] = "queued"
    /\ status' = [status EXCEPT ![i] = "busy"]
    /\ zipper' = [zipper EXCEPT ![i] = IF Claims(status[i]) THEN "busy" ELSE "done"]
    /\ UNCHANGED <<compressed, mutex, waiting>>
ZipperWrite(i) ==
    /\ zipper[i] = "busy"
    /\ compressed' = [compressed EXCEPT ![i] = TRUE]
    /\ zipper' = [zipper EXCEPT ![i] = "written"]
    /\ UNCHANGED <<status, mutex, waiting>>
ZipperDone(i) ==
    /\ zipper[i] = "written"
    /\ status' = [status EXCEPT ![i] = "done"]
    /\ zipper' = [zipper EXCEPT ![i] = IF status[i] = "claimed" THEN "signal" ELSE "done"]
    /\ UNCHANGED <<compressed, mutex, waiting>>
ZipperSignal(i) ==
    /\ zipper[i] = "signal" /\ mutex = Free
    /\ waiting' \in Signalled(waiting)
    /\ zipper' = [zipper EXCEPT ![i] = "done"]
    /\ UNCHANGED <<status, compressed, mutex>>
Zipper(i) ==
    /\ ZipperStart(i) \/ ZipperWrite(i) \/ ZipperDone(i) \/ ZipperSignal(i)
    /\ UNCHANGED <<queue, pos, workerVars, interruptionStatus, startVars, progress, jsVars,
                   lmdbVars, txnOf, syncTxn>>

-----------------------------------------------------------------------------
(* Synchronous transactions: transactionSync, putSync and removeSync. *)

TransactionSync(k) ==
    /\ jsPc = "idle" /\ awaiting = 0 /\ syncs < MaxSyncs
    /\ jsPc' = "acquire" /\ kind' = k /\ syncs' = syncs + 1
    /\ UNCHANGED <<queue, pos, workerVars, interruptionStatus, startVars, progress, writeTxn,
                   awaiting, mutex, waiting, lmdbVars, zipVars, txnOf, syncTxn>>

\* The flags TXN_SYNCHRONOUS_COMMIT and TXN_ABORTABLE.  Mutant: putSync has none.
SynchronousTxn(k) == k = "txn"
Synchronous(k) == k \in {"put", "txn"}
Abortable(k) == k = "txn" /\ ~WriteMap

\* AcquireTxn interrupts a batch that may be split; otherwise beginTxn works in
\* the transaction of the write thread, or in a child of it, or in its own.
AcquireTxn ==
    /\ jsPc = "acquire" /\ mutex = Free
    /\ IF hasWorker /\ Synchronous(kind) /\ interruptionStatus = "ALLOW_COMMIT"
       THEN /\ interruptionStatus' = "INTERRUPT_BATCH"
            /\ \E rest \in Signalled(waiting) : waiting' = rest \cup {"js"}
            /\ jsPc' = "interrupting"
            /\ UNCHANGED <<mutex, writeTxn>>
       ELSE /\ interruptionStatus' = IF hasWorker THEN "USER_HAS_LOCK" ELSE interruptionStatus
            /\ mutex' = "js"
            /\ IF txn # 0
               THEN /\ writeTxn' = [txn |-> txn, own |-> FALSE, abortable |-> Abortable(kind)]
                    /\ jsPc' = "sync"
               ELSE jsPc' = "begin" /\ UNCHANGED writeTxn
            /\ UNCHANGED waiting
    /\ UNCHANGED <<queue, pos, workerVars, startVars, progress, kind, syncs, awaiting, lmdbVars,
                   zipVars, txnOf, syncTxn>>

\* The wait in AcquireTxn checks nothing when it ends.
InterruptAnswered ==
    /\ jsPc = "interrupting" /\ "js" \notin waiting /\ mutex = Free
    /\ mutex' = "js" /\ jsPc' = "begin"
    /\ UNCHANGED <<queue, pos, workerVars, interruptionStatus, startVars, progress, kind, syncs,
                   writeTxn, awaiting, waiting, lmdbVars, zipVars, txnOf, syncTxn>>

BeginSync ==
    /\ jsPc = "begin"
    /\ MdbBegin("js")
    /\ writeTxn' = [txn |-> last + 1, own |-> TRUE, abortable |-> TRUE]
    /\ jsPc' = "sync"
    /\ UNCHANGED <<queue, pos, workerVars, interruptionStatus, startVars, progress, kind, syncs,
                   awaiting, mutex, waiting, zipVars, txnOf, syncTxn>>

\* UnlockTxn, or only the unlock without a worker.  Mutant: no signal.
UnlockSilent == {waiting}
UnlockSignal == IF hasWorker THEN Signalled(waiting) ELSE {waiting}
UnlockTxn ==
    /\ writeTxn' = NoTxn
    /\ interruptionStatus' = IF hasWorker THEN "none" ELSE interruptionStatus
    /\ waiting' \in UnlockSignal
    /\ mutex' = Free

CommitTxn ==
    /\ jsPc = "sync"
    /\ IF writeTxn.own THEN MdbEnd(TRUE) ELSE UNCHANGED lmdbVars
    /\ syncTxn' = writeTxn.txn
    /\ UnlockTxn
    /\ jsPc' = "idle"
    /\ UNCHANGED <<queue, pos, workerVars, startVars, progress, kind, syncs, awaiting, zipVars, txnOf>>

\* abortTxn throws when the transaction can not be aborted, after it unlocked; if
\* the callback returned ABORT, the handler of transactionSync aborts once more.
AbortTxn ==
    /\ jsPc = "sync"
    /\ \E returned \in {a \in BOOLEAN : a => CanAbort /\ kind # "put"} :
         jsPc' = IF returned /\ ~writeTxn.abortable THEN "abort" ELSE "idle"
    /\ IF writeTxn.own THEN MdbEnd(FALSE) ELSE UNCHANGED lmdbVars
    /\ syncTxn' = 0
    /\ UnlockTxn
    /\ UNCHANGED <<queue, pos, workerVars, startVars, progress, kind, syncs, awaiting, zipVars, txnOf>>

-----------------------------------------------------------------------------
(* Transaction callbacks: HandleProgressCallback and executeTxnCallbacks. *)

\* The event loop runs while a transactionSync callback awaits something.
HandleProgress ==
    /\ progress /\ (jsPc = "idle" \/ (jsPc = "sync" /\ AsyncSyncs))
    /\ progress' = FALSE
    /\ jsPc' = IF finishedProgress THEN jsPc ELSE "lock"
    /\ UNCHANGED <<queue, pos, workerVars, interruptionStatus, startVars, kind, syncs, writeTxn,
                   awaiting, mutex, waiting, lmdbVars, zipVars, txnOf, syncTxn>>

\* Whether the write thread has no transaction now.  Mutant: it is not checked.
NeverAwaitsTxn == FALSE
AwaitsTxn == txn = 0

LockForCallbacks ==
    /\ jsPc = "lock" /\ mutex = Free
    /\ IF AwaitsTxn
       THEN /\ waiting' = waiting \cup {"js"}
            /\ jsPc' = "txnwait"
            /\ UNCHANGED <<mutex, writeTxn, finishedProgress>>
       ELSE /\ mutex' = "js"
            /\ writeTxn' = [txn |-> txn, own |-> FALSE, abortable |-> FALSE]
            /\ finishedProgress' = TRUE
            /\ jsPc' = "callback"
            /\ UNCHANGED waiting
    /\ UNCHANGED <<queue, pos, pc, back, conditionDepth, txn, interruptionStatus, startVars,
                   progress, kind, syncs, awaiting, lmdbVars, zipVars, txnOf, syncTxn>>

TxnAwaited ==
    /\ jsPc = "txnwait" /\ "js" \notin waiting
    /\ jsPc' = "lock"
    /\ UNCHANGED <<queue, pos, workerVars, interruptionStatus, startVars, progress, kind, syncs,
                   writeTxn, awaiting, mutex, waiting, lmdbVars, zipVars, txnOf, syncTxn>>

\* executeTxnCallbacks returns at its first await, and the lock goes with it.
CallbacksReturn ==
    /\ jsPc = "callback"
    /\ jsPc' = "idle"
    /\ \E promise \in {a \in BOOLEAN : a => AsyncCallbacks} :
         awaiting' = IF promise THEN writeTxn.txn ELSE awaiting
    /\ writeTxn' = NoTxn
    /\ waiting' \in Signalled(waiting)
    /\ mutex' = Free
    /\ UNCHANGED <<queue, pos, workerVars, interruptionStatus, startVars, progress, kind, syncs,
                   lmdbVars, zipVars, txnOf, syncTxn>>

PromiseResolves ==
    /\ jsPc = "idle" /\ awaiting # 0
    /\ awaiting' = 0
    /\ UNCHANGED <<queue, pos, workerVars, interruptionStatus, startVars, progress, jsPc, kind,
                   syncs, writeTxn, mutex, waiting, lmdbVars, zipVars, txnOf, syncTxn>>

-----------------------------------------------------------------------------

JsStep ==
    \/ AcquireTxn \/ InterruptAnswered \/ BeginSync \/ CommitTxn \/ AbortTxn \/ HandleProgress
    \/ LockForCallbacks \/ TxnAwaited \/ CallbacksReturn \/ PromiseResolves \/ DeleteWorker
WorkerStep ==
    \/ TakeLock \/ BeginTxn \/ ExecutePut \/ ExecuteBlock \/ ExecuteCall \/ StrictDone
    \/ WaitForCallbacks \/ PollAgain \/ Resume \/ Interrupted \/ Restart \/ Delimit \/ Commit
    \/ ZipCheck \/ ZipExchange \/ ZipSelf \/ ZipWake
Next ==
    \/ \E op \in Operations \cup {"END"} : Publish(op)
    \/ \E k \in SyncKinds : TransactionSync(k)
    \/ JsStep \/ WorkerStep
    \/ \E i \in Instructions : Zipper(i)

Spec == Init /\ [][Next]_vars

\* Every thread runs; the finally of ifVersion ends the block it began.
Fairness ==
    /\ WF_vars(JsStep) /\ WF_vars(WorkerStep) /\ WF_vars(Publish("END"))
    /\ \A i \in Instructions : WF_vars(Zipper(i))
FairSpec == Spec /\ Fairness

-----------------------------------------------------------------------------
(* Properties. *)

TypeOK ==
    /\ queue \in Seq(Operations \cup {"END"}) /\ Len(queue) \in 0..MaxInstructions
    /\ pos \in 1..(Len(queue) + 1)
    /\ pc \in {"none", "queued", "begin", "run", "put", "strict", "wait", "strictwait", "restart",
               "commit", "finished", "exchange", "zip", "zipwait"}
    /\ back \in {"run", "strict"}
    /\ conditionDepth \in 0..1
    /\ {finishedProgress, hasWorker, pending, progress} \subseteq BOOLEAN
    /\ interruptionStatus \in Statuses
    /\ jsPc \in {"idle", "acquire", "interrupting", "begin", "sync", "lock", "txnwait",
                 "callback", "abort"}
    /\ kind \in SyncKinds \cup {"txn"} /\ syncs \in 0..MaxSyncs
    /\ {txn, current, last, syncTxn, awaiting} \subseteq Nat
    /\ writeTxn \in [txn : Nat, own : BOOLEAN, abortable : BOOLEAN]
    /\ mutex \in {Free, "worker", "js"} /\ owner \in {Free, "worker", "js"}
    /\ waiting \subseteq {"worker", "js"}
    /\ committed \subseteq 1..last
    /\ status \in [Instructions -> {"pointer", "claimed", "busy", "done"}]
    /\ compressed \in [Instructions -> BOOLEAN]
    /\ zipper \in [Instructions -> {"none", "queued", "busy", "written", "signal", "done"}]
    /\ txnOf \in [Instructions -> Nat]

\* Whichever thread is about to use LMDB's write transaction (the write thread in
\* DoWrites and at its commit; JavaScript inside a synchronous transaction or a
\* transaction callback) holds writingLock, and the MDB_txn it will pass is the
\* one that is open, not one that an interruption has committed meanwhile.
TxnUnderLock ==
    /\ pc \in {"run", "put", "strict", "exchange", "zip", "commit"} =>
         mutex = "worker" /\ owner = "worker" /\ txn = current /\ current # 0
    /\ jsPc \in {"sync", "callback"} =>
         mutex = "js" /\ writeTxn.txn = current /\ current # 0

\* A block of ifVersion or ifNoExists runs in one transaction, however many
\* synchronous transactions and callbacks come while the write thread waits inside
\* it: WaitForCallbacks offers ALLOW_COMMIT at conditionDepth 0 only.
BlockUnsplit ==
    \A i, j \in DOMAIN queue :
        (/\ i < j /\ queue[i] = "START" /\ txnOf[j] # 0
         /\ \A k \in (i + 1)..(j - 1) : queue[k] # "END")
        => txnOf[j] = txnOf[i]

\* When transactionSync, putSync or removeSync has returned (and did not abort),
\* the transaction that holds its writes is committed: AcquireTxn made the write
\* thread give way, or no transaction was open.
SyncCommitted == jsPc = "idle" /\ syncTxn # 0 => syncTxn \in committed

\* No thread blocks in mdb_txn_begin with writingLock held while the other one has
\* the write transaction open and needs that lock to end it.
NoLockCycle ==
    /\ ~(jsPc = "begin" /\ owner = "worker")
    /\ ~(pc = "begin" /\ owner = "js")

\* The write thread and the pool thread never compress the same value at the same
\* time, and the write thread stores a compressible value only when its compressed
\* form is in the instruction, whatever the order of their exchanges.
CompressedOnce ==
    /\ pc = "zip" => zipper[pos] \notin {"busy", "written", "signal"}
    /\ pc = "put" => compressed[pos]

\* The commit waits for the promise that a transaction callback returned.
CommitDeferred == awaiting # 0 => awaiting \notin committed

\* JavaScript never blocks on writingLock while it holds it itself, through the
\* open transaction of an asynchronous transactionSync callback.
NoSelfLock == ~(jsPc = "lock" /\ mutex = "js")

\* When the callback of a transactionSync aborts, there is a transaction to abort.
AbortHasTxn == jsPc = "abort" => writeTxn # NoTxn

\* A synchronous transaction that asks for the transaction gets it and returns: the
\* interruption of the batch is answered.
SyncReturns == jsPc = "acquire" ~> jsPc = "idle"

\* Every queued instruction is executed, whoever takes the lock, the transaction or
\* the signals meanwhile: the write thread is not left waiting on writingCond.
EveryInstructionRuns == \A i \in Instructions : Len(queue) >= i ~> pos > i

=============================================================================
