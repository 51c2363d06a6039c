----------------------------- MODULE WriteQueue -----------------------------
(***************************************************************************)
(* The asynchronous write queue of lmdb-js: write.js (the JavaScript        *)
(* thread) and WriteWorker of src/writer.cpp (the write threads) share a    *)
(* buffer of instructions and talk only through the status word of each     *)
(* instruction.  JavaScript reserves slots, publishes their op codes,       *)
(* starts a worker whenever it publishes into a slot that the previous      *)
(* worker closed with TXN_DELIMITER, and settles the promises of a          *)
(* transaction when the word of its delimiter says committed or failed.  A  *)
(* worker runs instructions in slot order inside one LMDB transaction,      *)
(* waits inside an open block, and closes the transaction at the first      *)
(* empty slot outside of every block.                                       *)
(*                                                                          *)
(* One action is at most one access to a shared word: an Atomics.or, a      *)
(* compare-and-swap, one plain load or one plain store (memory is           *)
(* sequentially consistent).  Byte layout, keys, values, the second and     *)
(* later buffers (POINTER_NEXT) and the wake-up signals (the worker also    *)
(* polls with a timed wait) are abstracted away.                            *)
(***************************************************************************)
EXTENDS Integers, Sequences, FiniteSets

CONSTANTS
    EventTurnBatching,    \* option eventTurnBatching
    OverlappingSync,      \* option overlappingSync (MDB_OVERLAPPINGSYNC)
    SeparateFlushed,      \* option separateFlushed
    InstructionCanFail,   \* whether mdb_put, mdb_del, mdb_drop may return other errors
                          \* than MDB_KEYEXIST and MDB_NOTFOUND
    CommitCanFail,        \* whether mdb_txn_commit may return an error
    SyncCanFail,          \* whether mdb_env_sync may return an error
    Operations,           \* the operations the program calls
    MaxSlots,             \* bound: instruction slots ever reserved
    MaxNesting,           \* bound: ifVersion/batch blocks open at once
    ResolveInterval,      \* writes between two resolveWrites() (8 in the code)
    TxnStartThreshold,    \* option txnStartThreshold (5 by default)
    BatchStartThreshold   \* option batchStartThreshold (1000 by default)

ASSUME OptionsAssumption ==
    /\ {EventTurnBatching, OverlappingSync, SeparateFlushed, InstructionCanFail,
        CommitCanFail, SyncCanFail} \subseteq BOOLEAN
    /\ Operations \subseteq {"WRITE", "REMOVE", "WRITEIF", "CALL", "COND", "START"}

ASSUME BoundsAssumption ==
    /\ MaxSlots \in Nat \ {0}
    /\ MaxNesting \in Nat
    /\ ResolveInterval \in Nat \ {0}
    /\ TxnStartThreshold \in Nat \ {0}
    /\ BatchStartThreshold \in Nat

VARIABLES
    word,                   \* status word of every slot, as the set of its bits
    instr,                  \* what each reserved slot holds (the rest of its bytes)
    position,               \* dynamicBytes.position: the next free slot
    resolution,             \* the resolution objects, linked in order
    nextResolution,         \* the placeholder resolution at `position'
    batchDepth,
    blocks,                 \* resolutions of the blocks not ended yet, outermost first
    enqueuedEventTurnBatch, \* the task that ends the event turn is queued
    writeBatchStart,        \* resolution of the deferred block start, 0 if null
    outstandingBatchCount,
    outstandingWriteCount,
    startAddress,           \* slot the next worker starts at, 0 if none
    enqueuedCommit,         \* the startWriting() task is queued
    commitPromise,          \* resolution the shared promise hangs on, 0 if null
    flushPromise,           \* id of the shared flush promise, 0 if null
    flushResolvers, flushed, \* flush promises to resolve, and those resolved
    txnResolution,          \* oldest transaction delimiter not settled, 0 if none
    unwrittenResolution,
    uncommittedResolution,  \* 0 is the dummy before the first resolution
    nextTxnCallbacks,       \* user callbacks to run at the next progress call
    call, caller,           \* the running write closure or callback; its caller
    worker,                 \* every worker ever started
    lock,                   \* holder of writingLock: Free, Js or a worker
    txnOf, result, log,     \* history: transaction, outcome, order of execution
    ranIn                   \* history: transaction each user callback ran in

reserveVars == <<instr, position, nextResolution>>
batchVars == <<batchDepth, blocks, enqueuedEventTurnBatch>>
promiseVars == <<commitPromise, flushPromise>>
startVars == <<startAddress, enqueuedCommit, flushResolvers>>
settleVars == <<txnResolution, unwrittenResolution, uncommittedResolution, nextTxnCallbacks, flushed>>
historyVars == <<txnOf, result, log, ranIn>>
jsVars == <<reserveVars, resolution, batchVars, writeBatchStart, outstandingBatchCount,
            outstandingWriteCount, startVars, promiseVars, settleVars, call, caller>>
vars == <<word, jsVars, worker, lock, historyVars>>

-----------------------------------------------------------------------------
(* Slots, status bits and records. *)

Slots == 1..(MaxSlots + 1)
OP == "OP"                     \* the low nibble of the word: an op code is there
WAITING_OPERATION == "WAITING"
TXN_DELIMITER == "DELIMITER"
TXN_COMMITTED == "COMMITTED"
TXN_FAILED == "FAILED_TXN"     \* TXN_HAD_ERROR in writer.cpp
FINISHED_OPERATION == "FINISHED"
FAILED_CONDITION == "FAILED_CONDITION"
Bits == {OP, WAITING_OPERATION, TXN_DELIMITER, TXN_COMMITTED, TXN_FAILED,
         FINISHED_OPERATION, FAILED_CONDITION}

Kinds == {"WRITE", "REMOVE", "WRITEIF", "CALL", "COND", "START", "END"}
Free == 0
Js == -1
\* The promise of a resolution: not assigned yet, or PROMISE_SUCCESS; a positive
\* number is the resolution whose resolve function settles it.
NoPromise == 0
PromiseSuccess == -1

Instruction == [kind : Kinds, depth : Nat, within : Seq(Slots)]
NoInstruction == [kind |-> "END", depth |-> 0, within |-> <<>>]

Resolution == [flagPosition : 0..(MaxSlots + 1), isTxn : BOOLEAN, nextTxn : 0..(MaxSlots + 1),
               flag : SUBSET Bits, released : BOOLEAN, callbacks : 0..(MaxSlots + 1),
               promise : -1..(MaxSlots + 1), flush : 0..(MaxSlots + 1),
               settled : {"pending", "true", "false", "rejected"}]
NewResolution(slot) ==
    [flagPosition |-> slot, isTxn |-> FALSE, nextTxn |-> 0, flag |-> {}, released |-> FALSE,
     callbacks |-> 0, promise |-> NoPromise, flush |-> 0, settled |-> "pending"]

\* A write closure publishing resolution `res', or the callback of a worker.
Call == [pc : {"idle", "publish", "store", "note", "sweep", "settle", "promise", "status"},
         res : 0..(MaxSlots + 1), seen : SUBSET Bits, worker : Nat, status : 0..3]
Idle == [pc |-> "idle", res |-> 0, seen |-> {}, worker |-> 0, status |-> 0]
WriteCall(r) == [Idle EXCEPT !.pc = "publish", !.res = r]
CallbackCall(w, status) == [Idle EXCEPT !.pc = "sweep", !.worker = w, !.status = status]

Worker == [pc : {"queued", "run", "store", "wait", "commit", "report", "sync", "done", "gone"},
           pos : Slots, depth : Int, validated : Int, instructions : Slots,
           finishedProgress : BOOLEAN, overlappedWord : BOOLEAN,
           loaded : SUBSET Bits, progress : BOOLEAN, reported : BOOLEAN,
           outcome : {"none", "ok", "failed"}, durable : BOOLEAN, resolvers : SUBSET Slots]
\* The first word of a transaction is the delimiter the previous worker may still
\* be marking.  Mutant: DoWrites does not know.
NoOverlappedWord == FALSE
OverlappedWord == TRUE
NewWorker(address, resolvers) ==
    [pc |-> "queued", pos |-> address, depth |-> 0, validated |-> 0, instructions |-> address,
     finishedProgress |-> TRUE, overlappedWord |-> OverlappedWord, loaded |-> {},
     progress |-> FALSE, reported |-> FALSE, outcome |-> "none", durable |-> FALSE,
     resolvers |-> resolvers]

Init ==
    /\ word = [s \in Slots |-> IF s = 1 THEN {TXN_DELIMITER, TXN_COMMITTED} ELSE {}]
    /\ instr = [s \in 1..MaxSlots |-> NoInstruction]
    /\ position = 1
    /\ resolution = [r \in Slots |-> NewResolution(IF r = 1 THEN 1 ELSE 0)]
    /\ nextResolution = 1
    /\ batchDepth = 0 /\ blocks = <<>> /\ enqueuedEventTurnBatch = FALSE
    /\ writeBatchStart = 0 /\ outstandingBatchCount = 0 /\ outstandingWriteCount = 0
    /\ startAddress = 0 /\ enqueuedCommit = FALSE /\ flushResolvers = {}
    /\ commitPromise = 0 /\ flushPromise = 0
    /\ txnResolution = 0 /\ unwrittenResolution = 1 /\ uncommittedResolution = 0
    /\ nextTxnCallbacks = {} /\ flushed = {}
    /\ call = Idle /\ caller = Idle
    /\ worker = <<>> /\ lock = Free
    /\ txnOf = [s \in 1..MaxSlots |-> 0] /\ result = [s \in 1..MaxSlots |-> FALSE]
    /\ log = <<>> /\ ranIn = [s \in 1..MaxSlots |-> 0]
-----------------------------------------------------------------------------
(* Reserving slots: the part of writeInstructions before its closure runs. *)

\* The first write of an event turn first reserves the START block of the turn.
OpensTurn == EventTurnBatching /\ ~enqueuedEventTurnBatch /\ batchDepth = 0
TurnDepth == IF OpensTurn THEN 1 ELSE batchDepth
Enclosing == IF OpensTurn THEN <<nextResolution>> ELSE blocks
InstrSlot == IF OpensTurn THEN position + 1 ELSE position
InstrRes == IF OpensTurn THEN nextResolution + 1 ELSE nextResolution

\* Synchronous JavaScript runs to completion: a callback passed to ifVersion is
\* running while more blocks are open than the one of the event turn.
InUserBlock == Len(blocks) > IF enqueuedEventTurnBatch THEN 1 ELSE 0
EventLoopIdle == call.pc = "idle" /\ ~InUserBlock

\* A new event turn gets a new shared promise.  Mutant: it is not reset.
CommitPromiseKept == commitPromise
CommitPromiseInTurn == IF OpensTurn THEN 0 ELSE commitPromise

\* Reserve a slot for an instruction of this kind; `opened' is the number of
\* blocks it opens.  The bound keeps room for the BLOCK_END of every open block.
WriteInstructions(kind, opened) ==
    LET turnStart == [kind |-> "START", depth |-> 0, within |-> <<>>]
        this == [kind |-> kind, depth |-> TurnDepth, within |-> Enclosing]
        withTurn == IF OpensTurn THEN [instr EXCEPT ![position] = turnStart] ELSE instr
        \* transactionAsync sets callbacks on nextResolution before it reserves
        called == IF kind = "CALL" THEN [resolution EXCEPT ![nextResolution].callbacks = InstrSlot]
                                   ELSE resolution
        own == IF OpensTurn THEN [called EXCEPT ![InstrRes] = NewResolution(InstrSlot)] ELSE called
    IN  /\ call.pc = "idle"
        /\ InstrSlot + Len(Enclosing) + opened <= MaxSlots
        /\ instr' = [withTurn EXCEPT ![InstrSlot] = this]
        /\ position' = InstrSlot + 1
        /\ resolution' = [own EXCEPT ![InstrRes + 1] = NewResolution(InstrSlot + 1)]
        /\ nextResolution' = InstrRes + 1
        /\ enqueuedEventTurnBatch' = (enqueuedEventTurnBatch \/ OpensTurn)
        /\ commitPromise' = CommitPromiseInTurn
        /\ flushPromise' = IF OpensTurn THEN 0 ELSE flushPromise
        /\ UNCHANGED <<word, outstandingWriteCount, startVars, settleVars, caller, worker, lock,
                       historyVars>>

\* put, remove, clearAsync, drop, transactionAsync: reserve and publish.
Write(kind) ==
    /\ kind \in Operations \cap {"WRITE", "REMOVE", "WRITEIF", "CALL"}
    /\ WriteInstructions(kind, 0)
    /\ batchDepth' = TurnDepth
    /\ blocks' = Enclosing
    /\ writeBatchStart' = IF OpensTurn THEN nextResolution ELSE writeBatchStart
    /\ outstandingBatchCount' = IF OpensTurn THEN 0 ELSE outstandingBatchCount
    /\ call' = WriteCall(InstrRes)

\* ifVersion (COND) and batch (START): the start of an outermost block is
\* published only when the block ends or has grown past batchStartThreshold.
IfVersion(kind) ==
    /\ kind \in Operations \cap {"COND", "START"}
    /\ Len(blocks) < MaxNesting + IF enqueuedEventTurnBatch THEN 1 ELSE 0
    /\ WriteInstructions(kind, 1)
    /\ batchDepth' = TurnDepth + 2
    /\ blocks' = Append(Enclosing, InstrRes)
    /\ IF TurnDepth + 2 > 2
       THEN /\ call' = WriteCall(InstrRes)
            /\ writeBatchStart' = IF OpensTurn THEN nextResolution ELSE writeBatchStart
            /\ outstandingBatchCount' = IF OpensTurn THEN 0 ELSE outstandingBatchCount
       ELSE /\ writeBatchStart' = InstrRes
            /\ outstandingBatchCount' = 0
            /\ UNCHANGED call

\* Publish BLOCK_END of the innermost block: with an atomic or outside of every
\* batch, else with a plain store that drops a WAITING_OPERATION set meanwhile.
FinishBatch(depth) ==
    /\ instr' = [instr EXCEPT ![position] = [kind |-> "END", depth |-> depth, within |-> blocks]]
    /\ word' = [word EXCEPT ![position + 1] = {},
                            ![position] = IF depth = 0 THEN @ \cup {OP} ELSE {OP}]
    /\ position' = position + 1
    /\ resolution' = [resolution EXCEPT ![nextResolution].flagPosition = @ + 1]
    /\ blocks' = SubSeq(blocks, 1, Len(blocks) - 1)
    /\ UNCHANGED nextResolution

\* Mutant: the turn is closed like an ifVersion block.
DepthAfterBlock == batchDepth - 2
DepthAfterTurn == batchDepth - 1

\* The queued task that ends an event turn.
EndEventTurn ==
    /\ EventLoopIdle /\ enqueuedEventTurnBatch
    /\ enqueuedEventTurnBatch' = FALSE
    /\ batchDepth' = DepthAfterTurn
    /\ FinishBatch(DepthAfterTurn)
    /\ call' = IF writeBatchStart # 0 THEN WriteCall(writeBatchStart) ELSE call
    /\ UNCHANGED <<writeBatchStart, outstandingBatchCount, outstandingWriteCount, startVars,
                   promiseVars, settleVars, caller, worker, lock, historyVars>>

\* The resolution of the innermost open block.
BlockResolution == blocks[Len(blocks)]

\* The finally block of ifVersion: end the block, and publish its start now if
\* that has not happened yet.
EndIfVersion ==
    /\ call.pc = "idle" /\ InUserBlock
    /\ batchDepth' = batchDepth - 2
    /\ IF resolution[BlockResolution].promise = NoPromise
       THEN /\ FinishBatch(batchDepth)
            /\ call' = WriteCall(BlockResolution)
            /\ writeBatchStart' = 0
       ELSE /\ FinishBatch(batchDepth - 2)
            /\ UNCHANGED <<call, writeBatchStart>>
    /\ UNCHANGED <<enqueuedEventTurnBatch, outstandingBatchCount, outstandingWriteCount, startVars,
                   promiseVars, settleVars, caller, worker, lock, historyVars>>

-----------------------------------------------------------------------------
(* Publishing an instruction: the closure returned by writeInstructions. *)

\* Mutant: startAddress is not reset.
StartWritingAgain(address, resolvers) ==
    /\ worker' = Append(worker, NewWorker(address, resolvers))
    /\ enqueuedCommit' = FALSE
    /\ flushResolvers' = {}
    /\ startAddress' = address

StartWriting(address, resolvers) ==
    /\ worker' = Append(worker, NewWorker(address, resolvers))
    /\ enqueuedCommit' = FALSE
    /\ flushResolvers' = {}
    /\ startAddress' = 0

QueueCommitResolution(r) ==
    /\ txnResolution' = IF resolution[r].isTxn \/ txnResolution # 0 THEN txnResolution ELSE r
    /\ resolution' =
         IF resolution[r].isTxn THEN resolution
         ELSE IF txnResolution = 0 THEN [resolution EXCEPT ![r].isTxn = TRUE]
         ELSE [resolution EXCEPT ![r].isTxn = TRUE, ![txnResolution].nextTxn = r]

\* A write into a new transaction gets a new shared promise.
CommitPromiseAfter(ended) == IF ended THEN 0 ELSE commitPromise

\* The address of the next worker.  Mutant: only the first delimiter ever sets it.
AddressOnce(r, ended) == IF ended /\ worker = <<>> THEN resolution[r].flagPosition ELSE startAddress
AddressAfter(r, ended) ==
    IF ended /\ startAddress = 0 THEN resolution[r].flagPosition ELSE startAddress

\* What the closure does once it knows the previous status of its word.
NoteWrite(r, seen) ==
    LET ended == TXN_DELIMITER \in seen
        count == outstandingWriteCount + 1
        address == AddressAfter(r, ended)
        newFlush == (ended \/ flushPromise = 0) /\ OverlappingSync /\ SeparateFlushed
        resolvers == flushResolvers \cup IF newFlush THEN {r} ELSE {}
        startNow == address # 0 /\ (EventTurnBatching \/ (enqueuedCommit /\ count > TxnStartThreshold))
    IN  /\ outstandingWriteCount' = count
        /\ commitPromise' = CommitPromiseAfter(ended)
        /\ flushPromise' = IF newFlush THEN r ELSE IF ended THEN 0 ELSE flushPromise
        /\ IF ended THEN QueueCommitResolution(r) ELSE UNCHANGED <<resolution, txnResolution>>
        /\ IF startNow
           THEN StartWriting(address, resolvers)
           ELSE /\ startAddress' = address
                /\ enqueuedCommit' = (enqueuedCommit \/ address # 0)
                /\ flushResolvers' = resolvers
                /\ UNCHANGED worker
        /\ call' = [call EXCEPT !.pc = IF count % ResolveInterval = 0 THEN "sweep" ELSE "promise"]
        /\ UNCHANGED <<reserveVars, batchVars, unwrittenResolution, uncommittedResolution,
                       nextTxnCallbacks, flushed, caller, lock, historyVars>>

CallSlot == resolution[call.res].flagPosition

\* Outside of every batch: Atomics.or returns the previous status.
PublishAtomic ==
    /\ call.pc = "publish" /\ instr[CallSlot].depth = 0
    /\ word' = [word EXCEPT ![CallSlot] = @ \cup {OP}]
    /\ NoteWrite(call.res, word[CallSlot])
    /\ UNCHANGED <<writeBatchStart, outstandingBatchCount>>

\* Inside a batch: a plain load, then a plain store that may lose what the
\* worker wrote in between.
PublishLoad ==
    /\ call.pc = "publish" /\ instr[CallSlot].depth > 0
    /\ call' = [call EXCEPT !.pc = "store", !.seen = word[CallSlot]]
    /\ UNCHANGED <<word, reserveVars, resolution, batchVars, writeBatchStart, outstandingBatchCount,
                   outstandingWriteCount, startVars, promiseVars, settleVars, caller, worker, lock,
                   historyVars>>

PublishStore ==
    LET counted == writeBatchStart # 0 /\ call.seen = {}
        early == counted /\ outstandingBatchCount + 1 > BatchStartThreshold
        noted == [call EXCEPT !.pc = "note"]
    IN  /\ call.pc = "store"
        /\ word' = [word EXCEPT ![CallSlot] = {OP}]
        /\ outstandingBatchCount' = IF early THEN 0
                                    ELSE IF counted THEN outstandingBatchCount + 1
                                    ELSE outstandingBatchCount
        /\ writeBatchStart' = IF early THEN 0 ELSE writeBatchStart
        /\ call' = IF early THEN WriteCall(writeBatchStart) ELSE noted
        /\ caller' = IF early THEN noted ELSE caller
        /\ UNCHANGED <<reserveVars, resolution, batchVars, outstandingWriteCount, startVars,
                       promiseVars, settleVars, worker, lock, historyVars>>

NotePlainWrite ==
    /\ call.pc = "note"
    /\ NoteWrite(call.res, call.seen)
    /\ UNCHANGED <<word, writeBatchStart, outstandingBatchCount>>

Conditional(r) == instr[resolution[r].flagPosition].kind \in {"WRITEIF", "COND"}

\* The end of the closure: pick the promise the caller gets.
AssignPromise ==
    LET r == call.res
        immediate == ~Conditional(r) /\ instr[CallSlot].depth > 1
        own == ~immediate /\ (Conditional(r) \/ commitPromise = 0)
    IN  /\ call.pc = "promise"
        /\ resolution' = [resolution EXCEPT
                            ![r].promise = IF immediate THEN PromiseSuccess
                                           ELSE IF own THEN r ELSE commitPromise,
                            ![r].flush = IF own /\ SeparateFlushed THEN flushPromise ELSE 0]
        /\ commitPromise' = IF own /\ ~Conditional(r) THEN r ELSE commitPromise
        /\ call' = caller
        /\ caller' = Idle
        /\ UNCHANGED <<word, reserveVars, batchVars, writeBatchStart, outstandingBatchCount,
                       outstandingWriteCount, startVars, flushPromise, settleVars, worker, lock,
                       historyVars>>

\* The setImmediate task queued by the closure.
RunEnqueuedCommit ==
    /\ EventLoopIdle /\ enqueuedCommit
    /\ StartWriting(startAddress, flushResolvers)
    /\ UNCHANGED <<word, reserveVars, resolution, batchVars, writeBatchStart, outstandingBatchCount,
                   outstandingWriteCount, promiseVars, settleVars, call, caller, lock, historyVars>>

-----------------------------------------------------------------------------
(* resolveWrites: one action per iteration of its two loops. *)

\* A delimiter keeps its buffer until it is settled.  Mutant: it does not.
LetGoAlways(r) == TRUE
LetGo(r) == ~resolution[r].isTxn

SweepNext ==
    LET r == unwrittenResolution
        status == word[resolution[r].flagPosition]
    IN  /\ call.pc = "sweep" /\ FINISHED_OPERATION \in status
        /\ nextTxnCallbacks' = nextTxnCallbacks \cup ({resolution[r].callbacks} \ {0})
        /\ resolution' = [resolution EXCEPT ![r].callbacks = 0, ![r].flag = status,
                                            ![r].released = LetGo(r)]
        /\ outstandingWriteCount' = outstandingWriteCount - 1
        /\ unwrittenResolution' = r + 1
        /\ UNCHANGED <<word, reserveVars, batchVars, writeBatchStart, outstandingBatchCount,
                       startVars, promiseVars, txnResolution, uncommittedResolution, flushed,
                       call, caller, worker, lock, historyVars>>

SweepEnd ==
    /\ call.pc = "sweep"
    /\ FINISHED_OPERATION \notin word[resolution[unwrittenResolution].flagPosition]
    /\ call' = [call EXCEPT !.pc = "settle"]
    /\ UNCHANGED <<word, reserveVars, resolution, batchVars, writeBatchStart, outstandingBatchCount,
                   outstandingWriteCount, startVars, promiseVars, settleVars, caller, worker, lock,
                   historyVars>>

TxnStatus == word[resolution[txnResolution].flagPosition] \cap {TXN_COMMITTED, TXN_FAILED}
TxnDone == txnResolution # 0 /\ TxnStatus # {}

\* resolveCommit and rejectCommit: settle every resolution before the delimiter.
SettleTxn ==
    LET outcome(r) == IF TXN_FAILED \in TxnStatus THEN "rejected"
                      ELSE IF FAILED_CONDITION \in resolution[r].flag /\ Conditional(r) THEN "false"
                      ELSE "true"
    IN  /\ call.pc = "settle" /\ TxnDone
        /\ resolution' = [r \in Slots |->
             IF r \in uncommittedResolution..(txnResolution - 1) /\ resolution[r].promise = r
             THEN [resolution[r] EXCEPT !.settled = outcome(r)] ELSE resolution[r]]
        /\ uncommittedResolution' = txnResolution
        /\ txnResolution' = resolution[txnResolution].nextTxn
        /\ UNCHANGED <<word, reserveVars, batchVars, writeBatchStart, outstandingBatchCount,
                       outstandingWriteCount, startVars, promiseVars, unwrittenResolution,
                       nextTxnCallbacks, flushed, call, caller, worker, lock, historyVars>>

SettleEnd ==
    /\ call.pc = "settle" /\ ~TxnDone
    /\ call' = [call EXCEPT !.pc = IF call.res = 0 THEN "status" ELSE "promise"]
    /\ UNCHANGED <<word, reserveVars, resolution, batchVars, writeBatchStart, outstandingBatchCount,
                   outstandingWriteCount, startVars, promiseVars, settleVars, caller, worker, lock,
                   historyVars>>

-----------------------------------------------------------------------------
(* WriteWorker: Write, DoWrites and WaitForCallbacks. *)

Fetched(w) == word[worker[w].pos]
Running(w) == worker[w].pc = "run"
Executes(w, kinds) == Running(w) /\ OP \in Fetched(w) /\ instr[worker[w].pos].kind \in kinds
Validated(w) == worker[w].depth = worker[w].validated

\* Write() takes writingLock and begins the transaction.
BeginTxn(w) ==
    /\ worker[w].pc = "queued" /\ lock = Free
    /\ lock' = w
    /\ worker' = [worker EXCEPT ![w].pc = "run"]
    /\ UNCHANGED <<word, jsVars, historyVars>>

\* The instruction at pos ran with this outcome: mark its word.  The first word
\* of a transaction is marked atomically, because the previous worker may still
\* have to mark it committed; the others by a load, here, and a store.
Executed(w, ok, worker2) ==
    LET s == worker[w].pos
        flags == {FINISHED_OPERATION} \cup IF ok THEN {} ELSE {FAILED_CONDITION}
    IN  /\ IF worker[w].overlappedWord
           THEN /\ word' = [word EXCEPT ![s] = @ \cup flags]
                /\ worker' = [worker2 EXCEPT ![w].pos = s + 1, ![w].overlappedWord = FALSE]
           ELSE /\ worker' = [worker2 EXCEPT ![w].pc = "store", ![w].loaded = word[s] \cup flags]
                /\ UNCHANGED word
        /\ txnOf' = [txnOf EXCEPT ![s] = w]
        /\ result' = [result EXCEPT ![s] = ok]
        /\ log' = Append(log, s)
        /\ UNCHANGED <<jsVars, lock, ranIn>>

StoreFinished(w) ==
    LET s == worker[w].pos
    IN  /\ worker[w].pc = "store"
        /\ word' = [word EXCEPT ![s] = worker[w].loaded]
        /\ worker' = [worker EXCEPT ![w].pc = "run", ![w].pos = s + 1, ![w].loaded = {}]
        /\ UNCHANGED <<jsVars, lock, historyVars>>

\* ReportError: the error waits for the completion, the transaction goes on.
ReportError(w) == [worker EXCEPT ![w].reported = TRUE]

\* PUT, DEL, DEL_VALUE and DROP_DB: rc is whether LMDB and the version
\* condition of the instruction itself succeed; any other error is reported.
ExecuteWrite(w) ==
    /\ Executes(w, {"WRITE", "REMOVE", "WRITEIF"})
    /\ \/ \E rc \in {b \in BOOLEAN : instr[worker[w].pos].kind # "WRITE" \/ b} :
            Executed(w, Validated(w) /\ rc, worker)
       \/ InstructionCanFail /\ Validated(w) /\ Executed(w, FALSE, ReportError(w))

\* START_BLOCK and START_CONDITION_BLOCK.
ExecuteStart(w) ==
    /\ Executes(w, {"START", "COND"})
    /\ \E met \in {b \in BOOLEAN : instr[worker[w].pos].kind = "COND" \/ b} :
         LET ok == Validated(w) /\ met
         IN  Executed(w, ok, [worker EXCEPT ![w].depth = @ + 1,
                                            ![w].validated = IF ok THEN @ + 1 ELSE @])

\* USER_CALLBACK: JavaScript has to run the callbacks before the commit.
ExecuteCall(w) ==
    /\ Executes(w, {"CALL"})
    /\ Executed(w, Validated(w),
                [worker EXCEPT ![w].finishedProgress = IF Validated(w) THEN FALSE ELSE @])

\* validatedDepth after BLOCK_END.  Mutant: it stays.
ValidatedKept(validated, depth) == validated
ValidatedAfterEnd(validated, depth) == IF validated > depth THEN validated - 1 ELSE validated

\* BLOCK_END gets no finished mark.
ExecuteEnd(w) ==
    LET s == worker[w].pos
        depth == worker[w].depth - 1
    IN  /\ Executes(w, {"END"})
        /\ worker' = [worker EXCEPT ![w].pos = s + 1, ![w].depth = depth,
                        ![w].validated = ValidatedAfterEnd(@, depth)]
        /\ txnOf' = [txnOf EXCEPT ![s] = w]
        /\ log' = Append(log, s)
        /\ UNCHANGED <<word, jsVars, lock, result, ranIn>>

\* Mutants: the worker closes the transaction inside a block, or before the user
\* callbacks ran.
MustWaitForCallbacks(w) == ~worker[w].finishedProgress
MustWaitInBlock(w) == worker[w].depth # 0
MustWait(w) == worker[w].depth # 0 \/ ~worker[w].finishedProgress

\* NO_INSTRUCTION_YET inside a block or with callbacks to run: wait, lock released.
WaitForOperation(w) ==
    /\ Running(w) /\ OP \notin Fetched(w) /\ MustWait(w)
    /\ word' = [word EXCEPT ![worker[w].pos] = {WAITING_OPERATION}]
    /\ worker' = [worker EXCEPT ![w].pc = "wait"]
    /\ lock' = Free
    /\ UNCHANGED <<jsVars, historyVars>>

\* The timed wait of WaitForCallbacks ends when it polls a reason to go on.
WakeUp(w) ==
    /\ worker[w].pc = "wait" /\ lock = Free
    /\ OP \in Fetched(w) \/ ~MustWait(w)
    /\ worker' = [worker EXCEPT ![w].pc = "run"]
    /\ lock' = w
    /\ UNCHANGED <<word, jsVars, historyVars>>

\* NO_INSTRUCTION_YET otherwise: close the transaction at this word.
Delimit(w) ==
    /\ Running(w) /\ OP \notin Fetched(w) /\ ~MustWait(w)
    /\ word' = [word EXCEPT ![worker[w].pos] = {TXN_DELIMITER}]
    /\ worker' = [worker EXCEPT ![w].pc = "commit", ![w].instructions = worker[w].pos]
    /\ UNCHANGED <<jsVars, lock, historyVars>>

Commit(w) ==
    /\ worker[w].pc = "commit"
    /\ \E outcome \in {"ok"} \cup IF CommitCanFail THEN {"failed"} ELSE {} :
         worker' = [worker EXCEPT ![w].pc = "report", ![w].outcome = outcome,
                                  ![w].durable = outcome = "ok" /\ ~OverlappingSync]
    /\ lock' = Free
    /\ UNCHANGED <<word, jsVars, historyVars>>

\* What the delimiter says before the sync.  Mutant: it says committed too early.
ReportedBitsEarly(failed) == IF failed THEN {TXN_FAILED} ELSE {TXN_COMMITTED}
ReportedBits(failed) ==
    IF failed THEN {TXN_FAILED}
    ELSE IF OverlappingSync /\ ~SeparateFlushed THEN {} ELSE {TXN_COMMITTED}

\* After the unlock: mark the delimiter, tell JavaScript, or go and sync first.
ReportCommit(w) ==
    LET failed == worker[w].outcome = "failed"
    IN  /\ worker[w].pc = "report"
        /\ word' = [word EXCEPT ![worker[w].instructions] = @ \cup ReportedBits(failed)]
        /\ worker' = [worker EXCEPT
             ![w].pc = IF OverlappingSync /\ ~failed THEN "sync" ELSE "done",
             ![w].progress = OverlappingSync /\ ~failed]
        /\ UNCHANGED <<jsVars, lock, historyVars>>

\* mdb_env_sync writes out everything committed so far; its result is ignored.
Sync(w) ==
    /\ worker[w].pc = "sync"
    /\ \E synced \in {TRUE} \cup IF SyncCanFail THEN {FALSE} ELSE {} :
         worker' = [v \in DOMAIN worker |->
                      [worker[v] EXCEPT !.durable = @ \/ (synced /\ worker[v].outcome = "ok"),
                                        !.pc = IF v = w THEN "done" ELSE @]]
    /\ word' = IF SeparateFlushed THEN word
               ELSE [word EXCEPT ![worker[w].instructions] = @ \cup {TXN_COMMITTED}]
    /\ UNCHANGED <<jsVars, lock, historyVars>>

-----------------------------------------------------------------------------
(* The callback given to env.startWriting, run by the event loop. *)

Callback(w, status) ==
    /\ EventLoopIdle
    /\ IF TXN_DELIMITER \in word[position] THEN QueueCommitResolution(nextResolution)
                                           ELSE UNCHANGED <<resolution, txnResolution>>
    /\ call' = CallbackCall(w, status)
    /\ UNCHANGED <<word, reserveVars, batchVars, writeBatchStart, outstandingBatchCount,
                   outstandingWriteCount, startVars, promiseVars, unwrittenResolution,
                   uncommittedResolution, nextTxnCallbacks, flushed, caller, historyVars>>

\* progressStatus of a commit not synced yet.  Mutant: it is reported as done.
ProgressDone == 0
ProgressCommitted == 1

\* Progress report 1: the commit is done, the sync is not.
CommitProgress(w) ==
    /\ worker[w].progress
    /\ Callback(w, ProgressCommitted)
    /\ worker' = [worker EXCEPT ![w].progress = FALSE]
    /\ UNCHANGED lock

\* Progress report 2: the worker waits for the user callbacks.
CallbackProgress(w) ==
    /\ worker[w].pc = "wait" /\ ~worker[w].finishedProgress /\ lock = Free
    /\ Callback(w, 2)
    /\ worker' = [worker EXCEPT ![w].finishedProgress = TRUE]
    /\ lock' = Js

\* Mutant: the completion is reported as progress.
CompletionAsProgress(w) == 1
CompletionStatus(w) == IF worker[w].outcome = "failed" \/ worker[w].reported THEN 3 ELSE 0

\* HandleOKCallback, or the error callback when the transaction failed or an
\* error of one of its instructions was reported.
Complete(w) ==
    /\ worker[w].pc = "done"
    /\ Callback(w, CompletionStatus(w))
    /\ worker' = [worker EXCEPT ![w].pc = "gone", ![w].progress = FALSE]
    /\ UNCHANGED lock

\* The switch on the status, after resolveWrites.
EndCallback ==
    /\ call.pc = "status"
    /\ flushed' = IF call.status = 0 THEN flushed \cup worker[call.worker].resolvers ELSE flushed
    /\ ranIn' = [s \in 1..MaxSlots |->
                   IF call.status = 2 /\ s \in nextTxnCallbacks THEN call.worker ELSE ranIn[s]]
    /\ nextTxnCallbacks' = IF call.status = 2 THEN {} ELSE nextTxnCallbacks
    /\ lock' = IF call.status = 2 THEN Free ELSE lock
    /\ call' = Idle
    /\ UNCHANGED <<word, reserveVars, resolution, batchVars, writeBatchStart, outstandingBatchCount,
                   outstandingWriteCount, startVars, promiseVars, txnResolution,
                   unwrittenResolution, uncommittedResolution, caller, worker, txnOf, result, log>>

-----------------------------------------------------------------------------
(* The specification. *)

CallStep ==
    \/ PublishAtomic \/ PublishLoad \/ PublishStore \/ NotePlainWrite \/ AssignPromise
    \/ SweepNext \/ SweepEnd \/ SettleTxn \/ SettleEnd \/ EndCallback

\* The step the JavaScript thread is about to take accesses no shared word.
LocalStepPending == call.pc \in {"note", "promise", "status"}

WorkerStep(w) ==
    \/ BeginTxn(w) \/ ExecuteWrite(w) \/ ExecuteStart(w) \/ ExecuteCall(w) \/ ExecuteEnd(w)
    \/ StoreFinished(w) \/ WaitForOperation(w) \/ WakeUp(w) \/ Delimit(w)
    \/ Commit(w) \/ ReportCommit(w) \/ Sync(w)

Next ==
    \/ \E kind \in Operations : Write(kind) \/ IfVersion(kind)
    \/ EndEventTurn \/ EndIfVersion \/ RunEnqueuedCommit \/ CallStep
    \/ \E w \in DOMAIN worker : \/ ~LocalStepPending /\ WorkerStep(w)
                                \/ CommitProgress(w) \/ CallbackProgress(w) \/ Complete(w)

Spec == Init /\ [][Next]_vars

\* Synchronous code returns, the event loop runs its queued tasks and the
\* completions of the thread pool, and every pool thread keeps running.
Fairness ==
    /\ WF_vars(CallStep) /\ WF_vars(EndEventTurn) /\ WF_vars(EndIfVersion)
    /\ WF_vars(RunEnqueuedCommit)
    /\ \A w \in 1..MaxSlots :   \* there are at most as many workers as slots
         /\ WF_vars(w \in DOMAIN worker /\ ~LocalStepPending /\ WorkerStep(w))
         /\ WF_vars(w \in DOMAIN worker /\ CallbackProgress(w))
         /\ WF_vars(w \in DOMAIN worker /\ Complete(w))

FairSpec == Spec /\ Fairness

-----------------------------------------------------------------------------
(* Properties. *)

TypeWord == word \in [Slots -> SUBSET Bits]
TypeReserve ==
    /\ instr \in [1..MaxSlots -> Instruction]
    /\ position \in Slots /\ nextResolution \in Slots
    /\ resolution \in [Slots -> Resolution]
TypeBatch ==
    /\ batchDepth \in Nat /\ blocks \in Seq(Slots) /\ enqueuedEventTurnBatch \in BOOLEAN
    /\ writeBatchStart \in 0..(MaxSlots + 1)
    /\ outstandingBatchCount \in Nat /\ outstandingWriteCount \in Int
TypeStart ==
    /\ startAddress \in 0..MaxSlots /\ enqueuedCommit \in BOOLEAN /\ flushResolvers \subseteq Slots
    /\ commitPromise \in 0..(MaxSlots + 1) /\ flushPromise \in 0..(MaxSlots + 1)
TypeSettle ==
    /\ txnResolution \in 0..(MaxSlots + 1) /\ unwrittenResolution \in Slots
    /\ uncommittedResolution \in 0..(MaxSlots + 1)
    /\ nextTxnCallbacks \subseteq Slots /\ flushed \subseteq Slots
TypeCall == call \in Call /\ caller \in Call
TypeWorker == worker \in Seq(Worker) /\ lock \in Nat \cup {Js}
TypeHistory ==
    /\ txnOf \in [1..MaxSlots -> Nat] /\ result \in [1..MaxSlots -> BOOLEAN]
    /\ log \in Seq(Slots) /\ ranIn \in [1..MaxSlots -> Nat]

(* Every variable of the queue keeps its type: in particular no reservation, *)
(* no worker and no cursor of resolveWrites ever runs past the reserved      *)
(* slots.                                                                    *)
TypeOK ==
    /\ TypeWord /\ TypeReserve /\ TypeBatch /\ TypeStart
    /\ TypeSettle /\ TypeCall /\ TypeWorker /\ TypeHistory

(* Every published instruction is executed exactly once and in slot order,   *)
(* whichever worker runs it and however often one worker hands over to the   *)
(* next at a delimiter (write.js closure, DoWrites).                         *)
ExecutedInOrder == \A i \in 1..Len(log) : log[i] = i

\* The slots of the blocks around slot s.
EnclosingSlots(s) == {resolution[instr[s].within[i]].flagPosition : i \in DOMAIN instr[s].within}

(* A transaction never ends inside a block: all instructions of an event     *)
(* turn, of a batch() or of an ifVersion() block run in the transaction that *)
(* ran the start of the block.                                               *)
BlockAtomic ==
    \A s \in 1..MaxSlots : txnOf[s] # 0 => \A b \in EnclosingSlots(s) : txnOf[b] = txnOf[s]

\* Instructions that take effect whenever the worker does not skip them.
Unconditional == {"CALL", "START"} \cup IF InstructionCanFail THEN {} ELSE {"WRITE"}

(* conditionDepth and validatedDepth of DoWrites implement nesting: an       *)
(* instruction takes effect only if the condition of every block around it   *)
(* was met, and an unconditional one always does when they all were.         *)
ConditionsNest ==
    \A s \in 1..MaxSlots : txnOf[s] # 0 /\ instr[s].kind # "END" =>
        LET met == \A b \in EnclosingSlots(s) : result[b]
        IN  /\ result[s] => met
            /\ met /\ instr[s].kind \in Unconditional => result[s]

SettledAs(r) == IF resolution[r].promise > 0 THEN resolution[resolution[r].promise].settled
                                             ELSE "pending"

(* queueCommitResolution has one link per delimiter: when two later ones     *)
(* arrive before resolveWrites settles the first, the second replaces the    *)
(* link to the first.  A transaction that ended at a delimiter strictly      *)
(* inside a link is bypassed: it is settled with the next one in the chain.  *)
Bypassed(s) ==
    \E q \in Slots :
        /\ resolution[q].nextTxn # 0 /\ resolution[q].flagPosition <= s
        /\ worker[txnOf[s]].instructions < resolution[resolution[q].nextTxn].flagPosition

(* A settled promise tells the truth about the write it was returned for,    *)
(* also when it is shared by many writes: its transaction has ended; if it   *)
(* was not bypassed, true or false means that it committed and a rejection   *)
(* that it failed; and a conditional write that is not rejected is answered  *)
(* true exactly when its condition was met.                                  *)
PromiseTruth ==
    \A r \in Slots : SettledAs(r) # "pending" =>
        LET s == resolution[r].flagPosition
            outcome == worker[txnOf[s]].outcome
        IN  /\ txnOf[s] # 0 /\ outcome # "none"
            /\ ~Bypassed(s) => outcome = IF SettledAs(r) = "rejected" THEN "failed" ELSE "ok"
            /\ Conditional(r) /\ SettledAs(r) # "rejected" => (SettledAs(r) = "true") = result[s]

(* resolveWrites never touches a resolution it has let go: the delimiter it  *)
(* reads still has its buffer, is ahead of everything settled, and nothing   *)
(* is passed by before its promise was assigned.                             *)
SettleCursor ==
    /\ txnResolution # 0 => /\ ~resolution[txnResolution].released
                            /\ uncommittedResolution < txnResolution
    /\ \A r \in 1..(uncommittedResolution - 1) : resolution[r].promise # NoPromise

(* A user callback of transaction() that takes effect, because every         *)
(* condition around it was met, runs in the transaction that contains its    *)
(* instruction: before the commit, and in no other transaction.              *)
EffectiveInOwnTxn ==
    \A s \in 1..MaxSlots : instr[s].kind = "CALL" /\ result[s] =>
        /\ ranIn[s] # 0 => txnOf[s] = ranIn[s]
        /\ txnOf[s] # 0 /\ worker[txnOf[s]].outcome # "none" => ranIn[s] = txnOf[s]

(* A flush promise resolves only when all the writes whose promise carries   *)
(* it were executed and their transactions are on disk, but for those whose  *)
(* commit failed.                                                            *)
FlushedIsDurable ==
    \A r \in Slots :
        resolution[r].promise > 0 /\ resolution[resolution[r].promise].flush \in flushed =>
            LET t == txnOf[resolution[r].flagPosition]
            IN  t # 0 /\ (worker[t].durable \/ worker[t].outcome = "failed")

(* Without a separate flush promise, a write that is reported as done is on  *)
(* disk, unless its transaction was bypassed and failed.                     *)
ResolvedIsDurable ==
    ~SeparateFlushed =>
        \A r \in Slots : SettledAs(r) \in {"true", "false"} =>
            LET s == resolution[r].flagPosition
                ran == worker[txnOf[s]]
            IN  ran.durable \/ (Bypassed(s) /\ ran.outcome = "failed")

\* Workers that have not closed their transaction, and delimiters nobody has
\* published into.
ActiveWorkers == {w \in DOMAIN worker : worker[w].pc \in {"queued", "run", "store", "wait"}}
OpenDelimiters == {s \in Slots : TXN_DELIMITER \in word[s] /\ OP \notin word[s]}

(* The right to continue the queue is never lost and never duplicated: it    *)
(* is held by one worker that has not delimited its transaction, or by the   *)
(* pending start address, or by the one delimiter nobody has published into. *)
HandoffUnique ==
    \/ startAddress = 0 /\ OpenDelimiters = {} /\ \E w \in DOMAIN worker : ActiveWorkers = {w}
    \/ startAddress # 0 /\ OpenDelimiters = {} /\ ActiveWorkers = {}
    \/ startAddress = 0 /\ ActiveWorkers = {} /\ \E s \in Slots : OpenDelimiters = {s}

(* Every write the program made is executed and its promise is settled.      *)
EveryWriteSettles ==
    \A r \in Slots :
        (r < nextResolution) ~> (resolution[r].promise = PromiseSuccess \/ SettledAs(r) # "pending")

Delivers(w, f) == w \in DOMAIN worker /\ f \in worker[w].resolvers

(* A flush promise that some worker took along when it started is resolved,  *)
(* unless the transaction of that worker failed or an instruction of it was  *)
(* refused: no turn or block leaves the worker waiting, and no worker ends   *)
(* without telling JavaScript.                                               *)
HandedFlushResolves ==
    \A f \in Slots : (\E w \in 1..MaxSlots : Delivers(w, f)) ~>
        \/ f \in flushed
        \/ \E w \in 1..MaxSlots :
              Delivers(w, f) /\ (worker[w].outcome = "failed" \/ worker[w].reported)

-----------------------------------------------------------------------------
(* What the documentation says and the code does not keep. *)

(* README on put: the promise resolves once the transaction has finished     *)
(* committing.  A write that is answered true or false was committed.        *)
ResolvedIsCommitted ==
    \A r \in Slots : SettledAs(r) \in {"true", "false"} =>
        worker[txnOf[resolution[r].flagPosition]].outcome = "ok"

(* README on put: the promise resolves to true if the put was successful.    *)
TrueIsWritten ==
    \A r \in Slots : SettledAs(r) = "true" =>
        LET s == resolution[r].flagPosition IN instr[s].kind = "WRITE" => result[s]

(* README on transaction(): the callback runs in the transaction of the      *)
(* operations queued with it.  A callback runs in no other transaction than  *)
(* the one that contains its instruction.                                    *)
CallbackInOwnTxn ==
    \A s \in 1..MaxSlots : instr[s].kind = "CALL" /\ ranIn[s] # 0 => txnOf[s] = ranIn[s]

(* README on flushed: it is resolved when the transaction has been flushed.  *)
(* Every flush promise that was returned is resolved, unless the write was   *)
(* rejected.                                                                 *)
EveryFlushResolves ==
    \A r \in Slots : (resolution[r].promise = r /\ resolution[r].flush # 0) ~>
        (resolution[r].flush \in flushed \/ resolution[r].settled = "rejected")

=============================================================================
