-------------------------- MODULE WriteQueueProofs --------------------------
(***************************************************************************)
(* Proofs about WriteQueue, for every value of its constants: its types,    *)
(* the uniqueness of the right to continue the queue (HandoffUnique) and    *)
(* execution exactly once and in order (ExecutedInOrder); then, relative to *)
(* these, the blocks and the cursors of resolveWrites.  A block runs in one *)
(* transaction (BlockAtomic), conditionDepth and validatedDepth of DoWrites *)
(* implement nested conditions (ConditionsNest), and the cursors are never  *)
(* at a resolution that was let go, nor pass by one whose promise was not   *)
(* assigned (SettleCursor).  Last, what a step of a worker does to the      *)
(* history of transactions (HistoryInv), for WriteQueueTruthProofs.         *)
(***************************************************************************)
EXTENDS WriteQueue, SequenceTheorems, TLAPS

-----------------------------------------------------------------------------
(* The inductive invariant. *)

FP(r) == resolution[r].flagPosition
Reserved == 1..(nextResolution - 1)      \* the resolutions of reserved slots
Published(r) == OP \in word[FP(r)]

\* Number of blocks open at a slot, and how an instruction changes it.
Nest(s) == IF s < position THEN Len(instr[s].within) ELSE Len(blocks)
Delta(s) == IF instr[s].kind \in {"START", "COND"} THEN 1
            ELSE IF instr[s].kind = "END" THEN -1 ELSE 0

\* batchDepth counts the open blocks, and every one of them still has room for
\* its BLOCK_END.
BatchInv ==
    /\ enqueuedEventTurnBatch => EventTurnBatching /\ Len(blocks) > 0
    /\ EventTurnBatching /\ ~enqueuedEventTurnBatch => Len(blocks) = 0
    /\ batchDepth = 2 * Len(blocks) - IF enqueuedEventTurnBatch THEN 1 ELSE 0
    /\ position + Len(blocks) <= MaxSlots + 1
    /\ \A i \in 1..Len(blocks) : /\ blocks[i] \in Reserved
                                 /\ Len(instr[FP(blocks[i])].within) = i - 1

\* Resolutions point at distinct reserved slots that are no BLOCK_END; the
\* placeholder points at the next free one.
ResolutionInv ==
    /\ nextResolution <= position
    /\ FP(nextResolution) = position
    /\ \A r \in Reserved : /\ FP(r) \in 1..(position - 1)
                           /\ instr[FP(r)].kind # "END"
                           /\ instr[FP(r)].depth = 0 <=> Len(instr[FP(r)].within) = 0
    /\ \A r, q \in Reserved : FP(r) = FP(q) => r = q
    /\ unwrittenResolution <= nextResolution

\* Nothing is published in a slot not reserved yet, and only what was published
\* is finished.
WordInv ==
    \A s \in Slots : /\ s >= position => OP \notin word[s]
                     /\ s > position => word[s] = {}
                     /\ FINISHED_OPERATION \in word[s] => OP \in word[s]

\* The blocks recorded for consecutive slots agree with the instructions.
NestInv == \A s \in 1..(position - 1) : Nest(s + 1) = Nest(s) + Delta(s)

\* The running closure publishes a reserved slot that is not published yet.
CallInv ==
    /\ call.pc \in {"publish", "store", "note", "promise"} => call.res \in Reserved
    /\ call.res \in 0..(nextResolution - 1)
    /\ call.pc \in {"publish", "store"} => ~Published(call.res)
    /\ call.pc = "store" => instr[FP(call.res)].depth > 0
    /\ call.pc \in {"publish", "store"} /\ Len(blocks) = 0 => instr[FP(call.res)].depth = 0
    /\ call.pc \in {"store", "note"} => TXN_DELIMITER \notin call.seen
    /\ call.pc = "status" => call.res = 0
    /\ call.pc # "idle" /\ call.res = 0 => call.worker \in DOMAIN worker
    /\ caller.pc \in {"idle", "note"} /\ caller.res \in 0..(nextResolution - 1)
    /\ caller.pc = "note" => /\ caller.res \in Reserved /\ call.res # 0
                             /\ TXN_DELIMITER \notin caller.seen
                             /\ call.pc \notin {"idle", "store", "note"}
                             /\ call.pc = "publish" => instr[FP(call.res)].depth = 0

\* The deferred start of the outermost open block is not published yet.
DeferredInv ==
    writeBatchStart # 0 /\ Len(blocks) > 0 =>
        /\ writeBatchStart \in Reserved
        /\ ~Published(writeBatchStart)
        /\ instr[FP(writeBatchStart)].depth = 0
        /\ call.pc \in {"publish", "store"} => call.res # writeBatchStart

\* A published slot has its promise or its closure is still running.
PromiseInv ==
    \A r \in Reserved : Published(r) =>
        \/ resolution[r].promise # NoPromise
        \/ call.res = r /\ call.pc \in {"note", "sweep", "settle", "promise"}
        \/ caller.res = r /\ caller.pc = "note"

\* Whoever holds the right to continue is at the first slot not executed, at
\* the depth that slot has.
AtFrontier(s) == s = Len(log) + 1 /\ s <= position /\ Nest(s) = 0
WorkerAtFrontier(w) ==
    IF worker[w].pc = "store"
    THEN /\ worker[w].pos = Len(log)
         /\ OP \in word[worker[w].pos] /\ OP \in worker[w].loaded
         /\ worker[w].depth = Nest(worker[w].pos + 1)
    ELSE /\ worker[w].pos = Len(log) + 1
         /\ worker[w].pos <= position
         /\ worker[w].depth = Nest(worker[w].pos)
FrontierInv ==
    /\ \A s \in OpenDelimiters : AtFrontier(s)
    /\ startAddress # 0 => AtFrontier(startAddress)
    /\ \A w \in ActiveWorkers : WorkerAtFrontier(w)
    /\ \A w \in DOMAIN worker : worker[w].instructions <= position
    /\ enqueuedCommit => startAddress # 0
    /\ Len(log) < position

IInv ==
    /\ TypeOK /\ BatchInv /\ ResolutionInv /\ WordInv /\ NestInv /\ CallInv /\ DeferredInv
    /\ PromiseInv /\ HandoffUnique /\ FrontierInv /\ ExecutedInOrder

-----------------------------------------------------------------------------
(* Sequences and records. *)

\* Replacing an element keeps a sequence a sequence of the same length.
LEMMA SeqExcept ==
    ASSUME NEW S, NEW seq \in Seq(S), NEW i \in DOMAIN seq, NEW e \in S
    PROVE  /\ [seq EXCEPT ![i] = e] \in Seq(S)
           /\ Len([seq EXCEPT ![i] = e]) = Len(seq)
BY DOMAIN seq = 1..Len(seq)

\* Appending to a sequence.
LEMMA SeqAppend ==
    ASSUME NEW S, NEW seq \in Seq(S), NEW e \in S
    PROVE  /\ Append(seq, e) \in Seq(S)
           /\ Len(seq) \in Nat /\ DOMAIN seq = 1..Len(seq)
           /\ DOMAIN Append(seq, e) = 1..(Len(seq) + 1)
           /\ Append(seq, e)[Len(seq) + 1] = e
           /\ \A i \in 1..Len(seq) : Append(seq, e)[i] = seq[i]
OBVIOUS

\* All elements but the last.
LEMMA SeqFront ==
    ASSUME NEW S, NEW seq \in Seq(S), Len(seq) > 0
    PROVE  LET front == SubSeq(seq, 1, Len(seq) - 1)
           IN  /\ front \in Seq(S) /\ Len(front) = Len(seq) - 1
               /\ \A i \in 1..Len(front) : front[i] = seq[i]
<1>1. PICK n \in Nat : n = Len(seq) - 1 BY Len(seq) \in Nat
<1>2. \A i \in 1..n : seq[i] \in S BY <1>1
<1>3. /\ SubSeq(seq, 1, n) \in Seq(S)
      /\ Len(SubSeq(seq, 1, n)) = IF 1 <= n THEN n - 1 + 1 ELSE 0
      /\ \A i \in 1..(n - 1 + 1) : SubSeq(seq, 1, n)[i] = seq[1 + i - 1]
  BY <1>2, SubSeqProperties
<1>4. Len(SubSeq(seq, 1, n)) = n /\ \A i \in 1..n : SubSeq(seq, 1, n)[i] = seq[i]
  BY <1>3
<1> QED BY <1>1, <1>3, <1>4

\* A worker's record has the type of its fields.
LEMMA WorkerTypes ==
    ASSUME TypeOK, NEW w \in DOMAIN worker
    PROVE  worker[w] \in Worker /\ w \in Nat
BY DEF TypeOK, TypeWorker

\* One worker is replaced: what that says about the sequence of all of them.
LEMMA WorkerUpdate ==
    ASSUME TypeOK, NEW w \in DOMAIN worker, NEW e \in Worker, worker' = [worker EXCEPT ![w] = e]
    PROVE  /\ worker' \in Seq(Worker)
           /\ DOMAIN worker' = DOMAIN worker
           /\ worker'[w] = e
           /\ \A v \in DOMAIN worker : v # w => worker'[v] = worker[v]
BY SeqExcept DEF TypeOK, TypeWorker

-----------------------------------------------------------------------------
(* Steps of the workers leave the JavaScript state alone. *)

\* What a worker may do to the words: it never publishes or unpublishes.
WorkerWords ==
    /\ word' \in [Slots -> SUBSET Bits]
    /\ \A s \in Slots : /\ OP \in word'[s] <=> OP \in word[s]
                        /\ s > position => word'[s] = {}
                        /\ FINISHED_OPERATION \in word'[s] => OP \in word'[s]

JsInv == BatchInv /\ ResolutionInv /\ WordInv /\ NestInv /\ CallInv /\ DeferredInv /\ PromiseInv
JsTypes == TypeReserve /\ TypeBatch /\ TypeStart /\ TypeSettle /\ TypeCall

\* A worker step keeps the part of the invariant about the JavaScript thread.
LEMMA JsUnchanged ==
    ASSUME IInv, WorkerWords, UNCHANGED jsVars, DOMAIN worker' = DOMAIN worker
    PROVE  JsTypes' /\ TypeWord' /\ JsInv' /\ \A s : Nest(s)' = Nest(s)
<1> USE DEF jsVars, reserveVars, batchVars, startVars, promiseVars, settleVars
<1>1. JsTypes'
  BY DEF IInv, TypeOK, JsTypes, TypeReserve, TypeBatch, TypeStart, TypeSettle, TypeCall
<1>2. TypeWord' /\ \A s : Nest(s)' = Nest(s)
  BY DEF WorkerWords, TypeWord, Nest
<1>3. BatchInv'
  BY DEF IInv, BatchInv, Reserved, FP
<1>4. ResolutionInv'
  BY DEF IInv, ResolutionInv, Reserved, FP
<1>5. WordInv'
  BY DEF IInv, WordInv, WorkerWords
<1>6. NestInv'
  BY DEF IInv, NestInv, Nest, Delta
<1>7. \A r \in Reserved : Published(r)' <=> Published(r)
  <2> TAKE r \in Reserved
  <2>1. FP(r) \in Slots
    BY BoundsAssumption DEF IInv, TypeOK, TypeReserve, ResolutionInv, Slots
  <2> QED BY <2>1 DEF WorkerWords, Published, FP
<1>8. CallInv' /\ DeferredInv' /\ PromiseInv'
  BY <1>7 DEF IInv, CallInv, DeferredInv, PromiseInv, Reserved, FP
<1> QED BY <1>1, <1>2, <1>3, <1>4, <1>5, <1>6, <1>8 DEF JsInv

\* An active worker is the only one, and nobody else may continue the queue.
LEMMA OneActive ==
    ASSUME HandoffUnique, NEW w \in DOMAIN worker, worker[w].pc \in {"queued", "run", "store", "wait"}
    PROVE  ActiveWorkers = {w} /\ startAddress = 0 /\ OpenDelimiters = {}
BY DEF HandoffUnique, ActiveWorkers

\* A step that changes neither who is active nor the open delimiters.
LEMMA SameToken ==
    ASSUME HandoffUnique, UNCHANGED startAddress, DOMAIN worker' = DOMAIN worker,
           ActiveWorkers' = ActiveWorkers, OpenDelimiters' = OpenDelimiters
    PROVE  HandoffUnique'
BY DEF HandoffUnique

\* The parts of the invariant a worker step has to prove itself.
LEMMA WorkerStepInv ==
    ASSUME IInv, WorkerWords, UNCHANGED jsVars, DOMAIN worker' = DOMAIN worker,
           TypeWorker', TypeHistory', HandoffUnique', FrontierInv', ExecutedInOrder'
    PROVE  IInv'
BY JsUnchanged DEF IInv, TypeOK, JsTypes, JsInv

\* Steps of one worker that touch only its record and the lock.
LEMMA LocalWorkerStep ==
    ASSUME IInv, NEW w \in DOMAIN worker, BeginTxn(w) \/ WakeUp(w) \/ Commit(w)
    PROVE  IInv'
<1>1. PICK e \in Worker : /\ worker' = [worker EXCEPT ![w] = e]
                          /\ e.pc \in {"queued", "run", "store", "wait"} <=>
                             worker[w].pc \in {"queued", "run", "store", "wait"}
                          /\ e.pc # "store" /\ worker[w].pc # "store"
                          /\ e.pos = worker[w].pos /\ e.depth = worker[w].depth
                          /\ e.instructions = worker[w].instructions
  <2>1. worker[w] \in Worker BY WorkerTypes DEF IInv
  <2>2. CASE BeginTxn(w) \/ WakeUp(w)
    <3> DEFINE f == [worker[w] EXCEPT !.pc = "run"]
    <3>1. f \in Worker /\ f.pos = worker[w].pos /\ f.depth = worker[w].depth /\ f.pc = "run"
          /\ f.instructions = worker[w].instructions
      BY <2>1 DEF Worker
    <3>2. worker' = [worker EXCEPT ![w] = f] /\ worker[w].pc \in {"queued", "wait"}
      BY <2>2 DEF BeginTxn, WakeUp
    <3> QED BY <3>1, <3>2
  <2>3. CASE Commit(w)
    <3>1. PICK outcome \in {"ok", "failed"} :
            worker' = [worker EXCEPT ![w].pc = "report", ![w].outcome = outcome,
                                     ![w].durable = outcome = "ok" /\ ~OverlappingSync]
      BY <2>3 DEF Commit
    <3> DEFINE f == [worker[w] EXCEPT !.pc = "report", !.outcome = outcome,
                                      !.durable = outcome = "ok" /\ ~OverlappingSync]
    <3>2. f \in Worker /\ f.pos = worker[w].pos /\ f.depth = worker[w].depth /\ f.pc = "report"
          /\ f.instructions = worker[w].instructions
      BY <2>1 DEF Worker
    <3>3. worker' = [worker EXCEPT ![w] = f] /\ worker[w].pc = "commit"
      BY <2>3, <3>1 DEF Commit
    <3> QED BY <3>2, <3>3
  <2> QED BY <2>2, <2>3
<1>2. UNCHANGED <<word, jsVars, historyVars>> /\ lock' \in {w, Free}
  BY DEF BeginTxn, WakeUp, Commit
<1> USE DEF jsVars, startVars, reserveVars, batchVars, historyVars
<1>3. WorkerWords
  BY <1>2 DEF IInv, TypeOK, TypeWord, WorkerWords, WordInv
<1>4. /\ worker' \in Seq(Worker) /\ DOMAIN worker' = DOMAIN worker /\ worker'[w] = e
      /\ \A v \in DOMAIN worker : v # w => worker'[v] = worker[v]
  BY <1>1, WorkerUpdate DEF IInv
<1>5. ActiveWorkers' = ActiveWorkers /\ OpenDelimiters' = OpenDelimiters
  BY <1>1, <1>2, <1>4 DEF ActiveWorkers, OpenDelimiters
<1>6. HandoffUnique'
  BY <1>2, <1>4, <1>5, SameToken DEF IInv
<1>7. FrontierInv'
  <2>1. \A v \in ActiveWorkers' : WorkerAtFrontier(v)'
    <3> TAKE v \in ActiveWorkers'
    <3>1. v \in DOMAIN worker /\ v \in ActiveWorkers /\ WorkerAtFrontier(v)
      BY <1>5 DEF IInv, FrontierInv, ActiveWorkers
    <3>2. /\ worker'[v].pos = worker[v].pos /\ worker'[v].depth = worker[v].depth
          /\ worker'[v].pc = "store" <=> worker[v].pc = "store"
          /\ worker'[v].pc = "store" => worker'[v].loaded = worker[v].loaded
      BY <1>1, <1>4, <3>1
    <3> QED BY <1>2, <3>1, <3>2 DEF WorkerAtFrontier, Nest
  <2>2. \A v \in DOMAIN worker' : worker'[v].instructions <= position'
    BY <1>1, <1>2, <1>4 DEF IInv, FrontierInv
  <2> QED BY <1>2, <1>5, <2>1, <2>2 DEF IInv, FrontierInv, AtFrontier, Nest
<1>8. TypeWorker'
  <2>1. w \in Nat BY WorkerTypes DEF IInv
  <2> QED BY <1>2, <1>4, <2>1 DEF TypeWorker, Free
<1>9. TypeHistory' /\ ExecutedInOrder'
  BY <1>2 DEF IInv, TypeOK, TypeHistory, ExecutedInOrder
<1> QED BY <1>2, <1>3, <1>4, <1>6, <1>7, <1>8, <1>9, WorkerStepInv

\* A running worker is at a slot that exists, and it is the only one.
LEMMA RunningWorker ==
    ASSUME IInv, NEW w \in DOMAIN worker, worker[w].pc = "run"
    PROVE  /\ worker[w] \in Worker /\ w \in Nat
           /\ worker[w].pos \in Slots /\ worker[w].pos <= position
           /\ worker[w].pos = Len(log) + 1 /\ worker[w].depth = Nest(worker[w].pos)
           /\ ActiveWorkers = {w} /\ startAddress = 0 /\ OpenDelimiters = {}
<1>1. worker[w] \in Worker /\ w \in Nat BY WorkerTypes DEF IInv
<1>2. ActiveWorkers = {w} /\ startAddress = 0 /\ OpenDelimiters = {} BY OneActive DEF IInv
<1>3. WorkerAtFrontier(w) BY <1>2 DEF IInv, FrontierInv
<1> QED BY <1>1, <1>2, <1>3 DEF WorkerAtFrontier, Worker

\* Waiting: the word of the slot only gets WAITING_OPERATION.
LEMMA WaitStep ==
    ASSUME IInv, NEW w \in DOMAIN worker, WaitForOperation(w)
    PROVE  IInv'
<1> DEFINE e == [worker[w] EXCEPT !.pc = "wait"]
<1>1. /\ worker[w].pc = "run" /\ OP \notin word[worker[w].pos]
      /\ word' = [word EXCEPT ![worker[w].pos] = {WAITING_OPERATION}]
      /\ worker' = [worker EXCEPT ![w] = e]
      /\ lock' = Free /\ UNCHANGED <<jsVars, historyVars>>
  BY DEF WaitForOperation, Running, Fetched
<1>2. /\ worker[w] \in Worker /\ worker[w].pos \in Slots /\ worker[w].pos <= position
      /\ worker[w].pos = Len(log) + 1 /\ worker[w].depth = Nest(worker[w].pos)
      /\ ActiveWorkers = {w} /\ startAddress = 0 /\ OpenDelimiters = {}
  BY <1>1, RunningWorker
<1>3. /\ e \in Worker /\ e.pc = "wait" /\ e.pos = worker[w].pos /\ e.depth = worker[w].depth
      /\ e.instructions = worker[w].instructions
  BY <1>2 DEF Worker
<1> HIDE DEF e
<1>4. /\ worker' \in Seq(Worker) /\ DOMAIN worker' = DOMAIN worker /\ worker'[w] = e
      /\ \A v \in DOMAIN worker : v # w => worker'[v] = worker[v]
  BY <1>1, <1>3, WorkerUpdate DEF IInv
<1>5. WorkerWords
  BY <1>1, <1>2 DEF IInv, TypeOK, TypeWord, TypeReserve, WorkerWords, WordInv, Slots, Bits,
     WAITING_OPERATION, OP, FINISHED_OPERATION
<1>6. ActiveWorkers' = {w} /\ OpenDelimiters' = {} /\ UNCHANGED startAddress
  BY <1>1, <1>2, <1>3, <1>4
  DEF IInv, TypeOK, TypeWord, ActiveWorkers, OpenDelimiters, WAITING_OPERATION, OP, TXN_DELIMITER,
      jsVars, startVars
<1>7. HandoffUnique'
  BY <1>2, <1>4, <1>6, SameToken DEF IInv
<1>8. FrontierInv'
  BY <1>1, <1>2, <1>3, <1>4, <1>6
  DEF IInv, FrontierInv, AtFrontier, WorkerAtFrontier, Nest, jsVars, startVars, reserveVars,
      batchVars, historyVars
<1>9. TypeWorker' /\ TypeHistory' /\ ExecutedInOrder'
  BY <1>1, <1>4 DEF IInv, TypeOK, TypeWorker, TypeHistory, ExecutedInOrder, Free, historyVars
<1> QED BY <1>1, <1>4, <1>5, <1>7, <1>8, <1>9, WorkerStepInv

\* Closing the transaction turns the active worker into an open delimiter.
LEMMA DelimitStep ==
    ASSUME IInv, NEW w \in DOMAIN worker, Delimit(w)
    PROVE  IInv'
<1> DEFINE s == worker[w].pos
           e == [worker[w] EXCEPT !.pc = "commit", !.instructions = worker[w].pos]
<1>1. /\ worker[w].pc = "run" /\ OP \notin word[s] /\ worker[w].depth = 0
      /\ word' = [word EXCEPT ![s] = {TXN_DELIMITER}]
      /\ worker' = [worker EXCEPT ![w] = e]
      /\ UNCHANGED <<jsVars, lock, historyVars>>
  BY DEF Delimit, Running, Fetched, MustWait
<1>2. /\ worker[w] \in Worker /\ s \in Slots /\ s <= position
      /\ s = Len(log) + 1 /\ worker[w].depth = Nest(s)
      /\ ActiveWorkers = {w} /\ startAddress = 0 /\ OpenDelimiters = {}
  BY <1>1, RunningWorker
<1>3. e \in Worker /\ e.pc = "commit" /\ e.instructions = s
  BY <1>2 DEF Worker
<1> HIDE DEF e
<1>4. /\ worker' \in Seq(Worker) /\ DOMAIN worker' = DOMAIN worker /\ worker'[w] = e
      /\ \A v \in DOMAIN worker : v # w => worker'[v] = worker[v]
  BY <1>1, <1>3, WorkerUpdate DEF IInv
<1>5. WorkerWords
  BY <1>1, <1>2 DEF IInv, TypeOK, TypeWord, TypeReserve, WorkerWords, WordInv, Slots, Bits,
     TXN_DELIMITER, OP, FINISHED_OPERATION
<1>6. ActiveWorkers' = {} /\ OpenDelimiters' = {s} /\ startAddress' = 0
  BY <1>1, <1>2, <1>3, <1>4
  DEF IInv, TypeOK, TypeWord, ActiveWorkers, OpenDelimiters, OP, TXN_DELIMITER, jsVars, startVars
<1>7. HandoffUnique'
  BY <1>2, <1>6 DEF HandoffUnique
<1>8. FrontierInv'
  BY <1>1, <1>2, <1>3, <1>4, <1>6
  DEF IInv, FrontierInv, AtFrontier, Nest, jsVars, startVars, reserveVars, batchVars, historyVars
<1>9. TypeWorker' /\ TypeHistory' /\ ExecutedInOrder'
  BY <1>1, <1>4 DEF IInv, TypeOK, TypeWorker, TypeHistory, ExecutedInOrder, historyVars
<1> QED BY <1>1, <1>4, <1>5, <1>7, <1>8, <1>9, WorkerStepInv

\* The store that marks a plain word as finished.
LEMMA StoreStep ==
    ASSUME IInv, NEW w \in DOMAIN worker, StoreFinished(w)
    PROVE  IInv'
<1> DEFINE s == worker[w].pos
           e == [worker[w] EXCEPT !.pc = "run", !.pos = s + 1, !.loaded = {}]
<1>1. /\ worker[w].pc = "store"
      /\ word' = [word EXCEPT ![s] = worker[w].loaded]
      /\ worker' = [worker EXCEPT ![w] = e]
      /\ UNCHANGED <<jsVars, lock, historyVars>>
  BY DEF StoreFinished
<1>2. /\ worker[w] \in Worker /\ ActiveWorkers = {w} /\ startAddress = 0 /\ OpenDelimiters = {}
      /\ WorkerAtFrontier(w)
  BY <1>1, OneActive, WorkerTypes DEF IInv, FrontierInv
<1>3. /\ s \in Slots /\ s = Len(log) /\ OP \in word[s] /\ OP \in worker[w].loaded
      /\ worker[w].depth = Nest(s + 1) /\ worker[w].loaded \in SUBSET Bits
  BY <1>1, <1>2 DEF WorkerAtFrontier, Worker
<1>4. s < position /\ s + 1 \in Slots
  BY <1>3, BoundsAssumption DEF IInv, TypeOK, TypeReserve, WordInv, Slots
<1>5. /\ e \in Worker /\ e.pc = "run" /\ e.pos = s + 1 /\ e.depth = worker[w].depth
      /\ e.instructions = worker[w].instructions
  BY <1>2, <1>4 DEF Worker
<1> HIDE DEF e
<1>6. /\ worker' \in Seq(Worker) /\ DOMAIN worker' = DOMAIN worker /\ worker'[w] = e
      /\ \A v \in DOMAIN worker : v # w => worker'[v] = worker[v]
  BY <1>1, <1>5, WorkerUpdate DEF IInv
<1>7. WorkerWords
  BY <1>1, <1>3, <1>4 DEF IInv, TypeOK, TypeWord, TypeReserve, WorkerWords, WordInv, Slots
<1>8. ActiveWorkers' = {w} /\ OpenDelimiters' = {} /\ UNCHANGED startAddress
  BY <1>1, <1>2, <1>3, <1>5, <1>6
  DEF IInv, TypeOK, TypeWord, ActiveWorkers, OpenDelimiters, jsVars, startVars
<1>9. HandoffUnique'
  BY <1>2, <1>6, <1>8, SameToken DEF IInv
<1>10. FrontierInv'
  <2>1. WorkerAtFrontier(w)'
    BY <1>1, <1>3, <1>4, <1>5, <1>6
    DEF IInv, TypeOK, TypeReserve, WorkerAtFrontier, Nest, jsVars, reserveVars, batchVars,
        historyVars, Slots
  <2> QED BY <1>1, <1>2, <1>5, <1>6, <1>8, <2>1
          DEF IInv, FrontierInv, AtFrontier, jsVars, startVars, reserveVars, historyVars
<1>11. TypeWorker' /\ TypeHistory' /\ ExecutedInOrder'
  BY <1>1, <1>6 DEF IInv, TypeOK, TypeWorker, TypeHistory, ExecutedInOrder, historyVars
<1> QED BY <1>1, <1>6, <1>7, <1>9, <1>10, <1>11, WorkerStepInv

\* Executing an instruction: `f' is the record of the worker after it and before
\* the word is marked.
LEMMA ExecutedStep ==
    ASSUME IInv, NEW w \in DOMAIN worker, NEW ok \in BOOLEAN, NEW f \in Worker,
           worker[w].pc = "run", OP \in word[worker[w].pos],
           f.pc = "run", f.pos = worker[w].pos, f.instructions = worker[w].instructions,
           f.depth = worker[w].depth + Delta(worker[w].pos),
           Executed(w, ok, [worker EXCEPT ![w] = f])
    PROVE  IInv'
<1> DEFINE s == worker[w].pos
           flags == {FINISHED_OPERATION} \cup IF ok THEN {} ELSE {FAILED_CONDITION}
           e == IF worker[w].overlappedWord THEN [f EXCEPT !.pos = s + 1, !.overlappedWord = FALSE]
                ELSE [f EXCEPT !.pc = "store", !.loaded = word[s] \cup flags]
<1>1. /\ word' = IF worker[w].overlappedWord THEN [word EXCEPT ![s] = @ \cup flags] ELSE word
      /\ txnOf' = [txnOf EXCEPT ![s] = w] /\ result' = [result EXCEPT ![s] = ok]
      /\ log' = Append(log, s) /\ UNCHANGED <<jsVars, lock, ranIn>>
  BY DEF Executed
<1>2. worker' = [worker EXCEPT ![w] = e]
  BY DEF Executed
<1>3. /\ worker[w] \in Worker /\ w \in Nat /\ s \in Slots /\ s = Len(log) + 1
      /\ worker[w].depth = Nest(s)
      /\ ActiveWorkers = {w} /\ startAddress = 0 /\ OpenDelimiters = {}
  BY RunningWorker
<1>4. s < position /\ s \in 1..MaxSlots /\ s + 1 \in Slots /\ word[s] \in SUBSET Bits
  BY <1>3, BoundsAssumption DEF IInv, TypeOK, TypeReserve, TypeWord, WordInv, Slots
<1>5. flags \in SUBSET Bits /\ OP \notin flags /\ TXN_DELIMITER \notin flags
  BY DEF Bits, FINISHED_OPERATION, FAILED_CONDITION, OP, TXN_DELIMITER
<1> HIDE DEF flags
<1>6. /\ e \in Worker /\ e.instructions = worker[w].instructions /\ e.depth = f.depth
      /\ \/ e.pc = "run" /\ e.pos = s + 1
         \/ e.pc = "store" /\ e.pos = s /\ e.loaded = word[s] \cup flags
  BY <1>3, <1>4, <1>5 DEF Worker
<1> HIDE DEF e
<1>7. /\ worker' \in Seq(Worker) /\ DOMAIN worker' = DOMAIN worker /\ worker'[w] = e
      /\ \A v \in DOMAIN worker : v # w => worker'[v] = worker[v]
  BY <1>2, <1>6, WorkerUpdate DEF IInv
<1>8. WorkerWords
  BY <1>1, <1>3, <1>4, <1>5 DEF IInv, TypeOK, TypeWord, TypeReserve, WorkerWords, WordInv, Slots
<1>9. ActiveWorkers' = {w} /\ OpenDelimiters' = {} /\ UNCHANGED startAddress
  BY <1>1, <1>3, <1>4, <1>5, <1>6, <1>7
  DEF IInv, TypeOK, TypeWord, ActiveWorkers, OpenDelimiters, jsVars, startVars
<1>10. HandoffUnique'
  BY <1>3, <1>7, <1>9, SameToken DEF IInv
<1>11. /\ Len(log') = s /\ log' \in Seq(Slots)
       /\ \A i \in 1..Len(log') : log'[i] = IF i = s THEN s ELSE log[i]
  BY <1>1, <1>3 DEF IInv, TypeOK, TypeHistory
<1>12. WorkerAtFrontier(w)'
  <2> PICK k \in Slots : k = s /\ k + 1 \in Slots BY <1>3, <1>4
  <2>1. Nest(k + 1) = Nest(k) + Delta(k)
    BY <1>4, BoundsAssumption DEF IInv, TypeOK, TypeReserve, NestInv, Slots
  <2>2. Nest(k + 1)' = Nest(k + 1)
    BY <1>1 DEF Nest, jsVars, reserveVars, batchVars
  <2>3. OP \in word'[k] /\ k + 1 <= position'
    <3>1. position' = position /\ k < position
      BY <1>1, <1>4 DEF jsVars, reserveVars
    <3>2. position \in Int /\ k \in Int
      BY BoundsAssumption DEF IInv, TypeOK, TypeReserve, Slots
    <3>3. OP \in word'[k]
      BY <1>4, <1>8 DEF WorkerWords
    <3> QED BY <3>1, <3>2, <3>3
  <2>4. e.depth = Nest(k + 1)' /\ (e.pc = "store" => OP \in e.loaded)
    BY <1>3, <1>6, <2>1, <2>2
  <2> QED BY <1>3, <1>6, <1>7, <1>11, <2>3, <2>4 DEF WorkerAtFrontier
<1>13. FrontierInv'
  BY <1>1, <1>3, <1>4, <1>6, <1>7, <1>9, <1>11, <1>12
  DEF IInv, FrontierInv, AtFrontier, jsVars, startVars, reserveVars
<1>14. TypeWorker' /\ TypeHistory'
  BY <1>1, <1>3, <1>4, <1>7, <1>11 DEF IInv, TypeOK, TypeWorker, TypeHistory
<1>15. ExecutedInOrder'
  BY <1>3, <1>11 DEF IInv, TypeOK, TypeHistory, ExecutedInOrder
<1> QED BY <1>1, <1>7, <1>8, <1>10, <1>13, <1>14, <1>15, WorkerStepInv


\* A write changes nothing of what the worker knows but that an error was reported.
WroteBy(w, f) ==
    /\ f.pc = worker[w].pc /\ f.pos = worker[w].pos /\ f.instructions = worker[w].instructions
    /\ f.depth = worker[w].depth /\ f.validated = worker[w].validated
    /\ f.finishedProgress = worker[w].finishedProgress /\ f.overlappedWord = worker[w].overlappedWord
    /\ f.progress = worker[w].progress /\ f.outcome = worker[w].outcome
    /\ f.durable = worker[w].durable /\ f.resolvers = worker[w].resolvers

LEMMA WriteRecord ==
    ASSUME TypeOK, NEW w \in DOMAIN worker, ExecuteWrite(w)
    PROVE  \E ok \in BOOLEAN, f \in Worker :
             /\ WroteBy(w, f) /\ Executed(w, ok, [worker EXCEPT ![w] = f])
             /\ ok => Validated(w)
             /\ Validated(w) /\ instr[worker[w].pos].kind \in Unconditional => ok
<1>1. worker = [worker EXCEPT ![w] = worker[w]] /\ worker[w] \in Worker
  BY DEF TypeOK, TypeWorker
<1>2. ASSUME NEW rc \in BOOLEAN, instr[worker[w].pos].kind # "WRITE" \/ rc,
             Executed(w, Validated(w) /\ rc, worker)
      PROVE  \E ok \in BOOLEAN : /\ Executed(w, ok, worker) /\ (ok => Validated(w))
                                 /\ Validated(w) /\ instr[worker[w].pos].kind = "WRITE" => ok
  <2>1. PICK ok \in BOOLEAN : ok = (Validated(w) /\ rc) OBVIOUS
  <2> QED BY <1>2, <2>1
<1>3. instr[worker[w].pos].kind \in Unconditional => instr[worker[w].pos].kind = "WRITE"
                                                  /\ ~InstructionCanFail
  <2>1. instr[worker[w].pos].kind \in {"WRITE", "REMOVE", "WRITEIF"} BY DEF ExecuteWrite, Executes
  <2> QED BY <2>1 DEF Unconditional
<1>4. WroteBy(w, worker[w]) BY DEF WroteBy
<1>5. CASE \E rc \in {b \in BOOLEAN : instr[worker[w].pos].kind # "WRITE" \/ b} :
             Executed(w, Validated(w) /\ rc, worker)
  <2>1. PICK rc \in BOOLEAN : /\ instr[worker[w].pos].kind # "WRITE" \/ rc
                              /\ Executed(w, Validated(w) /\ rc, worker)
    BY <1>5
  <2>2. PICK ok \in BOOLEAN : /\ Executed(w, ok, worker) /\ (ok => Validated(w))
                              /\ Validated(w) /\ instr[worker[w].pos].kind = "WRITE" => ok
    BY <1>2, <2>1
  <2>3. Executed(w, ok, [worker EXCEPT ![w] = worker[w]]) BY <1>1, <2>2
  <2>4. Validated(w) /\ instr[worker[w].pos].kind \in Unconditional => ok BY <1>3, <2>2
  <2> QED BY <1>1, <1>4, <2>2, <2>3, <2>4
<1>6. CASE InstructionCanFail /\ Validated(w) /\ Executed(w, FALSE, ReportError(w))
  <2> DEFINE f == [worker[w] EXCEPT !.reported = TRUE]
  <2>1. f \in Worker /\ WroteBy(w, f) BY <1>1 DEF Worker, WroteBy
  <2>2. ReportError(w) = [worker EXCEPT ![w] = f] BY DEF ReportError
  <2>3. Executed(w, FALSE, [worker EXCEPT ![w] = f]) BY <1>6, <2>2
  <2>4. ~(instr[worker[w].pos].kind \in Unconditional) BY <1>3, <1>6
  <2> HIDE DEF f
  <2> QED BY <2>1, <2>3, <2>4
<1> QED BY <1>5, <1>6 DEF ExecuteWrite

\* PUT, DEL, blocks and user callbacks are all executed by Executed.
LEMMA ExecuteStep ==
    ASSUME IInv, NEW w \in DOMAIN worker,
           ExecuteWrite(w) \/ ExecuteStart(w) \/ ExecuteCall(w)
    PROVE  IInv'
<1>1. /\ worker[w].pc = "run" /\ OP \in word[worker[w].pos] /\ worker[w] \in Worker
      /\ worker[w].pos \in 1..MaxSlots
  <2>1. worker[w].pc = "run" /\ OP \in word[worker[w].pos]
    BY DEF ExecuteWrite, ExecuteStart, ExecuteCall, Executes, Running, Fetched
  <2> QED BY <2>1, RunningWorker, BoundsAssumption DEF IInv, TypeOK, TypeReserve, WordInv, Slots
<1>2. CASE ExecuteWrite(w)
  <2>1. PICK ok \in BOOLEAN, f \in Worker :
          WroteBy(w, f) /\ Executed(w, ok, [worker EXCEPT ![w] = f])
    BY <1>2, WriteRecord DEF IInv
  <2>2. Delta(worker[w].pos) = 0
    BY <1>2 DEF ExecuteWrite, Executes, Delta
  <2>3. f.depth = worker[w].depth + Delta(worker[w].pos)
    BY <1>1, <2>1, <2>2 DEF Worker, WroteBy
  <2> QED BY <1>1, <2>1, <2>3, ExecutedStep DEF WroteBy
<1>3. CASE ExecuteStart(w)
  <2>1. PICK met \in BOOLEAN :
          Executed(w, Validated(w) /\ met,
                   [worker EXCEPT ![w].depth = @ + 1,
                                  ![w].validated = IF Validated(w) /\ met THEN @ + 1 ELSE @])
    BY <1>3 DEF ExecuteStart
  <2> DEFINE v == IF Validated(w) /\ met THEN worker[w].validated + 1 ELSE worker[w].validated
             f == [worker[w] EXCEPT !.pos = worker[w].pos, !.depth = worker[w].depth + 1,
                                    !.validated = v]
  <2>2. Delta(worker[w].pos) = 1
    BY <1>3 DEF ExecuteStart, Executes, Delta
  <2>6. v \in Int /\ worker[w].depth + 1 \in Int /\ worker[w].pos \in Slots
    BY <1>1 DEF Worker
  <2>4. Executed(w, Validated(w) /\ met, [worker EXCEPT ![w] = f])
    <3>1. f = [worker[w] EXCEPT !.depth = worker[w].depth + 1, !.validated = v]
      BY <1>1 DEF Worker
    <3> QED BY <2>1, <3>1
  <2> HIDE DEF v
  <2>3. /\ f \in Worker /\ f.pc = "run" /\ f.pos = worker[w].pos
        /\ f.instructions = worker[w].instructions
        /\ f.depth = worker[w].depth + Delta(worker[w].pos)
    <3>1. /\ f \in Worker /\ f.pc = worker[w].pc /\ f.pos = worker[w].pos
          /\ f.depth = worker[w].depth + 1 /\ f.instructions = worker[w].instructions
      <4>1. PICK x \in Worker, p \in Slots, d \in Int, v2 \in Int :
              x = worker[w] /\ p = worker[w].pos /\ d = worker[w].depth + 1 /\ v2 = v
        BY <1>1, <2>6
      <4>2. f = [x EXCEPT !.pos = p, !.depth = d, !.validated = v2]
        BY <4>1
      <4> HIDE DEF f
      <4>3. f \in Worker /\ f.pc = x.pc /\ f.pos = p /\ f.depth = d /\ f.instructions = x.instructions
        BY <4>2 DEF Worker
      <4> QED BY <4>1, <4>3
    <3> QED BY <1>1, <2>2, <3>1
  <2>5. (Validated(w) /\ met) \in BOOLEAN OBVIOUS
  <2> HIDE DEF f
  <2> QED BY <1>1, <2>3, <2>4, <2>5, ExecutedStep
<1>4. CASE ExecuteCall(w)
  <2> DEFINE v == IF Validated(w) THEN FALSE ELSE worker[w].finishedProgress
             f == [worker[w] EXCEPT !.finishedProgress = v]
  <2>1. Executed(w, Validated(w), [worker EXCEPT ![w] = f])
    BY <1>4 DEF ExecuteCall
  <2>2. Delta(worker[w].pos) = 0 /\ v \in BOOLEAN
    BY <1>1, <1>4 DEF ExecuteCall, Executes, Delta, Worker
  <2> HIDE DEF v
  <2>3. /\ f \in Worker /\ f.pc = "run" /\ f.pos = worker[w].pos
        /\ f.instructions = worker[w].instructions
        /\ f.depth = worker[w].depth + Delta(worker[w].pos)
    BY <1>1, <2>2 DEF Worker
  <2>4. Validated(w) \in BOOLEAN BY DEF Validated
  <2> HIDE DEF f
  <2> QED BY <1>1, <2>1, <2>3, <2>4, ExecutedStep
<1> QED BY <1>2, <1>3, <1>4

\* BLOCK_END: the worker moves on without a mark.
LEMMA EndStep ==
    ASSUME IInv, NEW w \in DOMAIN worker, ExecuteEnd(w)
    PROVE  IInv'
<1> DEFINE s == worker[w].pos
           validated == ValidatedAfterEnd(worker[w].validated, worker[w].depth - 1)
           e == [worker[w] EXCEPT !.pos = s + 1, !.depth = worker[w].depth - 1,
                                  !.validated = validated]
<1>1. /\ worker[w].pc = "run" /\ OP \in word[s] /\ Delta(s) = -1
      /\ worker' = [worker EXCEPT ![w] = e]
      /\ txnOf' = [txnOf EXCEPT ![s] = w] /\ log' = Append(log, s)
      /\ UNCHANGED <<word, jsVars, lock, result, ranIn>>
  BY DEF ExecuteEnd, Executes, Running, Fetched, Delta
<1>2. /\ worker[w] \in Worker /\ w \in Nat /\ s \in Slots /\ s = Len(log) + 1
      /\ worker[w].depth = Nest(s)
      /\ ActiveWorkers = {w} /\ startAddress = 0 /\ OpenDelimiters = {}
  BY <1>1, RunningWorker
<1>3. s < position /\ s \in 1..MaxSlots /\ s + 1 \in Slots
  BY <1>1, <1>2, BoundsAssumption DEF IInv, TypeOK, TypeReserve, WordInv, Slots
<1>a. validated \in Int /\ worker[w].depth - 1 \in Int /\ worker[w].depth \in Int
  BY <1>2 DEF Worker, ValidatedAfterEnd
<1> HIDE DEF validated
<1>4. /\ e \in Worker /\ e.pc = "run" /\ e.pos = s + 1 /\ e.depth = Nest(s) + Delta(s)
      /\ e.instructions = worker[w].instructions
  <2>1. /\ e \in Worker /\ e.pc = worker[w].pc /\ e.pos = s + 1 /\ e.depth = worker[w].depth - 1
        /\ e.instructions = worker[w].instructions
    <3>1. PICK x \in Worker, p \in Slots, d \in Int, v \in Int :
            x = worker[w] /\ p = s + 1 /\ d = worker[w].depth - 1 /\ v = validated
      BY <1>2, <1>3, <1>a
    <3>2. e = [x EXCEPT !.pos = p, !.depth = d, !.validated = v]
      BY <3>1
    <3> HIDE DEF e
    <3>3. e \in Worker /\ e.pc = x.pc /\ e.pos = p /\ e.depth = d /\ e.instructions = x.instructions
      BY <3>2 DEF Worker
    <3> QED BY <3>1, <3>3
  <2> QED BY <1>1, <1>2, <1>a, <2>1
<1> HIDE DEF e
<1>5. /\ worker' \in Seq(Worker) /\ DOMAIN worker' = DOMAIN worker /\ worker'[w] = e
      /\ \A v \in DOMAIN worker : v # w => worker'[v] = worker[v]
  BY <1>1, <1>4, WorkerUpdate DEF IInv
<1>6. WorkerWords
  BY <1>1 DEF IInv, TypeOK, TypeWord, WorkerWords, WordInv, jsVars, reserveVars
<1>7. ActiveWorkers' = {w} /\ OpenDelimiters' = {} /\ UNCHANGED startAddress
  BY <1>1, <1>2, <1>4, <1>5 DEF ActiveWorkers, OpenDelimiters, jsVars, startVars
<1>8. HandoffUnique'
  BY <1>2, <1>5, <1>7, SameToken DEF IInv
<1>9. /\ Len(log') = s /\ log' \in Seq(Slots)
      /\ \A i \in 1..Len(log') : log'[i] = IF i = s THEN s ELSE log[i]
  BY <1>1, <1>2 DEF IInv, TypeOK, TypeHistory
<1>10. WorkerAtFrontier(w)'
  <2> PICK k \in Slots : k = s /\ k + 1 \in Slots BY <1>2, <1>3
  <2>1. Nest(k + 1) = Nest(k) + Delta(k)
    BY <1>3, BoundsAssumption DEF IInv, TypeOK, TypeReserve, NestInv, Slots
  <2>2. Nest(k + 1)' = Nest(k + 1)
    BY <1>1 DEF Nest, jsVars, reserveVars, batchVars
  <2>3. k + 1 <= position'
    BY <1>1, <1>3, BoundsAssumption DEF IInv, TypeOK, TypeReserve, Slots, jsVars, reserveVars
  <2> QED BY <1>2, <1>4, <1>5, <1>9, <2>1, <2>2, <2>3 DEF WorkerAtFrontier
<1>11. FrontierInv'
  BY <1>1, <1>2, <1>3, <1>4, <1>5, <1>7, <1>9, <1>10
  DEF IInv, FrontierInv, AtFrontier, jsVars, startVars, reserveVars
<1>12. TypeWorker' /\ TypeHistory'
  BY <1>1, <1>2, <1>3, <1>5, <1>9 DEF IInv, TypeOK, TypeWorker, TypeHistory
<1>13. ExecutedInOrder'
  BY <1>2, <1>9 DEF IInv, TypeOK, TypeHistory, ExecutedInOrder
<1> QED BY <1>1, <1>5, <1>6, <1>8, <1>11, <1>12, <1>13, WorkerStepInv

\* Marking a delimiter committed or failed, after the unlock.
LEMMA ReportStep ==
    ASSUME IInv, NEW w \in DOMAIN worker, ReportCommit(w) \/ Sync(w)
    PROVE  IInv'
<1>1. PICK bits \in SUBSET {TXN_COMMITTED, TXN_FAILED}, k \in Slots :
        /\ word' = [word EXCEPT ![k] = @ \cup bits]
        /\ k <= position
        /\ UNCHANGED <<jsVars, lock, historyVars>>
  <2>1. worker[w].instructions \in Slots /\ worker[w].instructions <= position
    BY WorkerTypes DEF IInv, FrontierInv, Worker
  <2>2. CASE ReportCommit(w)
    BY <2>1, <2>2 DEF ReportCommit, ReportedBits
  <2>3. CASE Sync(w)
    <3>1. word = [word EXCEPT ![worker[w].instructions] = @ \cup {}]
      BY <2>1 DEF IInv, TypeOK, TypeWord
    <3> QED BY <2>1, <2>3, <3>1 DEF Sync
  <2> QED BY <2>2, <2>3
<1>2. /\ worker' \in Seq(Worker) /\ DOMAIN worker' = DOMAIN worker
      /\ \A v \in DOMAIN worker : /\ worker'[v].pos = worker[v].pos
                                  /\ worker'[v].depth = worker[v].depth
                                  /\ worker'[v].instructions = worker[v].instructions
                                  /\ worker'[v].loaded = worker[v].loaded
                                  /\ v # w => worker'[v].pc = worker[v].pc
      /\ worker[w].pc \in {"report", "sync"} /\ worker'[w].pc \in {"sync", "done"}
  <2>1. worker[w] \in Worker BY WorkerTypes DEF IInv
  <2>2. CASE ReportCommit(w)
    <3> DEFINE failed == worker[w].outcome = "failed"
               e == [worker[w] EXCEPT !.pc = IF OverlappingSync /\ ~failed THEN "sync" ELSE "done",
                                      !.progress = OverlappingSync /\ ~failed]
    <3>1. worker' = [worker EXCEPT ![w] = e] /\ worker[w].pc = "report"
      BY <2>2 DEF ReportCommit
    <3>2. /\ e \in Worker /\ e.pc \in {"sync", "done"} /\ e.pos = worker[w].pos
          /\ e.depth = worker[w].depth /\ e.instructions = worker[w].instructions
          /\ e.loaded = worker[w].loaded
      BY <2>1 DEF Worker
    <3> HIDE DEF e
    <3> QED BY <3>1, <3>2, WorkerUpdate DEF IInv
  <2>3. CASE Sync(w)
    <3>1. PICK synced \in BOOLEAN :
            worker' = [v \in DOMAIN worker |->
                      [worker[v] EXCEPT !.durable = @ \/ (synced /\ worker[v].outcome = "ok"),
                                        !.pc = IF v = w THEN "done" ELSE @]]
      BY <2>3 DEF Sync
    <3>2. \A v \in DOMAIN worker :
            /\ worker'[v] \in Worker
            /\ worker'[v].pos = worker[v].pos
            /\ worker'[v].depth = worker[v].depth
            /\ worker'[v].instructions = worker[v].instructions
            /\ worker'[v].loaded = worker[v].loaded
            /\ worker'[v].pc = IF v = w THEN "done" ELSE worker[v].pc
      <4> TAKE v \in DOMAIN worker
      <4> DEFINE d == worker[v].durable \/ (synced /\ worker[v].outcome = "ok")
                 pc == IF v = w THEN "done" ELSE worker[v].pc
      <4>1. worker[v] \in Worker BY WorkerTypes DEF IInv
      <4>2. d \in BOOLEAN BY Zenon
      <4>3. worker'[v] = [worker[v] EXCEPT !.durable = d, !.pc = pc]
        BY <3>1
      <4>4. pc \in {"queued", "run", "store", "wait", "commit", "report", "sync", "done", "gone"}
        BY <4>1 DEF Worker
      <4> HIDE DEF d, pc
      <4>5. /\ worker'[v] \in Worker
            /\ worker'[v].pos = worker[v].pos
            /\ worker'[v].depth = worker[v].depth
            /\ worker'[v].instructions = worker[v].instructions
            /\ worker'[v].loaded = worker[v].loaded
            /\ worker'[v].pc = pc
        BY <4>1, <4>2, <4>3, <4>4 DEF Worker
      <4> QED BY <4>5 DEF pc
    <3>3. DOMAIN worker' = DOMAIN worker /\ worker' = [v \in DOMAIN worker |-> worker'[v]]
      BY <3>1
    <3>4. PICK n \in Nat : DOMAIN worker = 1..n
      BY DEF IInv, TypeOK, TypeWorker
    <3>5. worker' \in Seq(Worker)
      <4>1. worker' \in [1..n -> Worker] BY <3>2, <3>3, <3>4
      <4> QED BY <4>1
    <3> QED BY <2>3, <3>2, <3>3, <3>5 DEF Sync
  <2> QED BY <2>2, <2>3
<1>3. WorkerWords /\ OpenDelimiters' = OpenDelimiters
  <2>1. /\ bits \in SUBSET Bits /\ OP \notin bits /\ FINISHED_OPERATION \notin bits
        /\ TXN_DELIMITER \notin bits
    BY DEF Bits, OP, FINISHED_OPERATION, TXN_DELIMITER, TXN_COMMITTED, TXN_FAILED
  <2>2. /\ word' \in [Slots -> SUBSET Bits]
        /\ \A s \in Slots : /\ OP \in word'[s] <=> OP \in word[s]
                            /\ FINISHED_OPERATION \in word'[s] <=> FINISHED_OPERATION \in word[s]
                            /\ TXN_DELIMITER \in word'[s] <=> TXN_DELIMITER \in word[s]
    BY <1>1, <2>1 DEF IInv, TypeOK, TypeWord
  <2>3. \A s \in Slots : s > position => word'[s] = word[s]
    BY <1>1 DEF IInv, TypeOK, TypeWord, TypeReserve, Slots
  <2> QED BY <2>2, <2>3 DEF IInv, WordInv, WorkerWords, OpenDelimiters
<1>4. ActiveWorkers' = ActiveWorkers
  BY <1>2 DEF ActiveWorkers
<1>5. HandoffUnique'
  BY <1>1, <1>2, <1>3, <1>4, SameToken DEF IInv, jsVars, startVars
<1>6. FrontierInv'
  <2>1. \A v \in ActiveWorkers : WorkerAtFrontier(v)'
    <3> TAKE v \in ActiveWorkers
    <3>1. v \in DOMAIN worker /\ v # w /\ WorkerAtFrontier(v) /\ worker[v].pos \in Slots
      BY <1>2, WorkerTypes DEF IInv, FrontierInv, ActiveWorkers, Worker
    <3> QED BY <1>1, <1>2, <1>3, <3>1
            DEF WorkerAtFrontier, WorkerWords, Nest, jsVars, reserveVars, batchVars, historyVars
  <2> QED BY <1>1, <1>2, <1>3, <1>4, <2>1
          DEF IInv, FrontierInv, AtFrontier, Nest, jsVars, startVars, reserveVars, batchVars,
              historyVars
<1>7. TypeWorker' /\ TypeHistory' /\ ExecutedInOrder'
  BY <1>1, <1>2 DEF IInv, TypeOK, TypeWorker, TypeHistory, ExecutedInOrder, historyVars
<1> QED BY <1>1, <1>2, <1>3, <1>5, <1>6, <1>7, WorkerStepInv

\* Everything a worker does.
LEMMA WorkerStepPreserves ==
    ASSUME IInv, NEW w \in DOMAIN worker, WorkerStep(w)
    PROVE  IInv'
BY LocalWorkerStep, ExecuteStep, EndStep, StoreStep, WaitStep, DelimitStep, ReportStep DEF WorkerStep

-----------------------------------------------------------------------------
(* Steps of the JavaScript thread that reserve and publish nothing. *)

\* The fields the invariant looks at in a resolution and in a worker are kept.
ResolutionsKept ==
    /\ resolution' \in [Slots -> Resolution]
    /\ \A r \in Slots : FP(r)' = FP(r)
WorkersKept ==
    /\ worker' \in Seq(Worker) /\ DOMAIN worker' = DOMAIN worker
    /\ \A v \in DOMAIN worker :
         /\ worker'[v].pos = worker[v].pos /\ worker'[v].depth = worker[v].depth
         /\ worker'[v].instructions = worker[v].instructions
         /\ worker'[v].loaded = worker[v].loaded
         /\ \/ worker'[v].pc = worker[v].pc
            \/ worker[v].pc = "done" /\ worker'[v].pc = "gone"

\* An unchanged list of resolutions keeps all that is known of it.
LEMMA KeepResolutions ==
    ASSUME IInv, UNCHANGED resolution
    PROVE  ResolutionsKept
BY DEF IInv, TypeOK, TypeReserve, ResolutionsKept, FP

\* Unchanged workers keep all that is known of them.
LEMMA KeepWorkers ==
    ASSUME IInv, UNCHANGED worker
    PROVE  WorkersKept
BY DEF IInv, TypeOK, TypeWorker, WorkersKept

\* What the running closure publishes.
LEMMA CallFacts ==
    ASSUME IInv, call.pc \in {"publish", "store", "note", "promise"}
    PROVE  /\ call.res \in Reserved /\ call.res \in Slots /\ call.res # 0
           /\ CallSlot = FP(call.res) /\ CallSlot \in 1..MaxSlots /\ CallSlot \in Slots
           /\ CallSlot < position
           /\ instr[CallSlot].depth = 0 <=> Len(instr[CallSlot].within) = 0
           /\ call.pc \in {"publish", "store"} => OP \notin word[CallSlot]
<1>1. call.res \in Reserved
  BY DEF IInv, CallInv
<1>2. call.res \in Slots /\ call.res # 0 /\ position \in Slots
  BY <1>1, BoundsAssumption DEF IInv, TypeOK, TypeReserve, Reserved, Slots
<1>3. /\ FP(call.res) \in 1..(position - 1)
      /\ instr[FP(call.res)].depth = 0 <=> Len(instr[FP(call.res)].within) = 0
  BY <1>1 DEF IInv, ResolutionInv
<1>4. FP(call.res) \in 1..MaxSlots /\ FP(call.res) < position
  BY <1>2, <1>3, BoundsAssumption DEF Slots
<1>5. CallSlot = FP(call.res)
  BY DEF CallSlot, FP
<1>6. call.pc \in {"publish", "store"} => OP \notin word[FP(call.res)]
  BY DEF IInv, CallInv, Published
<1> QED BY <1>1, <1>2, <1>3, <1>4, <1>5, <1>6, BoundsAssumption DEF Slots

\* A step that leaves the words, the slots, the blocks and the workers alone.
LEMMA QuietStep ==
    ASSUME IInv, ResolutionsKept, WorkersKept,
           UNCHANGED <<word, reserveVars, batchVars, writeBatchStart, startAddress, enqueuedCommit,
                       log>>,
           TypeBatch', TypeStart', TypeSettle', TypeCall', lock' \in Nat \cup {Js}, TypeHistory',
           unwrittenResolution' <= nextResolution, CallInv', PromiseInv',
           DeferredInv'
    PROVE  IInv'
<1> USE DEF reserveVars, batchVars
<1>1. TypeOK'
  BY DEF IInv, TypeOK, TypeWord, TypeReserve, TypeWorker, ResolutionsKept, WorkersKept
<1>2. /\ nextResolution \in Slots /\ \A r \in Reserved : r \in Slots
      /\ \A i \in 1..Len(blocks) : blocks[i] \in Slots
  BY BoundsAssumption DEF IInv, TypeOK, TypeReserve, BatchInv, Reserved, Slots
<1>3. BatchInv' /\ ResolutionInv' /\ WordInv' /\ NestInv'
  <2>1. BatchInv'
    BY <1>2 DEF IInv, BatchInv, ResolutionsKept, Reserved
  <2>2. ResolutionInv'
    BY <1>2 DEF IInv, ResolutionInv, ResolutionsKept, Reserved
  <2>3. WordInv' /\ NestInv'
    BY DEF IInv, WordInv, NestInv, Nest, Delta
  <2> QED BY <2>1, <2>2, <2>3
<1>4. ActiveWorkers' = ActiveWorkers /\ OpenDelimiters' = OpenDelimiters
  BY DEF WorkersKept, ActiveWorkers, OpenDelimiters
<1>5. HandoffUnique'
  BY <1>4, SameToken DEF IInv, WorkersKept
<1>6. FrontierInv'
  <2>1. \A v \in ActiveWorkers : WorkerAtFrontier(v)'
    BY DEF IInv, FrontierInv, ActiveWorkers, WorkersKept, WorkerAtFrontier, Nest
  <2> QED BY <1>4, <2>1 DEF IInv, FrontierInv, WorkersKept, AtFrontier, Nest
<1>7. ExecutedInOrder'
  BY DEF IInv, ExecutedInOrder
<1> QED BY <1>1, <1>3, <1>5, <1>6, <1>7 DEF IInv

\* Steps that change nothing but the program counter of the closure.
LEMMA CounterStep ==
    ASSUME IInv, PublishLoad \/ SweepEnd \/ SettleEnd
    PROVE  IInv'
<1>1. UNCHANGED <<word, reserveVars, resolution, batchVars, writeBatchStart, outstandingBatchCount,
                  outstandingWriteCount, startVars, promiseVars, settleVars, caller, worker, lock,
                  historyVars>>
  BY DEF PublishLoad, SweepEnd, SettleEnd
<1> USE DEF reserveVars, batchVars, startVars, promiseVars, settleVars, historyVars
<1>2. ResolutionsKept /\ WorkersKept
  BY <1>1, KeepResolutions, KeepWorkers
<1>3. /\ TypeBatch' /\ TypeStart' /\ TypeSettle' /\ TypeHistory' /\ lock' \in Nat \cup {Js}
      /\ unwrittenResolution' <= nextResolution
  BY <1>1 DEF IInv, TypeOK, TypeBatch, TypeStart, TypeSettle, TypeHistory, TypeWorker, ResolutionInv
<1>4. call \in Call /\ caller \in Call
  BY DEF IInv, TypeOK, TypeCall
<1>5. CASE PublishLoad
  <2>1. /\ call.pc = "publish" /\ call.res \in Reserved /\ FP(call.res) \in Slots
        /\ instr[FP(call.res)].depth > 0 /\ ~Published(call.res)
        /\ FP(call.res) < position /\ Len(instr[FP(call.res)].within) # 0
        /\ call' = [call EXCEPT !.pc = "store", !.seen = word[FP(call.res)]]
    <3>1. /\ call.pc = "publish" /\ instr[CallSlot].depth > 0
          /\ call' = [call EXCEPT !.pc = "store", !.seen = word[CallSlot]]
      BY <1>5 DEF PublishLoad
    <3> QED BY <3>1, CallFacts DEF Published
  <2>2. TXN_DELIMITER \notin word[FP(call.res)]
    BY <2>1 DEF IInv, FrontierInv, AtFrontier, Nest, OpenDelimiters, Published
  <2>3. word[FP(call.res)] \in SUBSET Bits
    BY <2>1 DEF IInv, TypeOK, TypeWord
  <2>4. /\ call' \in Call /\ call'.pc = "store" /\ call'.res = call.res
        /\ TXN_DELIMITER \notin call'.seen
    BY <1>4, <2>1, <2>2, <2>3 DEF Call
  <2>5. CallInv'
    BY <1>1, <2>1, <2>4 DEF IInv, CallInv, Reserved, Published, FP
  <2>6. PromiseInv' /\ DeferredInv'
    BY <1>1, <2>1, <2>4 DEF IInv, PromiseInv, DeferredInv, Reserved, Published, FP
  <2>7. TypeCall'
    BY <1>1, <1>4, <2>4 DEF TypeCall
  <2> QED BY <1>1, <1>2, <1>3, <2>5, <2>6, <2>7, QuietStep
<1>6. CASE SweepEnd
  <2>1. /\ call' = [call EXCEPT !.pc = "settle"] /\ call.pc = "sweep"
    BY <1>6 DEF SweepEnd
  <2>2. call' \in Call /\ call'.pc = "settle" /\ call'.res = call.res /\ call'.worker = call.worker
    BY <1>4, <2>1 DEF Call
  <2>3. TypeCall' /\ CallInv' /\ PromiseInv' /\ DeferredInv'
    BY <1>1, <1>4, <2>1, <2>2
    DEF TypeCall, IInv, CallInv, PromiseInv, DeferredInv, Reserved, Published, FP
  <2> QED BY <1>1, <1>2, <1>3, <2>3, QuietStep
<1>7. CASE SettleEnd
  <2>1. /\ call' = [call EXCEPT !.pc = IF call.res = 0 THEN "status" ELSE "promise"]
        /\ call.pc = "settle"
    BY <1>7 DEF SettleEnd
  <2>2. /\ call' \in Call /\ call'.pc = (IF call.res = 0 THEN "status" ELSE "promise")
        /\ call'.res = call.res /\ call'.worker = call.worker
    BY <1>4, <2>1 DEF Call
  <2>3. TypeCall' /\ CallInv'
    BY <1>1, <1>4, <2>1, <2>2, BoundsAssumption
    DEF TypeCall, IInv, CallInv, Reserved, Published, FP, TypeOK, TypeReserve, Slots
  <2>4. PromiseInv' /\ DeferredInv'
    BY <1>1, <2>1, <2>2 DEF IInv, PromiseInv, DeferredInv, Reserved, Published, FP
  <2> QED BY <1>1, <1>2, <1>3, <2>3, <2>4, QuietStep
<1> QED BY <1>5, <1>6, <1>7

\* The sweep never passes the last reserved resolution.
LEMMA SweepStep ==
    ASSUME IInv, SweepNext
    PROVE  IInv'
<1> DEFINE r == unwrittenResolution
           status == word[FP(r)]
           e == [resolution[r] EXCEPT !.callbacks = 0, !.flag = status, !.released = LetGo(r)]
<1>1. /\ call.pc = "sweep" /\ FINISHED_OPERATION \in status
      /\ nextTxnCallbacks' = nextTxnCallbacks \cup ({resolution[r].callbacks} \ {0})
      /\ resolution' = [resolution EXCEPT ![r] = e]
      /\ outstandingWriteCount' = outstandingWriteCount - 1
      /\ unwrittenResolution' = r + 1
      /\ UNCHANGED <<word, reserveVars, batchVars, writeBatchStart, outstandingBatchCount,
                     startVars, promiseVars, txnResolution, uncommittedResolution, flushed,
                     call, caller, worker, lock, historyVars>>
  BY DEF SweepNext, FP
<1> HIDE DEF e
<1> USE DEF reserveVars, batchVars, startVars, promiseVars, historyVars
<1>2. r \in Slots /\ r <= nextResolution /\ nextResolution \in Slots /\ resolution[r] \in Resolution
  BY DEF IInv, TypeOK, TypeSettle, TypeReserve, ResolutionInv
<1>3. FP(r) \in 0..(MaxSlots + 1) /\ resolution[r].callbacks \in 0..(MaxSlots + 1)
  BY <1>2 DEF Resolution, FP
<1>4. r # nextResolution
  <2>1. ASSUME r = nextResolution PROVE FALSE
    <3>1. FP(r) = position /\ position \in Slots
      BY <2>1 DEF IInv, ResolutionInv, TypeOK, TypeReserve
    <3> QED BY <1>1, <3>1 DEF IInv, WordInv, Slots
  <2> QED BY <2>1
<1>5. r \in Reserved /\ r + 1 <= nextResolution /\ r + 1 \in Slots
  BY <1>2, <1>4, BoundsAssumption DEF Reserved, Slots
<1>6. status \in SUBSET Bits /\ LetGo(r) \in BOOLEAN
  <2>1. FP(r) \in Slots
    BY <1>5, BoundsAssumption DEF IInv, TypeOK, TypeReserve, ResolutionInv, Slots
  <2>2. resolution[r].isTxn \in BOOLEAN BY <1>2 DEF Resolution
  <2> QED BY <2>1, <2>2 DEF IInv, TypeOK, TypeWord, LetGo
<1>7. e \in Resolution /\ e.flagPosition = FP(r) /\ e.promise = resolution[r].promise
  <2>1. PICK x \in Resolution, b \in BOOLEAN, s \in SUBSET Bits :
          x = resolution[r] /\ b = LetGo(r) /\ s = status
    BY <1>2, <1>6
  <2>2. e = [x EXCEPT !.callbacks = 0, !.flag = s, !.released = b]
    BY <2>1 DEF e
  <2>3. e \in Resolution /\ e.flagPosition = x.flagPosition /\ e.promise = x.promise
    <3> DEFINE x1 == [x EXCEPT !.callbacks = 0]
               x2 == [x1 EXCEPT !.flag = s]
    <3>1. x1 \in Resolution /\ x1.flagPosition = x.flagPosition /\ x1.promise = x.promise
      BY BoundsAssumption DEF Resolution
    <3> HIDE DEF x1
    <3>2. x2 \in Resolution /\ x2.flagPosition = x.flagPosition /\ x2.promise = x.promise
      BY <3>1 DEF Resolution
    <3>3. e = [x2 EXCEPT !.released = b]
      BY <2>2 DEF x1
    <3> HIDE DEF x2
    <3> QED BY <3>2, <3>3 DEF Resolution
  <2> QED BY <2>1, <2>3 DEF FP
<1>8. ResolutionsKept /\ \A q \in Slots : resolution'[q].promise = resolution[q].promise
  BY <1>1, <1>2, <1>7 DEF IInv, TypeOK, TypeReserve, ResolutionsKept, FP
<1>9. TypeSettle' /\ TypeBatch'
  <2>1. nextTxnCallbacks' \subseteq Slots
    <3>1. PICK c \in 0..(MaxSlots + 1) : c = resolution[r].callbacks BY <1>3
    <3>2. {c} \ {0} \subseteq Slots BY BoundsAssumption DEF Slots
    <3>3. nextTxnCallbacks' = nextTxnCallbacks \cup ({c} \ {0}) BY <1>1, <3>1
    <3> QED BY <3>2, <3>3 DEF IInv, TypeOK, TypeSettle
  <2> QED BY <1>1, <1>5, <2>1 DEF IInv, TypeOK, TypeSettle, TypeBatch
<1>10. TypeStart' /\ TypeCall' /\ TypeHistory' /\ lock' \in Nat \cup {Js}
  BY <1>1 DEF IInv, TypeOK, TypeStart, TypeCall, TypeHistory, TypeWorker
<1>11. \A q \in Reserved : q \in Slots /\ (Published(q)' <=> Published(q))
  BY <1>1, <1>8, BoundsAssumption
  DEF IInv, TypeOK, TypeReserve, Reserved, Slots, Published, ResolutionsKept
<1>12. CallInv' /\ DeferredInv'
  BY <1>1, <1>8, <1>11 DEF IInv, CallInv, DeferredInv, Reserved, ResolutionsKept
<1>13. PromiseInv'
  BY <1>1, <1>8, <1>11 DEF IInv, PromiseInv, Reserved
<1> QED BY <1>1, <1>5, <1>8, <1>9, <1>10, <1>12, <1>13, KeepWorkers, QuietStep

\* Settling a transaction changes outcomes only.
LEMMA SettleStep ==
    ASSUME IInv, SettleTxn
    PROVE  IInv'
<1> DEFINE t == txnResolution
           outcome(r) == IF TXN_FAILED \in TxnStatus THEN "rejected"
                         ELSE IF FAILED_CONDITION \in resolution[r].flag /\ Conditional(r) THEN "false"
                         ELSE "true"
           e(r) == IF r \in uncommittedResolution..(t - 1) /\ resolution[r].promise = r
                   THEN [resolution[r] EXCEPT !.settled = outcome(r)] ELSE resolution[r]
<1>1. /\ call.pc = "settle" /\ t # 0
      /\ resolution' = [r \in Slots |-> e(r)]
      /\ uncommittedResolution' = t /\ txnResolution' = resolution[t].nextTxn
      /\ UNCHANGED <<word, reserveVars, batchVars, writeBatchStart, outstandingBatchCount,
                     outstandingWriteCount, startVars, promiseVars, unwrittenResolution,
                     nextTxnCallbacks, flushed, call, caller, worker, lock, historyVars>>
  BY DEF SettleTxn, TxnDone
<1>2. t \in Slots /\ resolution[t] \in Resolution
  BY <1>1, BoundsAssumption DEF IInv, TypeOK, TypeSettle, TypeReserve, Slots
<1>3. \A r : outcome(r) \in {"true", "false", "rejected"}
  OBVIOUS
<1> HIDE DEF outcome
<1>4. \A r \in Slots : /\ e(r) \in Resolution /\ e(r).flagPosition = FP(r)
                       /\ e(r).promise = resolution[r].promise
  <2> TAKE r \in Slots
  <2>1. resolution[r] \in Resolution BY DEF IInv, TypeOK, TypeReserve
  <2> QED BY <1>3, <2>1 DEF Resolution, FP
<1> HIDE DEF e
<1> USE DEF reserveVars, batchVars, startVars, promiseVars, historyVars
<1>5. ResolutionsKept /\ \A q \in Slots : resolution'[q].promise = resolution[q].promise
  BY <1>1, <1>4 DEF ResolutionsKept, FP
<1>6. TypeSettle'
  <2>1. resolution[t].nextTxn \in 0..(MaxSlots + 1) BY <1>2 DEF Resolution
  <2>2. t \in 0..(MaxSlots + 1) BY DEF IInv, TypeOK, TypeSettle
  <2> QED BY <1>1, <2>1, <2>2 DEF IInv, TypeOK, TypeSettle
<1>7. /\ TypeBatch' /\ TypeStart' /\ TypeCall' /\ TypeHistory' /\ lock' \in Nat \cup {Js}
      /\ unwrittenResolution' <= nextResolution
  BY <1>1 DEF IInv, TypeOK, TypeBatch, TypeStart, TypeCall, TypeHistory, TypeWorker, ResolutionInv
<1>8. \A q \in Reserved : q \in Slots /\ (Published(q)' <=> Published(q))
  BY <1>1, <1>5, BoundsAssumption
  DEF IInv, TypeOK, TypeReserve, Reserved, Slots, Published, ResolutionsKept
<1>9. CallInv' /\ DeferredInv'
  BY <1>1, <1>5, <1>8 DEF IInv, CallInv, DeferredInv, Reserved, ResolutionsKept
<1>10. PromiseInv'
  BY <1>1, <1>5, <1>8 DEF IInv, PromiseInv, Reserved
<1> QED BY <1>1, <1>5, <1>6, <1>7, <1>9, <1>10, KeepWorkers, QuietStep

\* The closure ends: its resolution has a promise now.
LEMMA PromiseStep ==
    ASSUME IInv, AssignPromise
    PROVE  IInv'
<1> DEFINE r == call.res
           immediate == ~Conditional(r) /\ instr[CallSlot].depth > 1
           own == ~immediate /\ (Conditional(r) \/ commitPromise = 0)
           promise == IF immediate THEN PromiseSuccess ELSE IF own THEN r ELSE commitPromise
           flush == IF own /\ SeparateFlushed THEN flushPromise ELSE 0
           e == [resolution[r] EXCEPT !.promise = promise, !.flush = flush]
<1>1. /\ call.pc = "promise"
      /\ resolution' = [resolution EXCEPT ![r] = e]
      /\ commitPromise' = (IF own /\ ~Conditional(r) THEN r ELSE commitPromise)
      /\ call' = caller /\ caller' = Idle
      /\ UNCHANGED <<word, reserveVars, batchVars, writeBatchStart, outstandingBatchCount,
                     outstandingWriteCount, startVars, flushPromise, settleVars, worker, lock,
                     historyVars>>
  BY DEF AssignPromise
<1>2. r \in Reserved /\ r \in Slots /\ r \in 1..(MaxSlots + 1)
  BY <1>1, CallFacts DEF Slots
<1>3. /\ promise \in -1..(MaxSlots + 1) /\ promise # NoPromise
      /\ flush \in 0..(MaxSlots + 1) /\ commitPromise' \in 0..(MaxSlots + 1)
  <2>1. commitPromise \in 0..(MaxSlots + 1) /\ flushPromise \in 0..(MaxSlots + 1)
    BY DEF IInv, TypeOK, TypeStart
  <2> QED BY <1>1, <1>2, <2>1, BoundsAssumption DEF NoPromise, PromiseSuccess
<1> HIDE DEF promise, flush, e, own, immediate
<1> USE DEF reserveVars, batchVars, startVars, settleVars, historyVars
<1>4. e \in Resolution /\ e.flagPosition = FP(r) /\ e.promise # NoPromise
  <2>1. resolution[r] \in Resolution BY <1>2 DEF IInv, TypeOK, TypeReserve
  <2> QED BY <1>3, <2>1 DEF Resolution, FP, e
<1>5. /\ ResolutionsKept /\ resolution'[call.res].promise # NoPromise
      /\ \A q \in Slots : q # call.res => resolution'[q].promise = resolution[q].promise
  BY <1>1, <1>2, <1>4 DEF IInv, TypeOK, TypeReserve, ResolutionsKept, FP
<1>6. /\ TypeBatch' /\ TypeStart' /\ TypeSettle' /\ TypeHistory' /\ lock' \in Nat \cup {Js}
      /\ unwrittenResolution' <= nextResolution
  BY <1>1, <1>3
  DEF IInv, TypeOK, TypeBatch, TypeStart, TypeSettle, TypeHistory, TypeWorker, ResolutionInv
<1>7. Idle \in Call /\ Idle.pc = "idle" /\ Idle.res = 0
  BY BoundsAssumption DEF Idle, Call
<1>8. TypeCall'
  BY <1>1, <1>7 DEF IInv, TypeOK, TypeCall
<1>9. \A q \in Reserved : q \in Slots /\ (Published(q)' <=> Published(q))
  BY <1>1, <1>5, BoundsAssumption
  DEF IInv, TypeOK, TypeReserve, Reserved, Slots, Published, ResolutionsKept
<1>10. CallInv' /\ DeferredInv'
  <2>1. CallInv'
    BY <1>1, <1>5, <1>7, <1>9, BoundsAssumption
    DEF IInv, TypeOK, TypeReserve, Slots, CallInv, Reserved, ResolutionsKept
  <2>2. DeferredInv'
    BY <1>1, <1>5, <1>9 DEF IInv, CallInv, DeferredInv, Reserved, ResolutionsKept
  <2> QED BY <2>1, <2>2
<1>11. PromiseInv'
  BY <1>1, <1>5, <1>9 DEF IInv, CallInv, PromiseInv, Reserved
<1> QED BY <1>1, <1>5, <1>6, <1>8, <1>10, <1>11, KeepWorkers, QuietStep


\* Linking a transaction delimiter moves no resolution.
LEMMA QueueCommit ==
    ASSUME IInv, NEW r \in Slots,
           QueueCommitResolution(r) \/ UNCHANGED <<resolution, txnResolution>>
    PROVE  /\ ResolutionsKept /\ txnResolution' \in 0..(MaxSlots + 1)
           /\ \A q \in Slots : resolution'[q].promise = resolution[q].promise
<1>1. /\ txnResolution \in 0..(MaxSlots + 1) /\ resolution \in [Slots -> Resolution]
      /\ r \in 0..(MaxSlots + 1)
  BY BoundsAssumption DEF IInv, TypeOK, TypeSettle, TypeReserve, Slots
<1>2. CASE UNCHANGED resolution
  BY <1>1, <1>2 DEF QueueCommitResolution, ResolutionsKept, FP
<1> DEFINE e == [resolution[r] EXCEPT !.isTxn = TRUE]
           mid == [resolution EXCEPT ![r] = e]
<1>3. /\ e \in Resolution /\ e.flagPosition = resolution[r].flagPosition
      /\ e.promise = resolution[r].promise
  <2>1. resolution[r] \in Resolution BY <1>1
  <2> QED BY <2>1 DEF Resolution
<1> HIDE DEF e
<1>4. /\ mid \in [Slots -> Resolution]
      /\ \A q \in Slots : /\ mid[q].flagPosition = resolution[q].flagPosition
                          /\ mid[q].promise = resolution[q].promise
  BY <1>1, <1>3
<1>5. CASE resolution' = mid
  BY <1>1, <1>4, <1>5 DEF QueueCommitResolution, ResolutionsKept, FP
<1> HIDE DEF mid
<1>6. CASE txnResolution # 0 /\ resolution' = [mid EXCEPT ![txnResolution].nextTxn = r]
  <2> DEFINE t == txnResolution
             f == [mid[t] EXCEPT !.nextTxn = r]
  <2>1. t \in Slots /\ mid[t] \in Resolution
    BY <1>1, <1>4, <1>6, BoundsAssumption DEF Slots
  <2>2. f \in Resolution /\ f.flagPosition = mid[t].flagPosition /\ f.promise = mid[t].promise
    BY <1>1, <2>1 DEF Resolution
  <2>3. resolution' = [mid EXCEPT ![t] = f] BY <1>6
  <2> HIDE DEF f
  <2>4. /\ resolution' \in [Slots -> Resolution]
        /\ \A q \in Slots : /\ resolution'[q].flagPosition = resolution[q].flagPosition
                            /\ resolution'[q].promise = resolution[q].promise
    BY <1>4, <2>1, <2>2, <2>3
  <2>5. txnResolution' \in {txnResolution, r}
    BY DEF QueueCommitResolution
  <2> QED BY <1>1, <2>4, <2>5 DEF ResolutionsKept, FP
<1>7. \/ UNCHANGED resolution
      \/ resolution' = mid
      \/ txnResolution # 0 /\ resolution' = [mid EXCEPT ![txnResolution].nextTxn = r]
  BY DEF QueueCommitResolution, mid, e
<1> QED BY <1>2, <1>5, <1>6, <1>7

\* The records of the idle closure, of a write and of a callback.
LEMMA IdleCall == Idle \in Call /\ Idle.pc = "idle" /\ Idle.res = 0
BY BoundsAssumption DEF Idle, Call

\* The call of a write closure.
LEMMA WriteCallRecord ==
    ASSUME NEW r \in 0..(MaxSlots + 1)
    PROVE  WriteCall(r) \in Call /\ WriteCall(r).pc = "publish" /\ WriteCall(r).res = r
BY IdleCall DEF WriteCall, Call

\* The call of a worker's callback.
LEMMA CallbackCallRecord ==
    ASSUME NEW w \in Nat, NEW status \in 0..3
    PROVE  LET c == CallbackCall(w, status)
           IN  c \in Call /\ c.pc = "sweep" /\ c.res = 0 /\ c.worker = w
<1> DEFINE x1 == [Idle EXCEPT !.pc = "sweep"]
           x2 == [x1 EXCEPT !.worker = w]
<1>1. x1 \in Call /\ x1.pc = "sweep" /\ x1.res = 0
  BY IdleCall DEF Call
<1> HIDE DEF x1
<1>2. x2 \in Call /\ x2.pc = "sweep" /\ x2.res = 0 /\ x2.worker = w
  BY <1>1 DEF Call
<1>3. CallbackCall(w, status) = [x2 EXCEPT !.status = status]
  BY DEF CallbackCall, x1
<1> HIDE DEF x2
<1> QED BY <1>2, <1>3 DEF Call

\* The callback of a worker starts while no JavaScript code is running.
LEMMA CallbackStep ==
    ASSUME IInv, NEW w \in DOMAIN worker,
           CommitProgress(w) \/ CallbackProgress(w) \/ Complete(w)
    PROVE  IInv'
<1>1. worker[w] \in Worker /\ w \in Nat BY WorkerTypes DEF IInv
<1>2. PICK status \in 0..3 : Callback(w, status)
  BY DEF CommitProgress, CallbackProgress, Complete, ProgressCommitted, CompletionStatus
<1>3. WorkersKept /\ lock' \in Nat \cup {Js}
  <2>1. CASE CommitProgress(w)
    <3> DEFINE e == [worker[w] EXCEPT !.progress = FALSE]
    <3>1. worker' = [worker EXCEPT ![w] = e] /\ UNCHANGED lock BY <2>1 DEF CommitProgress
    <3>2. /\ e \in Worker /\ e.pos = worker[w].pos /\ e.depth = worker[w].depth
          /\ e.instructions = worker[w].instructions /\ e.loaded = worker[w].loaded
          /\ e.pc = worker[w].pc
      BY <1>1 DEF Worker
    <3> HIDE DEF e
    <3> QED BY <3>1, <3>2, WorkerUpdate DEF WorkersKept, IInv, TypeOK, TypeWorker
  <2>2. CASE CallbackProgress(w)
    <3> DEFINE e == [worker[w] EXCEPT !.finishedProgress = TRUE]
    <3>1. worker' = [worker EXCEPT ![w] = e] /\ lock' = Js BY <2>2 DEF CallbackProgress
    <3>2. /\ e \in Worker /\ e.pos = worker[w].pos /\ e.depth = worker[w].depth
          /\ e.instructions = worker[w].instructions /\ e.loaded = worker[w].loaded
          /\ e.pc = worker[w].pc
      BY <1>1 DEF Worker
    <3> HIDE DEF e
    <3> QED BY <3>1, <3>2, WorkerUpdate DEF WorkersKept, IInv
  <2>3. CASE Complete(w)
    <3> DEFINE e == [worker[w] EXCEPT !.pc = "gone", !.progress = FALSE]
    <3>1. worker' = [worker EXCEPT ![w] = e] /\ UNCHANGED lock /\ worker[w].pc = "done"
      BY <2>3 DEF Complete
    <3>2. /\ e \in Worker /\ e.pos = worker[w].pos /\ e.depth = worker[w].depth
          /\ e.instructions = worker[w].instructions /\ e.loaded = worker[w].loaded
          /\ e.pc = "gone"
      BY <1>1 DEF Worker
    <3> HIDE DEF e
    <3> QED BY <3>1, <3>2, WorkerUpdate DEF WorkersKept, IInv, TypeOK, TypeWorker
  <2> QED BY <2>1, <2>2, <2>3
<1>4. /\ call.pc = "idle" /\ call' = CallbackCall(w, status)
      /\ QueueCommitResolution(nextResolution) \/ UNCHANGED <<resolution, txnResolution>>
      /\ UNCHANGED <<word, reserveVars, batchVars, writeBatchStart, outstandingBatchCount,
                     outstandingWriteCount, startVars, promiseVars, unwrittenResolution,
                     uncommittedResolution, nextTxnCallbacks, flushed, caller, historyVars>>
  BY <1>2 DEF Callback, EventLoopIdle
<1>5. /\ ResolutionsKept /\ txnResolution' \in 0..(MaxSlots + 1)
      /\ \A q \in Slots : resolution'[q].promise = resolution[q].promise
  <2>1. nextResolution \in Slots BY DEF IInv, TypeOK, TypeReserve
  <2> QED BY <1>4, <2>1, QueueCommit
<1> USE DEF reserveVars, batchVars, startVars, promiseVars, historyVars
<1>6. call' \in Call /\ call'.pc = "sweep" /\ call'.res = 0 /\ call'.worker = w
  BY <1>1, <1>4, CallbackCallRecord
<1>7. /\ TypeBatch' /\ TypeStart' /\ TypeSettle' /\ TypeCall' /\ TypeHistory'
      /\ unwrittenResolution' <= nextResolution
  BY <1>4, <1>5, <1>6
  DEF IInv, TypeOK, TypeBatch, TypeStart, TypeSettle, TypeCall, TypeHistory, ResolutionInv
<1>8. \A q \in Reserved : q \in Slots /\ (Published(q)' <=> Published(q))
  BY <1>4, <1>5, BoundsAssumption
  DEF IInv, TypeOK, TypeReserve, Reserved, Slots, Published, ResolutionsKept
<1>9. caller.pc = "idle" BY <1>4 DEF IInv, CallInv
<1>10. CallInv'
  BY <1>3, <1>4, <1>6, <1>9, BoundsAssumption
  DEF IInv, TypeOK, TypeReserve, Slots, CallInv, Reserved, WorkersKept
<1>11. DeferredInv' /\ PromiseInv'
  BY <1>4, <1>5, <1>6, <1>8, <1>9
  DEF IInv, DeferredInv, PromiseInv, Reserved, ResolutionsKept
<1> QED BY <1>3, <1>4, <1>5, <1>7, <1>10, <1>11, QuietStep

\* The callback of a worker returns.
LEMMA EndCallbackStep ==
    ASSUME IInv, EndCallback
    PROVE  IInv'
<1>1. /\ call.pc = "status" /\ call' = Idle
      /\ flushed' \in {flushed, flushed \cup worker[call.worker].resolvers}
      /\ ranIn' = [s \in 1..MaxSlots |->
                     IF call.status = 2 /\ s \in nextTxnCallbacks THEN call.worker ELSE ranIn[s]]
      /\ nextTxnCallbacks' \in {{}, nextTxnCallbacks} /\ lock' \in {Free, lock}
      /\ UNCHANGED <<word, reserveVars, resolution, batchVars, writeBatchStart,
                     outstandingBatchCount, outstandingWriteCount, startVars, promiseVars,
                     txnResolution, unwrittenResolution, uncommittedResolution, caller, worker,
                     txnOf, result, log>>
  BY DEF EndCallback
<1> USE DEF reserveVars, batchVars, startVars, promiseVars
<1>2. call.worker \in DOMAIN worker /\ call.res = 0 /\ caller.pc = "idle"
  BY <1>1 DEF IInv, CallInv
<1>3. worker[call.worker].resolvers \subseteq Slots /\ call.worker \in Nat
  BY <1>2, WorkerTypes DEF IInv, Worker
<1>4. TypeSettle' /\ TypeHistory' /\ lock' \in Nat \cup {Js}
  <2>1. flushed' \subseteq Slots /\ nextTxnCallbacks' \subseteq Slots
    BY <1>1, <1>3 DEF IInv, TypeOK, TypeSettle
  <2>2. ranIn' \in [1..MaxSlots -> Nat]
    BY <1>1, <1>3 DEF IInv, TypeOK, TypeHistory
  <2> QED BY <1>1, <2>1, <2>2 DEF IInv, TypeOK, TypeSettle, TypeHistory, TypeWorker, Free
<1>5. Idle \in Call /\ Idle.pc = "idle" /\ Idle.res = 0
  BY IdleCall
<1>6. TypeBatch' /\ TypeStart' /\ TypeCall' /\ unwrittenResolution' <= nextResolution
  BY <1>1, <1>5 DEF IInv, TypeOK, TypeBatch, TypeStart, TypeCall, ResolutionInv
<1>7. CallInv'
  BY <1>1, <1>2, <1>5, BoundsAssumption
  DEF IInv, TypeOK, TypeReserve, Slots, CallInv, Reserved
<1>8. DeferredInv' /\ PromiseInv'
  BY <1>1, <1>2, <1>5 DEF IInv, DeferredInv, PromiseInv, Reserved, Published, FP
<1> QED BY <1>1, <1>4, <1>6, <1>7, <1>8, KeepResolutions, KeepWorkers, QuietStep


-----------------------------------------------------------------------------
(* Publishing, and starting a worker. *)

\* The parts of the invariant a step that reserves nothing has to prove itself.
LEMMA JsStepInv ==
    ASSUME IInv, ResolutionsKept, UNCHANGED <<reserveVars, batchVars, log>>,
           TypeWord', TypeBatch', TypeStart', TypeSettle', TypeCall', TypeWorker', TypeHistory',
           unwrittenResolution' <= nextResolution, WordInv', CallInv', DeferredInv', PromiseInv',
           HandoffUnique', FrontierInv'
    PROVE  IInv'
<1> USE DEF reserveVars, batchVars
<1>1. TypeOK'
  BY DEF IInv, TypeOK, TypeReserve, ResolutionsKept
<1>2. /\ nextResolution \in Slots /\ \A r \in Reserved : r \in Slots
      /\ \A i \in 1..Len(blocks) : blocks[i] \in Slots
  BY BoundsAssumption DEF IInv, TypeOK, TypeReserve, BatchInv, Reserved, Slots
<1>3. BatchInv'
  BY <1>2 DEF IInv, BatchInv, ResolutionsKept, Reserved
<1>4. ResolutionInv'
  BY <1>2 DEF IInv, ResolutionInv, ResolutionsKept, Reserved
<1>5. NestInv' /\ ExecutedInOrder'
  BY DEF IInv, NestInv, Nest, Delta, ExecutedInOrder
<1> QED BY <1>1, <1>3, <1>4, <1>5 DEF IInv

\* An op code is published in a reserved slot.
LEMMA PublishWord ==
    ASSUME IInv, NEW k \in Slots, k < position, NEW bits \in SUBSET Bits, OP \in bits,
           word' = [word EXCEPT ![k] = bits], UNCHANGED position
    PROVE  /\ TypeWord' /\ WordInv'
           /\ \A s \in Slots : OP \in word'[s] <=> (OP \in word[s] \/ s = k)
           /\ OpenDelimiters' = OpenDelimiters \ {k}
<1>1. TypeWord'
  BY DEF IInv, TypeOK, TypeWord
<1>2. WordInv'
  BY BoundsAssumption DEF IInv, TypeOK, TypeWord, TypeReserve, WordInv, Slots
<1>3. /\ \A s \in Slots : OP \in word'[s] <=> (OP \in word[s] \/ s = k)
      /\ \A s \in Slots : s # k => word'[s] = word[s]
  BY DEF IInv, TypeOK, TypeWord
<1> QED BY <1>1, <1>2, <1>3 DEF OpenDelimiters

\* The right to continue is at `address' and stays there or goes to a new worker.
LEMMA HandOver ==
    ASSUME IInv, NEW address \in 0..MaxSlots, NEW resolvers \in SUBSET Slots,
           UNCHANGED <<reserveVars, batchVars, log>>,
           \A s \in Slots : OP \in word[s] => OP \in word'[s],
           OpenDelimiters' \subseteq OpenDelimiters,
           address = 0 => startAddress = 0 /\ OpenDelimiters' = OpenDelimiters,
           address # 0 => AtFrontier(address) /\ ActiveWorkers = {} /\ OpenDelimiters' = {},
           \/ /\ address # 0 /\ worker' = Append(worker, NewWorker(address, resolvers))
              /\ startAddress' = 0 /\ enqueuedCommit' = FALSE
           \/ /\ UNCHANGED worker /\ startAddress' = address
              /\ enqueuedCommit' => address # 0
    PROVE  /\ HandoffUnique' /\ FrontierInv' /\ worker' \in Seq(Worker)
           /\ \A v \in DOMAIN worker : v \in DOMAIN worker'
<1> USE DEF reserveVars, batchVars
<1>1. \A s : Nest(s)' = Nest(s)
  BY DEF Nest
<1>2. worker \in Seq(Worker)
  BY DEF IInv, TypeOK, TypeWorker
<1>3. CASE UNCHANGED worker /\ startAddress' = address /\ (enqueuedCommit' => address # 0)
  <2>1. ActiveWorkers' = ActiveWorkers
    BY <1>3 DEF ActiveWorkers
  <2>2. HandoffUnique'
    <3>1. CASE address = 0
      BY <1>3, <2>1, <3>1 DEF IInv, HandoffUnique
    <3>2. CASE address # 0
      BY <1>3, <2>1, <3>2 DEF HandoffUnique
    <3> QED BY <3>1, <3>2
  <2>3. \A w \in ActiveWorkers' : WorkerAtFrontier(w)'
    <3> TAKE w \in ActiveWorkers'
    <3>1. w \in DOMAIN worker /\ WorkerAtFrontier(w) /\ worker[w].pos \in Slots
      BY <2>1, WorkerTypes DEF IInv, FrontierInv, ActiveWorkers, Worker
    <3> QED BY <1>1, <1>3, <3>1 DEF WorkerAtFrontier
  <2>4. FrontierInv'
    BY <1>1, <1>3, <2>1, <2>3 DEF IInv, FrontierInv, AtFrontier
  <2> QED BY <1>2, <1>3, <2>2, <2>4
<1>4. CASE /\ address # 0 /\ worker' = Append(worker, NewWorker(address, resolvers))
           /\ startAddress' = 0 /\ enqueuedCommit' = FALSE
  <2> DEFINE e == NewWorker(address, resolvers)
  <2>1. /\ e \in Worker /\ e.pc = "queued" /\ e.pos = address /\ e.depth = 0
        /\ e.instructions = address
    BY <1>4, BoundsAssumption DEF NewWorker, OverlappedWord, Worker, Slots
  <2> HIDE DEF e
  <2>2. PICK m : /\ worker' \in Seq(Worker) /\ m \in DOMAIN worker' /\ worker'[m] = e
                 /\ \A v \in DOMAIN worker : v \in DOMAIN worker' /\ worker'[v] = worker[v]
                 /\ \A v \in DOMAIN worker' : v = m \/ v \in DOMAIN worker
    <3>1. worker' = Append(worker, e) BY <1>4 DEF e
    <3>2. /\ worker' \in Seq(Worker)
          /\ Len(worker) \in Nat /\ DOMAIN worker = 1..Len(worker)
          /\ DOMAIN worker' = 1..(Len(worker) + 1)
          /\ worker'[Len(worker) + 1] = e
          /\ \A i \in 1..Len(worker) : worker'[i] = worker[i]
      BY <1>2, <2>1, <3>1, SeqAppend, SMTT(30)
    <3>3. PICK k \in Nat : k = Len(worker) BY <3>2
    <3>4. /\ DOMAIN worker = 1..k /\ DOMAIN worker' = 1..(k + 1) /\ worker'[k + 1] = e
          /\ \A i \in 1..k : worker'[i] = worker[i]
      BY <3>2, <3>3
    <3>5. /\ k + 1 \in DOMAIN worker' 
          /\ \A v \in DOMAIN worker : v \in DOMAIN worker' /\ worker'[v] = worker[v]
          /\ \A v \in DOMAIN worker' : v = k + 1 \/ v \in DOMAIN worker
      BY <3>4
    <3> QED BY <3>2, <3>4, <3>5
  <2>5. ActiveWorkers' = {m}
    BY <1>4, <2>1, <2>2 DEF ActiveWorkers
  <2>6. HandoffUnique'
    BY <1>4, <2>2, <2>5 DEF HandoffUnique
  <2>7. AtFrontier(address) /\ position \in Slots
    BY <1>4 DEF IInv, TypeOK, TypeReserve
  <2>8. WorkerAtFrontier(m)'
    BY <1>1, <2>1, <2>2, <2>7 DEF AtFrontier, WorkerAtFrontier
  <2>9. \A w \in DOMAIN worker' : worker'[w].instructions <= position
    BY <2>1, <2>2, <2>7 DEF IInv, FrontierInv, AtFrontier
  <2>10. FrontierInv'
    BY <1>4, <2>5, <2>8, <2>9 DEF IInv, FrontierInv
  <2> QED BY <2>2, <2>6, <2>10
<1> QED BY <1>3, <1>4


\* The pending start address is the right to continue, when there is one.
LEMMA PendingAddress ==
    ASSUME IInv
    PROVE  /\ startAddress \in 0..MaxSlots
           /\ startAddress # 0 => /\ AtFrontier(startAddress) /\ ActiveWorkers = {}
                                  /\ OpenDelimiters = {}
BY DEF IInv, TypeOK, TypeStart, FrontierInv, HandoffUnique

\* A slot inside a block is no delimiter.
LEMMA NoDelimiterInBlock ==
    ASSUME IInv, call.pc \in {"publish", "store"}, instr[CallSlot].depth > 0
    PROVE  CallSlot \notin OpenDelimiters
BY CallFacts DEF IInv, FrontierInv, AtFrontier, Nest

\* The queued task hands the pending start address to a new worker.
LEMMA StartTask ==
    ASSUME IInv, RunEnqueuedCommit
    PROVE  IInv'
<1>1. /\ call.pc = "idle" /\ enqueuedCommit
      /\ worker' = Append(worker, NewWorker(startAddress, flushResolvers))
      /\ enqueuedCommit' = FALSE /\ flushResolvers' = {} /\ startAddress' = 0
      /\ UNCHANGED <<word, reserveVars, resolution, batchVars, writeBatchStart,
                     outstandingBatchCount, outstandingWriteCount, promiseVars, settleVars, call,
                     caller, lock, historyVars>>
  BY DEF RunEnqueuedCommit, StartWriting, EventLoopIdle
<1>2. /\ startAddress # 0 /\ startAddress \in 0..MaxSlots /\ AtFrontier(startAddress)
      /\ ActiveWorkers = {} /\ OpenDelimiters = {} /\ flushResolvers \in SUBSET Slots
  BY <1>1, PendingAddress DEF IInv, FrontierInv, TypeOK, TypeStart
<1>3. OpenDelimiters' = OpenDelimiters /\ UNCHANGED <<reserveVars, batchVars, log>>
  BY <1>1 DEF OpenDelimiters, historyVars
<1>4. PICK a \in 0..MaxSlots, f \in SUBSET Slots : a = startAddress /\ f = flushResolvers
  BY <1>2
<1>5. a # 0 /\ AtFrontier(a) /\ worker' = Append(worker, NewWorker(a, f))
  BY <1>1, <1>2, <1>4
<1>6. /\ HandoffUnique' /\ FrontierInv' /\ worker' \in Seq(Worker)
      /\ \A v \in DOMAIN worker : v \in DOMAIN worker'
  BY <1>1, <1>2, <1>3, <1>5, HandOver
<1> USE DEF reserveVars, batchVars, promiseVars, settleVars, historyVars
<1>7. /\ TypeWord' /\ TypeBatch' /\ TypeStart' /\ TypeSettle' /\ TypeCall' /\ TypeWorker'
      /\ TypeHistory'
  <2>1. TypeStart'
    <3>1. enqueuedCommit' \in BOOLEAN /\ flushResolvers' \subseteq Slots
      BY <1>1
    <3>2. startAddress' \in 0..MaxSlots
      BY <1>1, BoundsAssumption
    <3>3. commitPromise' \in 0..(MaxSlots + 1) /\ flushPromise' \in 0..(MaxSlots + 1)
      BY <1>1 DEF IInv, TypeOK, TypeStart
    <3> QED BY <3>1, <3>2, <3>3 DEF TypeStart
  <2>2. TypeWorker'
    BY <1>1, <1>6 DEF IInv, TypeOK, TypeWorker
  <2>3. TypeWord' /\ TypeBatch' /\ TypeSettle' /\ TypeCall' /\ TypeHistory'
    BY <1>1 DEF IInv, TypeOK, TypeWord, TypeBatch, TypeSettle, TypeCall, TypeHistory
  <2> QED BY <2>1, <2>2, <2>3
<1>8. WordInv' /\ unwrittenResolution' <= nextResolution
  BY <1>1 DEF IInv, WordInv, ResolutionInv
<1>9. CallInv' /\ DeferredInv' /\ PromiseInv'
  BY <1>1, <1>6 DEF IInv, CallInv, DeferredInv, PromiseInv, Reserved, Published, FP
<1> QED BY <1>1, <1>3, <1>6, <1>7, <1>8, <1>9, KeepResolutions, JsStepInv

\* The closure after it knows the previous status of its word; `address' is
\* where the next worker has to start.
LEMMA NoteStep ==
    ASSUME IInv, NEW seen, call.pc \in {"publish", "note"}, NoteWrite(call.res, seen),
           UNCHANGED <<writeBatchStart, outstandingBatchCount>>,
           TypeWord', WordInv',
           \A s \in Slots : OP \in word[s] => OP \in word'[s],
           OpenDelimiters' \subseteq OpenDelimiters,
           TXN_DELIMITER \in seen => OpenDelimiters = {CallSlot} /\ OpenDelimiters' = {},
           TXN_DELIMITER \notin seen => OpenDelimiters' = OpenDelimiters,
           \/ call.pc = "note" /\ UNCHANGED word
           \/ /\ call.pc = "publish"
              /\ \A s \in Slots : OP \in word'[s] <=> (OP \in word[s] \/ s = CallSlot)
    PROVE  IInv'
<1> DEFINE r == call.res
           ended == TXN_DELIMITER \in seen
           address == AddressAfter(r, ended)
           newFlush == (ended \/ flushPromise = 0) /\ OverlappingSync /\ SeparateFlushed
           resolvers == flushResolvers \cup IF newFlush THEN {r} ELSE {}
<1>1. /\ outstandingWriteCount' = outstandingWriteCount + 1
      /\ commitPromise' \in {0, commitPromise}
      /\ flushPromise' \in {0, r, flushPromise}
      /\ QueueCommitResolution(r) \/ UNCHANGED <<resolution, txnResolution>>
      /\ \/ /\ address # 0 /\ worker' = Append(worker, NewWorker(address, resolvers))
            /\ startAddress' = 0 /\ enqueuedCommit' = FALSE /\ flushResolvers' = {}
         \/ /\ UNCHANGED worker /\ startAddress' = address
            /\ enqueuedCommit' = (enqueuedCommit \/ address # 0) /\ flushResolvers' = resolvers
      /\ \E pc \in {"sweep", "promise"} : call' = [call EXCEPT !.pc = pc]
      /\ UNCHANGED <<reserveVars, batchVars, unwrittenResolution, uncommittedResolution,
                     nextTxnCallbacks, flushed, caller, lock, historyVars>>
  BY DEF NoteWrite, StartWriting, CommitPromiseAfter
<1>2. /\ r \in Reserved /\ r \in Slots /\ CallSlot = FP(r) /\ CallSlot \in 1..MaxSlots
      /\ CallSlot # 0
  BY CallFacts
<1>3. /\ address \in 0..MaxSlots /\ resolvers \in SUBSET Slots
      /\ address = 0 => startAddress = 0 /\ OpenDelimiters' = OpenDelimiters
      /\ address # 0 => AtFrontier(address) /\ ActiveWorkers = {} /\ OpenDelimiters' = {}
  <2>1. resolvers \in SUBSET Slots
    BY <1>2 DEF IInv, TypeOK, TypeStart
  <2>2. CASE ended
    <3>1. startAddress = 0 /\ ActiveWorkers = {} /\ AtFrontier(CallSlot)
      BY <2>2 DEF IInv, HandoffUnique, FrontierInv
    <3>2. address = CallSlot
      BY <1>2, <2>2, <3>1 DEF AddressAfter, FP
    <3> QED BY <1>2, <2>1, <2>2, <3>1, <3>2
  <2>3. CASE ~ended
    <3>1. address = startAddress BY <2>3 DEF AddressAfter
    <3> QED BY <2>1, <2>3, <3>1, PendingAddress
  <2> QED BY <2>2, <2>3
<1>4. enqueuedCommit => address # 0
  BY <1>2 DEF IInv, FrontierInv, AddressAfter, FP
<1>5. PICK a \in 0..MaxSlots, f \in SUBSET Slots : a = address /\ f = resolvers
  BY <1>3
<1> HIDE DEF address, resolvers, ended
<1>6. UNCHANGED <<reserveVars, batchVars, log>>
  BY <1>1 DEF historyVars
<1>7. /\ HandoffUnique' /\ FrontierInv' /\ worker' \in Seq(Worker)
      /\ \A v \in DOMAIN worker : v \in DOMAIN worker'
  <2>1. /\ a = 0 => startAddress = 0 /\ OpenDelimiters' = OpenDelimiters
        /\ a # 0 => AtFrontier(a) /\ ActiveWorkers = {} /\ OpenDelimiters' = {}
    BY <1>3, <1>5
  <2>2. \/ /\ a # 0 /\ worker' = Append(worker, NewWorker(a, f))
           /\ startAddress' = 0 /\ enqueuedCommit' = FALSE
        \/ /\ UNCHANGED worker /\ startAddress' = a
           /\ enqueuedCommit' => a # 0
    BY <1>1, <1>4, <1>5
  <2> QED BY <1>6, <2>1, <2>2, HandOver
<1>8. /\ ResolutionsKept /\ txnResolution' \in 0..(MaxSlots + 1)
      /\ \A q \in Slots : resolution'[q].promise = resolution[q].promise
  BY <1>1, <1>2, QueueCommit
<1>9. PICK pc \in {"sweep", "promise"} : call' = [call EXCEPT !.pc = pc]
  BY <1>1
<1>10. call' \in Call /\ call'.pc = pc /\ call'.res = r /\ call'.worker = call.worker
  BY <1>9 DEF IInv, TypeOK, TypeCall, Call
<1>11. TypeStart'
  <2>1. flushPromise' \in 0..(MaxSlots + 1) /\ commitPromise' \in 0..(MaxSlots + 1)
    BY <1>1, <1>2, BoundsAssumption DEF IInv, TypeOK, TypeStart, Slots
  <2>2. startAddress' \in 0..MaxSlots /\ flushResolvers' \subseteq Slots
    BY <1>1, <1>3, BoundsAssumption
  <2>3. enqueuedCommit' \in BOOLEAN
    BY <1>1
  <2> QED BY <2>1, <2>2, <2>3 DEF TypeStart
<1> USE DEF reserveVars, batchVars, historyVars
<1>12. TypeBatch' /\ TypeSettle' /\ TypeCall' /\ TypeWorker' /\ TypeHistory'
  BY <1>1, <1>7, <1>8, <1>10
  DEF IInv, TypeOK, TypeBatch, TypeSettle, TypeCall, TypeWorker, TypeHistory
<1>13. unwrittenResolution' <= nextResolution
  BY <1>1 DEF IInv, ResolutionInv
<1>14. \A q \in Reserved : /\ q \in Slots /\ FP(q) \in Slots
                           /\ Published(q)' => (Published(q) \/ (call.pc = "publish" /\ q = r))
                           /\ FP(q)' = FP(q)
  <2> TAKE q \in Reserved
  <2>1. q \in Slots /\ FP(q) \in Slots
    BY BoundsAssumption DEF IInv, TypeOK, TypeReserve, ResolutionInv, Reserved, Slots
  <2>2. FP(q) = FP(r) => q = r
    BY <1>2 DEF IInv, ResolutionInv
  <2> QED BY <1>2, <1>8, <2>1, <2>2 DEF ResolutionsKept, Published
<1>15. CallInv'
  BY <1>1, <1>2, <1>7, <1>10, <1>14 DEF IInv, CallInv, Reserved
<1>16. DeferredInv'
  BY <1>1, <1>10, <1>14 DEF IInv, DeferredInv, Reserved
<1>17. PromiseInv'
  BY <1>1, <1>8, <1>10, <1>14 DEF IInv, PromiseInv, Reserved
<1> QED BY <1>6, <1>7, <1>8, <1>11, <1>12, <1>13, <1>15, <1>16, <1>17, JsStepInv

\* Publishing with Atomics.or, and the tail of a plainly published write.
LEMMA PublishStep ==
    ASSUME IInv, PublishAtomic \/ NotePlainWrite
    PROVE  IInv'
<1>1. CASE PublishAtomic
  <2>1. /\ call.pc = "publish" /\ word' = [word EXCEPT ![CallSlot] = @ \cup {OP}]
        /\ NoteWrite(call.res, word[CallSlot]) /\ UNCHANGED <<writeBatchStart, outstandingBatchCount>>
        /\ UNCHANGED position
    BY <1>1 DEF PublishAtomic, NoteWrite, reserveVars
  <2>2. CallSlot \in Slots /\ CallSlot < position /\ OP \notin word[CallSlot]
    BY <2>1, CallFacts
  <2>3. PICK k \in Slots, bits \in SUBSET Bits : k = CallSlot /\ bits = word[k] \cup {OP}
    BY <2>2 DEF IInv, TypeOK, TypeWord, Bits
  <2>4. word' = [word EXCEPT ![k] = bits] /\ OP \in bits /\ k < position
    BY <2>1, <2>2, <2>3
  <2>5. /\ TypeWord' /\ WordInv'
        /\ \A s \in Slots : OP \in word'[s] <=> (OP \in word[s] \/ s = k)
        /\ OpenDelimiters' = OpenDelimiters \ {k}
    BY <2>1, <2>4, PublishWord
  <2>6. /\ TXN_DELIMITER \in word[k] => OpenDelimiters = {k} /\ OpenDelimiters' = {}
        /\ TXN_DELIMITER \notin word[k] => OpenDelimiters' = OpenDelimiters
    <3>1. CASE TXN_DELIMITER \in word[k]
      <4>1. k \in OpenDelimiters BY <2>2, <2>3, <3>1 DEF OpenDelimiters
      <4> QED BY <2>5, <3>1, <4>1 DEF IInv, HandoffUnique
    <3>2. CASE TXN_DELIMITER \notin word[k]
      BY <2>5, <3>2 DEF OpenDelimiters
    <3> QED BY <3>1, <3>2
  <2>7. PICK seen : seen = word[k] OBVIOUS
  <2>8. NoteWrite(call.res, seen)
    BY <2>1, <2>3, <2>7
  <2> QED BY <2>1, <2>3, <2>5, <2>6, <2>7, <2>8, NoteStep
<1>2. CASE NotePlainWrite
  <2>1. /\ call.pc = "note" /\ NoteWrite(call.res, call.seen)
        /\ UNCHANGED <<word, writeBatchStart, outstandingBatchCount>>
    BY <1>2 DEF NotePlainWrite
  <2>2. TXN_DELIMITER \notin call.seen
    BY <2>1 DEF IInv, CallInv
  <2>3. OpenDelimiters' = OpenDelimiters /\ TypeWord'
    BY <2>1 DEF OpenDelimiters, IInv, TypeOK, TypeWord
  <2>4. WordInv'
    BY <2>1 DEF IInv, WordInv, NoteWrite, reserveVars
  <2>5. PICK seen : seen = call.seen OBVIOUS
  <2>6. NoteWrite(call.res, seen) /\ TXN_DELIMITER \notin seen
    BY <2>1, <2>2, <2>5
  <2> QED BY <2>1, <2>3, <2>4, <2>6, NoteStep
<1> QED BY <1>1, <1>2


\* Publishing with a plain store, which can meet no open delimiter.
LEMMA PlainStore ==
    ASSUME IInv, PublishStore
    PROVE  IInv'
<1> DEFINE counted == writeBatchStart # 0 /\ call.seen = {}
           early == counted /\ outstandingBatchCount + 1 > BatchStartThreshold
           noted == [call EXCEPT !.pc = "note"]
<1>1. /\ call.pc = "store" /\ word' = [word EXCEPT ![CallSlot] = {OP}]
      /\ outstandingBatchCount' \in {0, outstandingBatchCount, outstandingBatchCount + 1}
      /\ writeBatchStart' = IF early THEN 0 ELSE writeBatchStart
      /\ call' = IF early THEN WriteCall(writeBatchStart) ELSE noted
      /\ caller' = IF early THEN noted ELSE caller
      /\ UNCHANGED <<reserveVars, resolution, batchVars, outstandingWriteCount, startVars,
                     promiseVars, settleVars, worker, lock, historyVars>>
  BY DEF PublishStore
<1>2. /\ call.res \in Reserved /\ call.res \in Slots /\ CallSlot = FP(call.res)
      /\ CallSlot \in Slots /\ CallSlot < position
      /\ instr[CallSlot].depth > 0 /\ OP \notin word[CallSlot] /\ CallSlot \notin OpenDelimiters
  <2>1. instr[CallSlot].depth > 0 BY <1>1, CallFacts DEF IInv, CallInv
  <2> QED BY <1>1, <2>1, CallFacts, NoDelimiterInBlock
<1>3. PICK k \in Slots : k = CallSlot BY <1>2
<1>4. /\ TypeWord' /\ WordInv'
      /\ \A s \in Slots : OP \in word'[s] <=> (OP \in word[s] \/ s = k)
      /\ OpenDelimiters' = OpenDelimiters
  <2>1. word' = [word EXCEPT ![k] = {OP}] /\ k < position /\ UNCHANGED position
    BY <1>1, <1>2, <1>3 DEF reserveVars
  <2>2. {OP} \in SUBSET Bits /\ OP \in {OP} BY DEF Bits
  <2>3. /\ TypeWord' /\ WordInv'
        /\ \A s \in Slots : OP \in word'[s] <=> (OP \in word[s] \/ s = k)
        /\ OpenDelimiters' = OpenDelimiters \ {k}
    BY <2>1, <2>2, PublishWord
  <2> QED BY <1>2, <1>3, <2>3
<1>5. HandoffUnique' /\ FrontierInv' /\ TypeWorker'
  <2>1. PICK a \in 0..MaxSlots : a = startAddress BY PendingAddress
  <2>2. /\ a # 0 => AtFrontier(a) /\ ActiveWorkers = {} /\ OpenDelimiters' = {}
        /\ a = 0 => startAddress = 0 /\ OpenDelimiters' = OpenDelimiters
    BY <1>4, <2>1, PendingAddress
  <2>3. /\ UNCHANGED <<reserveVars, batchVars, log>> /\ UNCHANGED worker /\ startAddress' = a
        /\ enqueuedCommit' => a # 0
    BY <1>1, <2>1 DEF startVars, historyVars, IInv, FrontierInv
  <2>4. {} \in SUBSET Slots OBVIOUS
  <2>5. HandoffUnique' /\ FrontierInv' /\ worker' \in Seq(Worker)
    BY <1>4, <2>2, <2>3, <2>4, HandOver
  <2> QED BY <1>1, <2>5 DEF IInv, TypeOK, TypeWorker
<1>6. /\ noted \in Call /\ noted.pc = "note" /\ noted.res = call.res /\ noted.seen = call.seen
  BY DEF IInv, TypeOK, TypeCall, Call
<1>7. early => /\ writeBatchStart \in Reserved /\ ~Published(writeBatchStart)
               /\ instr[FP(writeBatchStart)].depth = 0 /\ call.res # writeBatchStart
               /\ writeBatchStart # 0 /\ writeBatchStart \in 0..(MaxSlots + 1)
  <2>1. Len(blocks) > 0
    BY <1>1, <1>2 DEF IInv, CallInv, TypeOK, TypeBatch
  <2> QED BY <1>1, <2>1 DEF IInv, DeferredInv, TypeOK, TypeBatch
<1>8. early => /\ WriteCall(writeBatchStart) \in Call
               /\ WriteCall(writeBatchStart).pc = "publish"
               /\ WriteCall(writeBatchStart).res = writeBatchStart
  BY <1>7, WriteCallRecord
<1>9. \/ early /\ call' = WriteCall(writeBatchStart) /\ caller' = noted /\ writeBatchStart' = 0
      \/ ~early /\ call' = noted /\ caller' = caller /\ writeBatchStart' = writeBatchStart
  BY <1>1
<1> HIDE DEF early, noted
<1> USE DEF reserveVars, batchVars, startVars, promiseVars, settleVars, historyVars
<1>10. /\ TypeBatch' /\ TypeStart' /\ TypeSettle' /\ TypeHistory'
       /\ unwrittenResolution' <= nextResolution
  <2>1. outstandingBatchCount' \in Nat /\ writeBatchStart' \in 0..(MaxSlots + 1)
    BY <1>1, BoundsAssumption DEF IInv, TypeOK, TypeBatch
  <2> QED BY <1>1, <2>1
          DEF IInv, TypeOK, TypeBatch, TypeStart, TypeSettle, TypeHistory, ResolutionInv
<1>11. TypeCall'
  BY <1>6, <1>8, <1>9 DEF IInv, TypeOK, TypeCall
<1>12. \A q \in Reserved : /\ q \in Slots /\ FP(q)' = FP(q)
                           /\ Published(q)' <=> (Published(q) \/ q = call.res)
  <2> TAKE q \in Reserved
  <2>1. q \in Slots /\ FP(q) \in Slots
    BY BoundsAssumption DEF IInv, TypeOK, TypeReserve, ResolutionInv, Reserved, Slots
  <2>2. FP(q) = FP(call.res) => q = call.res
    BY <1>2 DEF IInv, ResolutionInv
  <2>3. FP(q)' = FP(q) BY <1>1 DEF FP
  <2> QED BY <1>2, <1>3, <1>4, <2>1, <2>2, <2>3 DEF Published
<1>13. caller.pc = "idle" /\ TXN_DELIMITER \notin call.seen
  BY <1>1 DEF IInv, CallInv
<1>14. CallInv'
  <2>1. CASE early
    BY <1>1, <1>2, <1>6, <1>7, <1>8, <1>9, <1>12, <1>13, <2>1, BoundsAssumption
    DEF IInv, TypeOK, TypeReserve, Slots, CallInv, Reserved
  <2>2. CASE ~early
    BY <1>1, <1>2, <1>6, <1>9, <1>12, <1>13, <2>2, BoundsAssumption
    DEF IInv, TypeOK, TypeReserve, Slots, CallInv, Reserved
  <2> QED BY <2>1, <2>2
<1>15. DeferredInv'
  BY <1>1, <1>6, <1>9, <1>12 DEF IInv, DeferredInv, Reserved
<1>16. PromiseInv'
  BY <1>1, <1>6, <1>8, <1>9, <1>12, <1>13 DEF IInv, PromiseInv, Reserved
<1> QED BY <1>1, <1>4, <1>5, <1>10, <1>11, <1>14, <1>15, <1>16, KeepResolutions, JsStepInv

\* Every step of the running JavaScript function keeps the invariant.
LEMMA CallStepPreserves ==
    ASSUME IInv, CallStep
    PROVE  IInv'
BY PublishStep, CounterStep, PlainStore, PromiseStep, SweepStep, SettleStep, EndCallbackStep
DEF CallStep


-----------------------------------------------------------------------------
(* Ending a block. *)

\* FinishBatch takes the next slot, which is no delimiter, for a BLOCK_END.
LEMMA FinishBatchInv ==
    ASSUME IInv, NEW depth \in Nat, Len(blocks) > 0, FinishBatch(depth),
           UNCHANGED <<settleVars, startVars, worker, historyVars>>
    PROVE  /\ TypeWord' /\ TypeReserve' /\ ResolutionInv' /\ WordInv' /\ NestInv'
           /\ HandoffUnique' /\ FrontierInv' /\ ExecutedInOrder'
           /\ blocks' \in Seq(Slots) /\ Len(blocks') = Len(blocks) - 1
           /\ \A i \in 1..Len(blocks') : blocks'[i] = blocks[i]
           /\ position' = position + 1 /\ nextResolution' = nextResolution
           /\ \A q \in Reserved : /\ FP(q)' = FP(q) /\ (Published(q)' <=> Published(q))
                                  /\ instr'[FP(q)] = instr[FP(q)]
                                  /\ resolution'[q].promise = resolution[q].promise
<1>1. PICK p \in Slots, n \in Slots : p = position /\ n = nextResolution
  BY DEF IInv, TypeOK, TypeReserve
<1>2. /\ instr' = [instr EXCEPT ![p] = [kind |-> "END", depth |-> depth, within |-> blocks]]
      /\ position' = p + 1 /\ nextResolution' = n
      /\ blocks' = SubSeq(blocks, 1, Len(blocks) - 1)
      /\ resolution' = [resolution EXCEPT ![n].flagPosition = @ + 1]
  BY <1>1 DEF FinishBatch
<1>3. /\ p \in 1..MaxSlots /\ p + 1 \in Slots /\ Len(blocks) \in Nat /\ blocks \in Seq(Slots)
      /\ p + Len(blocks) <= MaxSlots + 1
  BY <1>1, BoundsAssumption DEF IInv, TypeOK, TypeBatch, BatchInv, Slots
<1>4. PICK bits \in SUBSET Bits : /\ OP \in bits /\ (TXN_DELIMITER \in bits => TXN_DELIMITER \in word[p])
                                  /\ word' = [word EXCEPT ![p + 1] = {}, ![p] = bits]
  <2>1. word' = [word EXCEPT ![p + 1] = {}, ![p] = IF depth = 0 THEN word[p] \cup {OP} ELSE {OP}]
    <3>1. [word EXCEPT ![p + 1] = {}][p] = word[p]
      BY <1>3 DEF IInv, TypeOK, TypeWord
    <3> QED BY <1>1, <3>1 DEF FinishBatch
  <2>2. word[p] \cup {OP} \in SUBSET Bits /\ {OP} \in SUBSET Bits
    BY DEF IInv, TypeOK, TypeWord, Bits
  <2>3. TXN_DELIMITER \notin {OP} BY DEF TXN_DELIMITER, OP
  <2>4. CASE depth = 0
    <3>1. word' = [word EXCEPT ![p + 1] = {}, ![p] = word[p] \cup {OP}] BY <2>1, <2>4
    <3>2. TXN_DELIMITER \in word[p] \cup {OP} => TXN_DELIMITER \in word[p] BY <2>3
    <3>3. OP \in word[p] \cup {OP} OBVIOUS
    <3> QED BY <2>2, <3>1, <3>2, <3>3
  <2>5. CASE depth # 0
    BY <2>1, <2>2, <2>3, <2>5
  <2> QED BY <2>4, <2>5
<1>5. /\ TypeWord' /\ word'[p] = bits /\ word'[p + 1] = {} /\ p # p + 1
      /\ \A s \in Slots : s # p /\ s # p + 1 => word'[s] = word[s]
  <2>1. word \in [Slots -> SUBSET Bits] BY DEF IInv, TypeOK, TypeWord
  <2>2. p # p + 1 BY <1>3
  <2> QED BY <1>3, <1>4, <2>1, <2>2 DEF TypeWord
<1>6. /\ TypeReserve' /\ FP(n)' = p + 1 /\ \A q \in Slots : q # n => FP(q)' = FP(q)
      /\ \A q \in Slots : resolution'[q].promise = resolution[q].promise
      /\ \A s \in 1..MaxSlots : s # p => instr'[s] = instr[s]
      /\ instr'[p].kind = "END" /\ instr'[p].within = blocks
  <2> DEFINE e == [kind |-> "END", depth |-> depth, within |-> blocks]
             f == [resolution[n] EXCEPT !.flagPosition = p + 1]
  <2>1. e \in Instruction /\ e.kind = "END" /\ e.within = blocks
    BY <1>3 DEF Instruction, Kinds
  <2>2. resolution[n] \in Resolution /\ resolution[n].flagPosition = p
    BY <1>1 DEF IInv, TypeOK, TypeReserve, ResolutionInv, FP
  <2>3. f \in Resolution /\ f.flagPosition = p + 1 /\ f.promise = resolution[n].promise
    <3>1. PICK x \in Resolution, k \in 0..(MaxSlots + 1) : x = resolution[n] /\ k = p + 1
      BY <1>3, <2>2, BoundsAssumption DEF Slots
    <3>2. f = [x EXCEPT !.flagPosition = k] BY <3>1
    <3> HIDE DEF f
    <3>3. f \in Resolution /\ f.flagPosition = k /\ f.promise = x.promise
      BY <3>2 DEF Resolution
    <3> QED BY <3>1, <3>3
  <2>4. instr' = [instr EXCEPT ![p] = e] /\ resolution' = [resolution EXCEPT ![n] = f]
    BY <1>2, <2>2
  <2> HIDE DEF e, f
  <2>5. /\ instr' \in [1..MaxSlots -> Instruction] /\ instr'[p] = e
        /\ \A s \in 1..MaxSlots : s # p => instr'[s] = instr[s]
    BY <1>3, <2>1, <2>4 DEF IInv, TypeOK, TypeReserve
  <2>6. /\ resolution' \in [Slots -> Resolution] /\ resolution'[n] = f
        /\ \A q \in Slots : q # n => resolution'[q] = resolution[q]
    BY <2>3, <2>4 DEF IInv, TypeOK, TypeReserve
  <2> QED BY <1>1, <1>2, <1>3, <2>1, <2>3, <2>5, <2>6 DEF TypeReserve, FP
<1>7. /\ blocks' \in Seq(Slots) /\ Len(blocks') = Len(blocks) - 1
      /\ \A i \in 1..Len(blocks') : blocks'[i] = blocks[i]
  BY <1>2, <1>3, SeqFront
<1>8. \A q \in Reserved : /\ q \in Slots /\ q # n /\ FP(q) \in Slots /\ FP(q) < p
                          /\ FP(q) \in 1..MaxSlots /\ FP(q)' = FP(q)
                          /\ instr'[FP(q)] = instr[FP(q)]
  <2> TAKE q \in Reserved
  <2>1. q \in Slots /\ q # n BY <1>1, BoundsAssumption DEF Reserved, Slots
  <2>2. FP(q) \in 1..(position - 1) BY DEF IInv, ResolutionInv
  <2>3. FP(q) \in Slots /\ FP(q) < p /\ FP(q) \in 1..MaxSlots
    BY <1>1, <1>3, <2>2, BoundsAssumption DEF Slots
  <2> QED BY <1>6, <2>1, <2>3
<1>9. ResolutionInv'
  <2>1. unwrittenResolution' = unwrittenResolution BY DEF settleVars
  <2>2. nextResolution' <= position' /\ FP(nextResolution)' = position'
    BY <1>1, <1>2, <1>6 DEF IInv, ResolutionInv, FP, Slots
  <2>3. \A r \in Reserved' : /\ FP(r)' \in 1..(position' - 1)
                             /\ instr'[FP(r)'].kind # "END"
                             /\ instr'[FP(r)'].depth = 0 <=> Len(instr'[FP(r)'].within) = 0
    BY <1>1, <1>2, <1>8 DEF IInv, ResolutionInv, Reserved, Slots
  <2>4. \A r, q \in Reserved' : FP(r)' = FP(q)' => r = q
    BY <1>1, <1>2, <1>8 DEF IInv, ResolutionInv, Reserved
  <2> QED BY <1>1, <1>2, <2>1, <2>2, <2>3, <2>4 DEF IInv, ResolutionInv
<1>10. WordInv'
  <2> SUFFICES ASSUME NEW s \in Slots
               PROVE  /\ s >= p + 1 => OP \notin word'[s]
                      /\ s > p + 1 => word'[s] = {}
                      /\ FINISHED_OPERATION \in word'[s] => OP \in word'[s]
    BY <1>2 DEF WordInv
  <2>1. /\ s >= p => OP \notin word[s]
        /\ s > p => word[s] = {}
        /\ FINISHED_OPERATION \in word[s] => OP \in word[s]
    BY <1>1 DEF IInv, WordInv
  <2>2. s \in Int /\ p \in Int BY BoundsAssumption DEF Slots
  <2>3. CASE s = p BY <1>4, <1>5, <2>2, <2>3
  <2>4. CASE s = p + 1 BY <1>5, <2>2, <2>4
  <2>5. CASE s # p /\ s # p + 1 BY <1>5, <2>1, <2>2, <2>5
  <2> QED BY <2>3, <2>4, <2>5
<1>11. /\ \A s \in Slots : s <= p => Nest(s)' = Nest(s)
       /\ Nest(p + 1)' = Nest(p) - 1
       /\ \A s \in 1..(p - 1) : Delta(s)' = Delta(s)
       /\ Delta(p)' = -1
  <2>1. \A s \in Slots : s < p => Nest(s)' = Nest(s)
    BY <1>1, <1>2, <1>3, <1>6 DEF Nest, Slots
  <2>2. Nest(p)' = Nest(p)
    BY <1>1, <1>2, <1>3, <1>6 DEF Nest
  <2>3. Nest(p + 1)' = Nest(p) - 1
    BY <1>1, <1>2, <1>3, <1>7 DEF Nest
  <2>4. \A s \in 1..(p - 1) : Delta(s)' = Delta(s)
    <3> TAKE s \in 1..(p - 1)
    <3>1. s \in 1..MaxSlots /\ s # p BY <1>3, BoundsAssumption
    <3> QED BY <1>6, <3>1 DEF Delta
  <2>5. Delta(p)' = -1
    BY <1>6 DEF Delta
  <2> QED BY <2>1, <2>2, <2>3, <2>4, <2>5, <1>3 DEF Slots
<1>12. NestInv'
  <2>1. SUFFICES ASSUME NEW s \in 1..p PROVE Nest(s + 1)' = Nest(s)' + Delta(s)'
    BY <1>2, <1>3 DEF NestInv
  <2>2. CASE s = p
    <3>1. Nest(p) \in Int BY <1>1, <1>3 DEF Nest
    <3> QED BY <1>3, <1>11, <2>2, <3>1 DEF Slots
  <2>3. CASE s # p
    <3>1. s \in 1..(p - 1) /\ s + 1 <= p /\ s \in Slots /\ s + 1 \in Slots /\ s <= p
      BY <1>3, <2>3, BoundsAssumption DEF Slots
    <3>2. Nest(s + 1) = Nest(s) + Delta(s)
      BY <1>1, <3>1 DEF IInv, NestInv
    <3> QED BY <1>11, <3>1, <3>2
  <2> QED BY <2>2, <2>3
<1>13. OpenDelimiters' = OpenDelimiters
  <2>1. p \notin OpenDelimiters
    BY <1>1, <1>3 DEF IInv, FrontierInv, AtFrontier, Nest
  <2>2. TXN_DELIMITER \notin word[p]
    <3>1. OP \notin word[p] BY <1>1, <1>3, BoundsAssumption DEF IInv, WordInv, Slots
    <3> QED BY <2>1, <3>1 DEF OpenDelimiters
  <2>3. word[p + 1] = {}
    BY <1>1, <1>3 DEF IInv, WordInv
  <2> QED BY <1>4, <1>5, <2>2, <2>3 DEF OpenDelimiters
<1>14. ActiveWorkers' = ActiveWorkers
  BY DEF ActiveWorkers
<1>15. HandoffUnique'
  BY <1>13, <1>14, SameToken DEF IInv, startVars
<1>16. \A q \in Reserved : Published(q)' <=> Published(q)
  BY <1>5, <1>8 DEF Published, Slots
<1>17. FrontierInv'
  <2>1. \A s \in Slots : AtFrontier(s) => AtFrontier(s)'
    BY <1>1, <1>2, <1>3, <1>11 DEF AtFrontier, Slots, historyVars
  <2>2. \A w \in ActiveWorkers : WorkerAtFrontier(w)'
    <3> TAKE w \in ActiveWorkers
    <3>1. w \in DOMAIN worker /\ WorkerAtFrontier(w) /\ worker[w].pos \in Slots
      BY WorkerTypes DEF IInv, FrontierInv, ActiveWorkers, Worker
    <3>2. CASE worker[w].pc = "store"
      <4>1. /\ OP \in word[worker[w].pos] /\ worker[w].pos = Len(log) /\ OP \in worker[w].loaded
            /\ worker[w].depth = Nest(worker[w].pos + 1)
        BY <3>1, <3>2 DEF WorkerAtFrontier
      <4>2. PICK k \in Slots : k = worker[w].pos BY <3>1
      <4>3. k < p /\ k + 1 \in Slots /\ k + 1 <= p
        <5>1. ~(k >= p) BY <1>1, <4>1, <4>2 DEF IInv, WordInv
        <5>2. k \in 1..(MaxSlots + 1) BY DEF Slots
        <5> QED BY <1>3, <5>1, <5>2, BoundsAssumption DEF Slots
      <4>4. word'[k] = word[k] BY <1>3, <1>5, <4>3
      <4>5. Nest(k + 1)' = Nest(k + 1) BY <1>11, <4>3
      <4> QED BY <3>2, <4>1, <4>2, <4>4, <4>5 DEF WorkerAtFrontier, historyVars
    <3>3. CASE worker[w].pc # "store"
      <4>1. PICK k \in Slots : k = worker[w].pos /\ k <= p /\ k = Len(log) + 1
                               /\ worker[w].depth = Nest(k)
        BY <1>1, <3>1, <3>3 DEF WorkerAtFrontier
      <4>2. Nest(k)' = Nest(k) BY <1>11, <4>1
      <4>3. k <= position' BY <1>2, <1>3, <4>1 DEF Slots
      <4> QED BY <3>3, <4>1, <4>2, <4>3 DEF WorkerAtFrontier, historyVars
    <3> QED BY <3>2, <3>3
  <2>3. startAddress' # 0 => AtFrontier(startAddress)'
    <3>1. startAddress' = startAddress BY DEF startVars
    <3>2. PICK a \in 0..MaxSlots : a = startAddress BY PendingAddress
    <3>3. a # 0 => AtFrontier(a)
      BY <3>2, PendingAddress
    <3>4. a # 0 => a \in Slots BY BoundsAssumption DEF Slots
    <3>5. a # 0 => AtFrontier(a)' BY <2>1, <3>3, <3>4
    <3>6. a' = a /\ startAddress' = a BY <3>1, <3>2
    <3> QED BY <3>5, <3>6 DEF AtFrontier
  <2>4. \A s \in OpenDelimiters' : AtFrontier(s)'
    BY <1>13, <2>1 DEF IInv, FrontierInv, OpenDelimiters
  <2>5. \A w \in DOMAIN worker' : worker'[w].instructions <= position'
    BY <1>1, <1>2, <1>3, WorkerTypes DEF IInv, FrontierInv, Worker, Slots
  <2>6. Len(log') < position' /\ (enqueuedCommit' => startAddress' # 0)
    BY <1>1, <1>2, <1>3 DEF IInv, FrontierInv, TypeOK, TypeHistory, startVars, historyVars, Slots
  <2> QED BY <1>14, <2>2, <2>3, <2>4, <2>5, <2>6 DEF FrontierInv
<1>18. ExecutedInOrder'
  BY DEF IInv, ExecutedInOrder, historyVars
<1> QED BY <1>1, <1>2, <1>5, <1>6, <1>7, <1>8, <1>9, <1>10, <1>12, <1>15, <1>16, <1>17, <1>18


\* Ending a block or an event turn keeps the invariant.
LEMMA EndBlockStep ==
    ASSUME IInv, EndEventTurn \/ EndIfVersion
    PROVE  IInv'
<1>1. /\ call.pc = "idle" /\ Len(blocks) \in Nat /\ Len(blocks) > 0 /\ batchDepth \in Nat
      /\ UNCHANGED <<outstandingBatchCount, outstandingWriteCount, startVars, promiseVars,
                     settleVars, caller, worker, lock, historyVars>>
      /\ position + Len(blocks) <= MaxSlots + 1
  BY DEF EndEventTurn, EndIfVersion, EventLoopIdle, InUserBlock, IInv, TypeOK, TypeBatch, BatchInv
<1>2. PICK depth \in Nat : FinishBatch(depth)
  <2>1. CASE EndEventTurn
    BY <1>1, <2>1 DEF EndEventTurn, DepthAfterTurn, IInv, BatchInv
  <2>2. CASE EndIfVersion
    <3>1. batchDepth - 2 \in Nat
      BY <1>1, <2>2 DEF EndIfVersion, InUserBlock, IInv, BatchInv, TypeOK, TypeBatch
    <3> QED BY <1>1, <2>2, <3>1 DEF EndIfVersion
  <2> QED BY <2>1, <2>2
<1>3. /\ TypeWord' /\ TypeReserve' /\ ResolutionInv' /\ WordInv' /\ NestInv'
      /\ HandoffUnique' /\ FrontierInv' /\ ExecutedInOrder'
      /\ blocks' \in Seq(Slots) /\ Len(blocks') = Len(blocks) - 1
      /\ \A i \in 1..Len(blocks') : blocks'[i] = blocks[i]
      /\ position' = position + 1 /\ nextResolution' = nextResolution
      /\ \A q \in Reserved : /\ FP(q)' = FP(q) /\ (Published(q)' <=> Published(q))
                             /\ instr'[FP(q)] = instr[FP(q)]
                             /\ resolution'[q].promise = resolution[q].promise
  BY <1>1, <1>2, FinishBatchInv
<1>4. /\ enqueuedEventTurnBatch' \in BOOLEAN /\ batchDepth' \in Nat
      /\ enqueuedEventTurnBatch' => EventTurnBatching /\ Len(blocks') > 0
      /\ EventTurnBatching /\ ~enqueuedEventTurnBatch' => Len(blocks') = 0
      /\ batchDepth' = 2 * Len(blocks') - IF enqueuedEventTurnBatch' THEN 1 ELSE 0
  <2>1. CASE EndEventTurn
    <3>1. enqueuedEventTurnBatch' = FALSE /\ batchDepth' = batchDepth - 1
      BY <2>1 DEF EndEventTurn, DepthAfterTurn
    <3>2. Len(blocks) = 1
      <4>1. enqueuedEventTurnBatch /\ ~InUserBlock BY <2>1 DEF EndEventTurn, EventLoopIdle
      <4>2. ~(Len(blocks) > 1) BY <4>1 DEF InUserBlock
      <4>3. PICK n \in Nat : n = Len(blocks) BY <1>1
      <4>4. n > 0 BY <1>1, <4>3
      <4>5. ~(n > 1) BY <4>2, <4>3
      <4>6. n = 1 BY ONLY n \in Nat, <4>4, <4>5
      <4> QED BY <4>3, <4>6
    <3>3. batchDepth = 1
      BY <2>1, <3>2 DEF EndEventTurn, IInv, BatchInv
    <3>4. Len(blocks') = 0 /\ batchDepth' = 0
      BY <1>3, <3>1, <3>2, <3>3
    <3>5. enqueuedEventTurnBatch' \in BOOLEAN /\ ~enqueuedEventTurnBatch'
      BY <3>1
    <3>6. batchDepth' = 2 * Len(blocks') - IF enqueuedEventTurnBatch' THEN 1 ELSE 0
      <4>1. (IF enqueuedEventTurnBatch' THEN 1 ELSE 0) = 0 BY <3>5
      <4>2. 0 = 2 * 0 - 0 OBVIOUS
      <4> QED BY <3>4, <4>1, <4>2, Zenon
    <3>7. batchDepth' \in Nat BY <3>4
    <3> QED BY <3>4, <3>5, <3>6, <3>7, Zenon
  <2>2. CASE EndIfVersion
    <3>1. /\ enqueuedEventTurnBatch' = enqueuedEventTurnBatch /\ batchDepth' = batchDepth - 2
          /\ Len(blocks) > IF enqueuedEventTurnBatch THEN 1 ELSE 0
      BY <2>2 DEF EndIfVersion, InUserBlock
    <3>2. CASE enqueuedEventTurnBatch
      BY <1>1, <1>3, <3>1, <3>2 DEF IInv, BatchInv, TypeOK, TypeBatch
    <3>3. CASE ~enqueuedEventTurnBatch
      BY <1>1, <1>3, <3>1, <3>3 DEF IInv, BatchInv, TypeOK, TypeBatch
    <3> QED BY <3>2, <3>3
  <2> QED BY <2>1, <2>2
<1>5. BatchInv'
  <2>1. \A i \in 1..Len(blocks') : /\ blocks'[i] \in Reserved'
                                   /\ Len(instr'[FP(blocks[i])'].within) = i - 1
    <3> TAKE i \in 1..Len(blocks')
    <3>1. i \in 1..Len(blocks) /\ blocks'[i] = blocks[i] BY <1>1, <1>3
    <3>2. PICK q \in Reserved : q = blocks[i] /\ Len(instr[FP(q)].within) = i - 1
      BY <3>1 DEF IInv, BatchInv
    <3>3. FP(q)' = FP(q) /\ instr'[FP(q)] = instr[FP(q)] BY <1>3
    <3>4. FP(blocks[i])' = FP(q) BY <3>1, <3>2, <3>3 DEF FP
    <3> QED BY <1>3, <3>1, <3>2, <3>3, <3>4 DEF Reserved
  <2>2. position' + Len(blocks') <= MaxSlots + 1
    BY <1>1, <1>3, BoundsAssumption DEF IInv, TypeOK, TypeReserve, Slots
  <2> QED BY <1>4, <2>1, <2>2 DEF BatchInv
<1>6. caller.pc = "idle" /\ caller.res \in 0..(nextResolution - 1) /\ call \in Call
  BY <1>1 DEF IInv, CallInv, TypeOK, TypeCall
<1>7. \A q \in Reserved : Published(q) => resolution[q].promise # NoPromise
  BY <1>1, <1>6 DEF IInv, PromiseInv
\* What the closure is about to publish.
<1>8. \/ UNCHANGED call /\ writeBatchStart' = writeBatchStart
      \/ \E r \in Reserved : /\ call' = WriteCall(r) /\ ~Published(r)
                             /\ Len(blocks') = 0 => instr[FP(r)].depth = 0
                             /\ writeBatchStart' = 0 \/ Len(blocks') = 0
                             /\ writeBatchStart' \in {0, writeBatchStart}
  <2>1. CASE EndEventTurn
    <3>1. Len(blocks') = 0
      BY <1>1, <1>3, <2>1 DEF EndEventTurn, EventLoopIdle, InUserBlock
    <3>2. CASE writeBatchStart # 0
      <4>1. /\ writeBatchStart \in Reserved /\ ~Published(writeBatchStart)
            /\ instr[FP(writeBatchStart)].depth = 0
        BY <1>1, <3>2 DEF IInv, DeferredInv
      <4>2. call' = WriteCall(writeBatchStart) /\ writeBatchStart' = writeBatchStart
        BY <2>1, <3>2 DEF EndEventTurn
      <4> QED BY <3>1, <4>1, <4>2
    <3>3. CASE writeBatchStart = 0
      BY <2>1, <3>3 DEF EndEventTurn
    <3> QED BY <3>2, <3>3
  <2>2. CASE EndIfVersion
    <3> DEFINE r == BlockResolution
    <3>1. r \in Reserved /\ Len(instr[FP(r)].within) = Len(blocks) - 1
      BY <1>1 DEF BlockResolution, IInv, BatchInv
    <3>2. CASE resolution[r].promise = NoPromise
      <4>1. call' = WriteCall(r) /\ writeBatchStart' = 0
        BY <2>2, <3>2 DEF EndIfVersion
      <4>2. ~Published(r) BY <1>7, <3>1, <3>2
      <4>3. Len(blocks') = 0 => instr[FP(r)].depth = 0
        BY <1>1, <1>3, <3>1 DEF IInv, ResolutionInv
      <4> HIDE DEF r
      <4> QED BY <3>1, <4>1, <4>2, <4>3
    <3>3. CASE resolution[r].promise # NoPromise
      BY <2>2, <3>3 DEF EndIfVersion
    <3> QED BY <3>2, <3>3
  <2> QED BY <2>1, <2>2
<1>9. /\ \A r \in Reserved : /\ r \in 0..(MaxSlots + 1) /\ r # 0 /\ r \in 0..(nextResolution - 1)
                             /\ WriteCall(r) \in Call /\ WriteCall(r).pc = "publish"
                             /\ WriteCall(r).res = r
      /\ Reserved' = Reserved
  <2>1. \A r \in Reserved : r \in 0..(MaxSlots + 1) /\ r # 0 /\ r \in 0..(nextResolution - 1)
    BY BoundsAssumption DEF IInv, TypeOK, TypeReserve, Reserved, Slots
  <2> QED BY <1>3, <2>1, WriteCallRecord DEF Reserved
<1>10. /\ \/ UNCHANGED call
          \/ call' \in Call /\ call'.pc = "publish" /\ call'.res \in Reserved
       /\ writeBatchStart' \in 0..(MaxSlots + 1)
  BY <1>8, <1>9, BoundsAssumption DEF IInv, TypeOK, TypeBatch
<1> USE DEF startVars, promiseVars, settleVars, historyVars
<1>11. TypeOK'
  <2>1. TypeBatch' BY <1>1, <1>3, <1>4, <1>10 DEF IInv, TypeOK, TypeBatch
  <2>2. TypeCall' BY <1>1, <1>10 DEF IInv, TypeOK, TypeCall
  <2>3. TypeStart' /\ TypeSettle' /\ TypeWorker' /\ TypeHistory'
    BY <1>1 DEF IInv, TypeOK, TypeStart, TypeSettle, TypeWorker, TypeHistory
  <2> QED BY <1>3, <2>1, <2>2, <2>3 DEF TypeOK
<1>12. CallInv'
  <2>1. CASE UNCHANGED call
    BY <1>1, <1>3, <1>6, <2>1 DEF IInv, CallInv, Reserved
  <2>2. CASE \E r \in Reserved : /\ call' = WriteCall(r) /\ ~Published(r)
                                 /\ Len(blocks') = 0 => instr[FP(r)].depth = 0
    <3>1. PICK r \in Reserved : /\ call' = WriteCall(r) /\ ~Published(r)
                                /\ Len(blocks') = 0 => instr[FP(r)].depth = 0
      BY <2>2
    <3>2. /\ call'.pc = "publish" /\ call'.res = r /\ r \in 0..(nextResolution' - 1) /\ r # 0
          /\ r \in Reserved'
      BY <1>3, <1>9, <3>1
    <3>3. ~Published(r)' /\ (Len(blocks') = 0 => instr'[FP(r)'].depth = 0)
      BY <1>3, <3>1
    <3> QED BY <1>1, <1>3, <1>6, <3>2, <3>3 DEF CallInv, Published, FP
  <2> QED BY <1>8, <2>1, <2>2
<1>13. DeferredInv'
  <2>1. CASE UNCHANGED call /\ writeBatchStart' = writeBatchStart
    BY <1>1, <1>3, <1>9, <2>1 DEF IInv, DeferredInv
  <2>2. CASE writeBatchStart' = 0 \/ Len(blocks') = 0
    BY <2>2 DEF DeferredInv
  <2> QED BY <1>8, <2>1, <2>2
<1>14. PromiseInv'
  BY <1>3, <1>7, <1>9 DEF PromiseInv
<1> QED BY <1>3, <1>5, <1>11, <1>12, <1>13, <1>14 DEF IInv


-----------------------------------------------------------------------------
(* Reserving slots. *)

\* A fresh resolution object.
LEMMA NewResolutionRecord ==
    ASSUME NEW s \in 0..(MaxSlots + 1)
    PROVE  NewResolution(s) \in Resolution /\ NewResolution(s).flagPosition = s
BY BoundsAssumption DEF NewResolution, Resolution, NoPromise

\* Where the instruction goes and what is around it.
LEMMA ReservedPlace ==
    ASSUME IInv, NEW opened \in Nat, InstrSlot + Len(Enclosing) + opened <= MaxSlots
    PROVE  /\ position \in Slots /\ nextResolution \in Slots /\ nextResolution <= position
           /\ Enclosing \in Seq(Slots) /\ Len(Enclosing) \in Nat /\ TurnDepth \in Nat
           /\ TurnDepth = 0 <=> Len(Enclosing) = 0
           /\ \/ /\ OpensTurn /\ EventTurnBatching /\ Len(blocks) = 0 /\ TurnDepth = 1
                 /\ InstrSlot = position + 1 /\ InstrRes = nextResolution + 1
                 /\ Enclosing = <<nextResolution>> /\ Len(Enclosing) = 1
              \/ /\ ~OpensTurn /\ InstrSlot = position /\ InstrRes = nextResolution
                 /\ Enclosing = blocks /\ TurnDepth = batchDepth
           /\ InstrSlot \in 1..MaxSlots /\ InstrRes \in 1..MaxSlots
<1>1. position \in Slots /\ nextResolution \in Slots /\ nextResolution <= position
  BY DEF IInv, TypeOK, TypeReserve, ResolutionInv
<1>2. blocks \in Seq(Slots) /\ Len(blocks) \in Nat /\ batchDepth \in Nat
  BY DEF IInv, TypeOK, TypeBatch
<1>3. CASE OpensTurn
  <2>1. /\ EventTurnBatching /\ Len(blocks) = 0 /\ TurnDepth = 1
        /\ InstrSlot = position + 1 /\ InstrRes = nextResolution + 1
        /\ Enclosing = <<nextResolution>>
    BY <1>3 DEF OpensTurn, TurnDepth, InstrSlot, InstrRes, Enclosing, IInv, BatchInv
  <2>2. <<nextResolution>> \in Seq(Slots) /\ Len(<<nextResolution>>) = 1
    BY <1>1
  <2>3. position + 1 + 1 + opened <= MaxSlots
    BY <2>1, <2>2
  <2>4. position + 1 \in 1..MaxSlots /\ nextResolution + 1 \in 1..MaxSlots
    BY <1>1, <2>3, BoundsAssumption DEF Slots
  <2> QED BY <1>1, <1>3, <2>1, <2>2, <2>4
<1>4. CASE ~OpensTurn
  <2>1. /\ InstrSlot = position /\ InstrRes = nextResolution
        /\ Enclosing = blocks /\ TurnDepth = batchDepth
    BY <1>4 DEF TurnDepth, InstrSlot, InstrRes, Enclosing
  <2>2. batchDepth = 0 <=> Len(blocks) = 0
    <3>1. CASE enqueuedEventTurnBatch BY <1>2, <3>1 DEF IInv, BatchInv
    <3>2. CASE ~enqueuedEventTurnBatch BY <1>2, <3>2 DEF IInv, BatchInv
    <3> QED BY <3>1, <3>2
  <2>3. position + Len(blocks) + opened <= MaxSlots
    BY <2>1
  <2>4. position \in 1..MaxSlots /\ nextResolution \in 1..MaxSlots
    BY <1>1, <1>2, <2>3, BoundsAssumption DEF Slots
  <2> QED BY <1>1, <1>2, <1>4, <2>1, <2>2, <2>4
<1> QED BY <1>3, <1>4

\* What a reservation writes.
LEMMA ReservedRecords ==
    ASSUME IInv, NEW kind \in Kinds, NEW opened \in Nat, WriteInstructions(kind, opened)
    PROVE  /\ TypeReserve'
           /\ position' = InstrSlot + 1 /\ nextResolution' = InstrRes + 1
           /\ \A s \in 1..MaxSlots : s < position => instr'[s] = instr[s]
           /\ OpensTurn => /\ instr'[position].kind = "START" /\ instr'[position].depth = 0
                           /\ instr'[position].within = <<>>
           /\ instr'[InstrSlot].kind = kind /\ instr'[InstrSlot].depth = TurnDepth
           /\ instr'[InstrSlot].within = Enclosing
           /\ \A q \in Slots : q < nextResolution => resolution'[q] = resolution[q]
           /\ resolution'[nextResolution].flagPosition = position
           /\ resolution'[InstrRes].flagPosition = InstrSlot
           /\ resolution'[InstrRes + 1].flagPosition = InstrSlot + 1
<1> DEFINE turnStart == [kind |-> "START", depth |-> 0, within |-> <<>>]
           this == [kind |-> kind, depth |-> TurnDepth, within |-> Enclosing]
           withTurn == IF OpensTurn THEN [instr EXCEPT ![position] = turnStart] ELSE instr
           called == IF kind = "CALL" THEN [resolution EXCEPT ![nextResolution].callbacks = InstrSlot]
                                      ELSE resolution
           own == IF OpensTurn THEN [called EXCEPT ![InstrRes] = NewResolution(InstrSlot)] ELSE called
<1>1. /\ InstrSlot + Len(Enclosing) + opened <= MaxSlots
      /\ instr' = [withTurn EXCEPT ![InstrSlot] = this]
      /\ position' = InstrSlot + 1 /\ nextResolution' = InstrRes + 1
      /\ resolution' = [own EXCEPT ![InstrRes + 1] = NewResolution(InstrSlot + 1)]
  BY DEF WriteInstructions
<1>2. PICK p \in Slots, n \in Slots, k \in 1..MaxSlots, m \in 1..MaxSlots :
        /\ p = position /\ n = nextResolution /\ k = InstrSlot /\ m = InstrRes /\ n <= p
        /\ \/ OpensTurn /\ k = p + 1 /\ m = n + 1
           \/ ~OpensTurn /\ k = p /\ m = n
  BY <1>1, ReservedPlace
<1>3. p \in 1..MaxSlots /\ k + 1 \in Slots /\ m + 1 \in Slots /\ p <= k /\ n <= m /\ m \in Slots
      /\ k \in 0..(MaxSlots + 1) /\ k + 1 \in 0..(MaxSlots + 1) /\ n # m + 1 /\ m # m + 1
  BY <1>2, BoundsAssumption DEF Slots
<1>4. /\ turnStart \in Instruction /\ turnStart.kind = "START" /\ turnStart.depth = 0
      /\ turnStart.within = <<>>
  <2>1. <<>> \in Seq(Slots) OBVIOUS
  <2> QED BY <2>1 DEF Instruction, Kinds
<1>5. /\ this \in Instruction /\ this.kind = kind /\ this.depth = TurnDepth
      /\ this.within = Enclosing
  <2>1. TurnDepth \in Nat /\ Enclosing \in Seq(Slots) BY <1>1, ReservedPlace
  <2> QED BY <2>1 DEF Instruction
<1> HIDE DEF turnStart, this
<1>6. /\ instr' \in [1..MaxSlots -> Instruction] /\ instr'[k] = this
      /\ \A s \in 1..MaxSlots : s < p => instr'[s] = instr[s]
      /\ OpensTurn => instr'[p] = turnStart
  <2>1. instr \in [1..MaxSlots -> Instruction] BY DEF IInv, TypeOK, TypeReserve
  <2>2. CASE OpensTurn
    <3>1. instr' = [[instr EXCEPT ![p] = turnStart] EXCEPT ![k] = this] BY <1>1, <1>2, <2>2
    <3>2. k # p /\ \A s \in 1..MaxSlots : s < p => s # p /\ s # k
      BY <1>2, <1>3, <2>2 DEF Slots
    <3> QED BY <1>3, <1>4, <1>5, <2>1, <3>1, <3>2
  <2>3. CASE ~OpensTurn
    <3>1. instr' = [instr EXCEPT ![k] = this] BY <1>1, <1>2, <2>3
    <3>2. \A s \in 1..MaxSlots : s < p => s # k
      BY <1>2, <1>3, <2>3 DEF Slots
    <3> QED BY <1>3, <1>5, <2>1, <2>3, <3>1, <3>2
  <2> QED BY <2>2, <2>3
<1>7. /\ called \in [Slots -> Resolution] /\ called[n].flagPosition = p
      /\ \A q \in Slots : q # n => called[q] = resolution[q]
  <2>1. resolution \in [Slots -> Resolution] /\ resolution[n].flagPosition = p
    BY <1>2 DEF IInv, TypeOK, TypeReserve, ResolutionInv, FP
  <2> DEFINE e == [resolution[n] EXCEPT !.callbacks = k]
  <2>2. e \in Resolution /\ e.flagPosition = p
    <3>1. resolution[n] \in Resolution BY <2>1
    <3> QED BY <1>3, <2>1, <3>1 DEF Resolution
  <2>3. called = IF kind = "CALL" THEN [resolution EXCEPT ![n] = e] ELSE resolution
    BY <1>2
  <2> HIDE DEF e, called
  <2> QED BY <2>1, <2>2, <2>3
<1>8. /\ NewResolution(k) \in Resolution /\ NewResolution(k).flagPosition = k
      /\ NewResolution(k + 1) \in Resolution /\ NewResolution(k + 1).flagPosition = k + 1
  BY <1>3, NewResolutionRecord
<1> HIDE DEF called
<1>9. /\ own \in [Slots -> Resolution] /\ own[n].flagPosition = p /\ own[m].flagPosition = k
      /\ \A q \in Slots : q < n => own[q] = resolution[q]
  <2>1. \A q \in Slots : q < n => q # n /\ q # m
    BY <1>2, <1>3, BoundsAssumption DEF Slots
  <2>2. CASE OpensTurn
    <3>1. own = [called EXCEPT ![m] = NewResolution(k)] BY <1>2, <2>2
    <3>2. m # n BY <1>2, <2>2, BoundsAssumption DEF Slots
    <3> HIDE DEF own
    <3> QED BY <1>3, <1>7, <1>8, <2>1, <3>1, <3>2
  <2>3. CASE ~OpensTurn
    BY <1>2, <1>7, <2>1, <2>3
  <2> QED BY <2>2, <2>3
<1> HIDE DEF own
<1>10. /\ resolution' \in [Slots -> Resolution] /\ resolution'[n].flagPosition = p
       /\ resolution'[m].flagPosition = k /\ resolution'[m + 1].flagPosition = k + 1
       /\ \A q \in Slots : q < n => resolution'[q] = resolution[q]
  <2>1. resolution' = [own EXCEPT ![m + 1] = NewResolution(k + 1)] BY <1>1, <1>2
  <2>2. \A q \in Slots : q < n => q # m + 1
    BY <1>3, BoundsAssumption DEF Slots
  <2> QED BY <1>3, <1>8, <1>9, <2>1, <2>2
<1>11. TypeReserve'
  BY <1>1, <1>2, <1>3, <1>6, <1>10 DEF TypeReserve
<1> QED BY <1>1, <1>2, <1>4, <1>5, <1>6, <1>10, <1>11


\* A reservation moves nothing that was reserved, executed or handed over.
LEMMA ReserveInv ==
    ASSUME IInv, NEW kind \in Kinds \ {"END"}, NEW opened \in {0, 1}, WriteInstructions(kind, opened),
           opened = IF kind \in {"START", "COND"} THEN 1 ELSE 0,
           blocks' = (IF opened = 0 THEN Enclosing ELSE Append(Enclosing, InstrRes)),
           batchDepth' = TurnDepth + 2 * opened
    PROVE  /\ TypeWord' /\ TypeReserve' /\ BatchInv' /\ ResolutionInv' /\ WordInv' /\ NestInv'
           /\ HandoffUnique' /\ FrontierInv' /\ ExecutedInOrder'
           /\ blocks' \in Seq(Slots) /\ batchDepth' \in Nat /\ enqueuedEventTurnBatch' \in BOOLEAN
           /\ \A q \in Reserved : /\ q \in Reserved' /\ FP(q)' = FP(q)
                                  /\ (Published(q)' <=> Published(q))
                                  /\ instr'[FP(q)] = instr[FP(q)]
                                  /\ resolution'[q].promise = resolution[q].promise
           /\ \A q \in Reserved' \ Reserved : ~Published(q)'
           /\ nextResolution \in Reserved' \ Reserved /\ InstrRes \in Reserved' \ Reserved
           /\ nextResolution \in Slots /\ InstrRes \in Slots
           /\ OpensTurn => /\ instr'[resolution'[nextResolution].flagPosition].depth = 0
                           /\ InstrRes # nextResolution
           /\ instr'[resolution'[InstrRes].flagPosition].depth = TurnDepth
           /\ TurnDepth \in Nat /\ (TurnDepth = 0 <=> Len(Enclosing) = 0)
           /\ nextResolution' = InstrRes + 1
<1>1. /\ InstrSlot + Len(Enclosing) + opened <= MaxSlots /\ call.pc = "idle"
      /\ enqueuedEventTurnBatch' = (enqueuedEventTurnBatch \/ OpensTurn)
      /\ UNCHANGED <<word, outstandingWriteCount, startVars, settleVars, caller, worker, lock,
                     historyVars>>
  BY DEF WriteInstructions
<1>2. kind \in Kinds /\ opened \in Nat
  OBVIOUS
<1>3. PICK p \in Slots, n \in Slots, k \in 1..MaxSlots, m \in 1..MaxSlots, len \in Nat :
        /\ p = position /\ n = nextResolution /\ k = InstrSlot /\ m = InstrRes /\ n <= p
        /\ len = Len(Enclosing)
        /\ \/ /\ OpensTurn /\ k = p + 1 /\ m = n + 1 /\ Len(blocks) = 0 /\ Enclosing = <<n>>
              /\ len = 1
           \/ /\ ~OpensTurn /\ k = p /\ m = n /\ Enclosing = blocks
        /\ Enclosing \in Seq(Slots) /\ TurnDepth \in Nat /\ (TurnDepth = 0 <=> len = 0)
        /\ k + len + opened <= MaxSlots
  BY <1>1, <1>2, ReservedPlace
<1>4. /\ TypeReserve' /\ position' = k + 1 /\ nextResolution' = m + 1
      /\ \A s \in 1..MaxSlots : s < p => instr'[s] = instr[s]
      /\ OpensTurn => /\ instr'[p].kind = "START" /\ instr'[p].depth = 0 /\ instr'[p].within = <<>>
      /\ instr'[k].kind = kind /\ instr'[k].depth = TurnDepth /\ instr'[k].within = Enclosing
      /\ \A q \in Slots : q < n => resolution'[q] = resolution[q]
      /\ FP(n)' = p /\ FP(m)' = k /\ FP(m + 1)' = k + 1
  <2>1. /\ TypeReserve' /\ position' = InstrSlot + 1 /\ nextResolution' = InstrRes + 1
        /\ \A s \in 1..MaxSlots : s < position => instr'[s] = instr[s]
        /\ OpensTurn => /\ instr'[position].kind = "START" /\ instr'[position].depth = 0
                        /\ instr'[position].within = <<>>
        /\ instr'[InstrSlot].kind = kind /\ instr'[InstrSlot].depth = TurnDepth
        /\ instr'[InstrSlot].within = Enclosing
        /\ \A q \in Slots : q < nextResolution => resolution'[q] = resolution[q]
        /\ resolution'[nextResolution].flagPosition = position
        /\ resolution'[InstrRes].flagPosition = InstrSlot
        /\ resolution'[InstrRes + 1].flagPosition = InstrSlot + 1
    BY <1>2, ReservedRecords
  <2> QED BY <1>3, <2>1 DEF FP
<1>5. /\ p \in Int /\ n \in Int /\ 1 <= p /\ 1 <= n /\ p <= k /\ n <= m /\ p <= MaxSlots
      /\ p \in 1..MaxSlots /\ n \in 1..MaxSlots
  BY <1>3, BoundsAssumption DEF Slots
<1>6. \A q \in Reserved : /\ q \in Slots /\ q < n /\ FP(q) \in 1..MaxSlots /\ FP(q) < p
                          /\ FP(q) \in Slots
                          /\ FP(q)' = FP(q) /\ instr'[FP(q)] = instr[FP(q)] /\ q \in Reserved'
                          /\ resolution'[q].promise = resolution[q].promise
  <2> TAKE q \in Reserved
  <2>1. q \in 1..(n - 1) /\ FP(q) \in 1..(p - 1) BY <1>3 DEF Reserved, IInv, ResolutionInv
  <2>2. q \in Slots /\ q < n /\ FP(q) \in 1..MaxSlots /\ FP(q) < p /\ FP(q) \in Slots
        /\ q \in 1..m
    BY <1>5, <2>1, BoundsAssumption DEF Slots
  <2>3. FP(q)' = FP(q) /\ resolution'[q].promise = resolution[q].promise
    BY <1>4, <2>2 DEF FP
  <2>4. q \in Reserved'
    BY <1>4, <1>5, <2>2 DEF Reserved
  <2> QED BY <1>4, <2>2, <2>3, <2>4
<1>7. \A q \in Reserved' : q \in Reserved \/ q = n \/ q = m
  BY <1>3, <1>4, <1>5 DEF Reserved
<1>8. /\ n \in Reserved' /\ m \in Reserved' /\ n \notin Reserved /\ m \notin Reserved
      /\ n \in Slots /\ m \in Slots
  BY <1>3, <1>4, <1>5, BoundsAssumption DEF Reserved, Slots
<1>9. TypeWord' /\ WordInv' /\ ExecutedInOrder'
  <2>1. TypeWord' /\ ExecutedInOrder'
    BY <1>1 DEF IInv, TypeOK, TypeWord, ExecutedInOrder, historyVars
  <2>2. \A s \in Slots : s >= k + 1 => s > p
    BY <1>5, BoundsAssumption DEF Slots
  <2>3. \A s \in Slots : /\ s >= k + 1 => OP \notin word[s]
                         /\ s > k + 1 => word[s] = {}
                         /\ FINISHED_OPERATION \in word[s] => OP \in word[s]
    <3> TAKE s \in Slots
    <3>1. /\ s >= p => OP \notin word[s]
          /\ s > p => word[s] = {}
          /\ FINISHED_OPERATION \in word[s] => OP \in word[s]
      BY <1>3 DEF IInv, WordInv
    <3>2. s \in Int BY BoundsAssumption DEF Slots
    <3> QED BY <1>5, <3>1, <3>2
  <2> QED BY <1>1, <1>4, <2>1, <2>3 DEF WordInv
<1>10. \A q \in Reserved : Published(q)' <=> Published(q)
  BY <1>1, <1>6 DEF Published
<1>11. \A q \in Reserved' \ Reserved : ~Published(q)'
  <2>1. \A s \in Slots : s >= p => OP \notin word'[s]
    BY <1>1, <1>3 DEF IInv, WordInv
  <2>2. OP \notin word'[p] /\ OP \notin word'[k]
    BY <1>5, <2>1, BoundsAssumption DEF Slots
  <2>3. ~Published(n)' /\ ~Published(m)'
    BY <1>4, <2>2 DEF Published
  <2> QED BY <1>7, <2>3
<1>12. ResolutionInv'
  <2>1. nextResolution' <= position' /\ FP(nextResolution)' = position'
    BY <1>3, <1>4, <1>5 DEF FP
  <2>2. \A r \in Reserved' : /\ FP(r)' \in 1..(position' - 1)
                             /\ instr'[FP(r)'].kind # "END"
                             /\ instr'[FP(r)'].depth = 0 <=> Len(instr'[FP(r)'].within) = 0
    <3> TAKE r \in Reserved'
    <3>1. CASE r \in Reserved
      <4>1. FP(r)' \in 1..(position' - 1)
        BY <1>4, <1>5, <1>6, <3>1
      <4>2. /\ instr[FP(r)].kind # "END"
            /\ instr[FP(r)].depth = 0 <=> Len(instr[FP(r)].within) = 0
        BY <3>1 DEF IInv, ResolutionInv
      <4> QED BY <1>6, <3>1, <4>1, <4>2
    <3>2. CASE r = m
      <4>1. k \in 1..(position' - 1) BY <1>4, <1>5
      <4> QED BY <1>3, <1>4, <3>2, <4>1
    <3>3. CASE r = n /\ OpensTurn
      <4>1. p \in 1..(position' - 1) BY <1>4, <1>5
      <4>2. Len(<<>>) = 0 OBVIOUS
      <4> QED BY <1>4, <3>3, <4>1, <4>2
    <3> QED BY <1>3, <1>7, <3>1, <3>2, <3>3
  <2>3. \A r, q \in Reserved' : FP(r)' = FP(q)' => r = q
    <3>1. OpensTurn => p # k BY <1>3, <1>5
    <3>2. \A q \in Reserved : FP(q)' # p /\ FP(q)' # k
      BY <1>5, <1>6
    <3>3. \A r, q \in Reserved : FP(r)' = FP(q)' => r = q
      BY <1>6 DEF IInv, ResolutionInv
    <3> QED BY <1>3, <1>4, <1>7, <3>1, <3>2, <3>3
  <2>4. unwrittenResolution' <= nextResolution'
    BY <1>1, <1>3, <1>4, <1>5, BoundsAssumption
    DEF IInv, TypeOK, TypeSettle, ResolutionInv, settleVars, Slots
  <2> QED BY <2>1, <2>2, <2>3, <2>4 DEF ResolutionInv
<1>13. /\ blocks' \in Seq(Slots) /\ Len(blocks') = len + opened
       /\ \A i \in 1..len : blocks'[i] = Enclosing[i]
       /\ opened = 1 => blocks'[len + 1] = m
  <2>1. CASE opened = 0
    BY <1>3, <2>1
  <2>2. CASE opened = 1
    <3>1. blocks' = Append(Enclosing, m) BY <1>3, <2>2
    <3> QED BY <1>3, <1>8, <2>2, <3>1
  <2> QED BY <2>1, <2>2

<1>14. /\ enqueuedEventTurnBatch' \in BOOLEAN /\ batchDepth' \in Nat
       /\ enqueuedEventTurnBatch' => EventTurnBatching /\ Len(blocks') > 0
       /\ EventTurnBatching /\ ~enqueuedEventTurnBatch' => Len(blocks') = 0
       /\ batchDepth' = 2 * Len(blocks') - IF enqueuedEventTurnBatch' THEN 1 ELSE 0
  <2>1. CASE OpensTurn
    <3>1. /\ TurnDepth = 1 /\ enqueuedEventTurnBatch' = TRUE /\ EventTurnBatching
          /\ Len(blocks') = 1 + opened
      BY <1>1, <1>3, <1>13, <2>1 DEF TurnDepth, OpensTurn
    <3>2. batchDepth' = 1 + 2 * opened BY <3>1
    <3>3. CASE opened = 0 BY <3>1, <3>2, <3>3
    <3>4. CASE opened = 1 BY <3>1, <3>2, <3>4
    <3> QED BY <3>3, <3>4
  <2>2. CASE ~OpensTurn
    <3>1. /\ TurnDepth = batchDepth /\ len = Len(blocks) /\ batchDepth \in Nat
          /\ enqueuedEventTurnBatch \in BOOLEAN
          /\ enqueuedEventTurnBatch' = enqueuedEventTurnBatch
      BY <1>1, <1>3, <2>2 DEF TurnDepth, IInv, TypeOK, TypeBatch
    <3>2. batchDepth = 2 * len - IF enqueuedEventTurnBatch THEN 1 ELSE 0
      BY <3>1 DEF IInv, BatchInv
    <3>3. enqueuedEventTurnBatch => EventTurnBatching /\ len > 0
      BY <3>1 DEF IInv, BatchInv
    <3>4. ~(EventTurnBatching /\ ~enqueuedEventTurnBatch)
      <4>1. EventTurnBatching /\ ~enqueuedEventTurnBatch => len = 0
        BY <3>1 DEF IInv, BatchInv
      <4>2. ~enqueuedEventTurnBatch => batchDepth = 2 * len BY <3>2
      <4>3. ~enqueuedEventTurnBatch /\ len = 0 => batchDepth = 0
        BY <4>2
      <4> QED BY <2>2, <4>1, <4>3 DEF OpensTurn
    <3>5. PICK b \in Nat : b = len + opened /\ Len(blocks') = b
      BY <1>2, <1>13
    <3>6. batchDepth' = batchDepth + 2 * opened
      BY <3>1
    <3>7. opened = 0 \/ opened = 1
      BY <1>2
    <3>8. CASE enqueuedEventTurnBatch
      <4>1. EventTurnBatching /\ len > 0 /\ batchDepth = 2 * len - 1
        BY <3>2, <3>3, <3>8
      <4>2. b > 0 /\ batchDepth' = 2 * b - 1
        BY <3>1, <3>5, <3>6, <3>7, <4>1
      <4>3. enqueuedEventTurnBatch' = TRUE /\ batchDepth' \in Nat
        BY <3>1, <3>5, <3>8, <4>2
      <4>4. Len(blocks') > 0 /\ batchDepth' = 2 * Len(blocks') - 1
        BY <3>5, <4>2
      <4> QED BY <4>1, <4>3, <4>4
    <3>9. CASE ~enqueuedEventTurnBatch
      <4>1. ~EventTurnBatching /\ batchDepth = 2 * len
        BY <3>2, <3>4, <3>9
      <4>2. batchDepth' = 2 * b
        BY <3>1, <3>5, <3>6, <3>7, <4>1
      <4>3. enqueuedEventTurnBatch' = FALSE /\ batchDepth' \in Nat
        BY <3>1, <3>5, <3>9, <4>2
      <4>4. batchDepth' = 2 * Len(blocks')
        BY <3>5, <4>2
      <4>5. batchDepth' = 2 * Len(blocks') - 0
        BY <4>3, <4>4
      <4> QED BY <4>1, <4>3, <4>5
    <3> QED BY <3>8, <3>9
  <2> QED BY <2>1, <2>2
<1>15. BatchInv'
  <2>1. \A i \in 1..Len(blocks') : /\ blocks'[i] \in Reserved'
                                   /\ Len(instr'[FP(blocks[i])'].within) = i - 1
    <3> TAKE i \in 1..Len(blocks')
    <3>1. CASE i = len + 1
      <4>1. opened = 1 /\ blocks'[i] = m BY <1>13, <3>1
      <4>2. FP(blocks[i])' = k BY <1>4, <4>1 DEF FP
      <4> QED BY <1>3, <1>4, <1>8, <3>1, <4>1, <4>2
    <3>2. CASE i # len + 1 /\ OpensTurn
      <4>1. i = 1 /\ blocks'[i] = n BY <1>3, <1>13, <3>2
      <4>2. FP(blocks[i])' = p BY <1>4, <4>1 DEF FP
      <4> QED BY <1>4, <1>8, <3>2, <4>1, <4>2
    <3>3. CASE i # len + 1 /\ ~OpensTurn
      <4>1. i \in 1..Len(blocks) /\ blocks'[i] = blocks[i] BY <1>3, <1>13, <3>3
      <4>2. PICK q \in Reserved : q = blocks[i] /\ Len(instr[FP(q)].within) = i - 1
        BY <4>1 DEF IInv, BatchInv
      <4>3. FP(blocks[i])' = FP(q) BY <1>6, <4>1, <4>2 DEF FP
      <4> QED BY <1>6, <4>1, <4>2, <4>3
    <3> QED BY <3>1, <3>2, <3>3
  <2>2. position' + Len(blocks') <= MaxSlots + 1
    <3>1. PICK b \in Nat : b = len + opened BY <1>2, <1>3
    <3>2. k + len + opened <= MaxSlots BY <1>3
    <3>3. k + b <= MaxSlots BY <1>2, <3>1, <3>2, BoundsAssumption
    <3>4. Len(blocks') = b BY <1>13, <3>1
    <3>5. k + 1 + b <= MaxSlots + 1 BY <3>3, BoundsAssumption
    <3> QED BY <1>4, <3>4, <3>5
  <2> QED BY <1>14, <2>1, <2>2 DEF BatchInv
\* The number of blocks open at the slots reserved before, and at the new ones.
<1>16. /\ \A s \in Slots : s <= p => Nest(s)' = Nest(s)
       /\ Nest(k)' = len /\ Nest(k + 1)' = len + opened
       /\ OpensTurn => Nest(p)' = 0
       /\ \A s \in 1..(p - 1) : Delta(s)' = Delta(s)
       /\ Delta(k)' = opened /\ (OpensTurn => Delta(p)' = 1)
  <2>1. \A s \in Slots : s < p => Nest(s)' = Nest(s)
    <3> TAKE s \in Slots
    <3>1. s < p => s \in 1..MaxSlots /\ s < k + 1
      BY <1>5, BoundsAssumption DEF Slots
    <3> QED BY <1>3, <1>4, <3>1 DEF Nest
  <2>2. Nest(k)' = len /\ Nest(k + 1)' = len + opened
    BY <1>3, <1>4, <1>5, <1>13 DEF Nest
  <2>3. OpensTurn => Nest(p)' = 0
    <3>1. Len(<<>>) = 0 OBVIOUS
    <3> QED BY <1>4, <1>5, <3>1 DEF Nest
  <2>4. Nest(p)' = Nest(p)
    <3>1. Nest(p) = Len(blocks) BY <1>3, <1>5 DEF Nest
    <3> QED BY <1>3, <2>2, <2>3, <3>1
  <2>5. \A s \in 1..(p - 1) : Delta(s)' = Delta(s)
    <3> TAKE s \in 1..(p - 1)
    <3>1. s \in 1..MaxSlots /\ s < p BY <1>5, BoundsAssumption
    <3> QED BY <1>4, <3>1 DEF Delta
  <2>6. Delta(k)' = opened /\ (OpensTurn => Delta(p)' = 1)
    BY <1>4 DEF Delta
  <2>7. \A s \in Slots : s <= p => s < p \/ s = p
    BY <1>5, BoundsAssumption DEF Slots
  <2> QED BY <2>1, <2>2, <2>3, <2>4, <2>5, <2>6, <2>7
<1>17. NestInv'
  <2>1. SUFFICES ASSUME NEW s \in 1..k PROVE Nest(s + 1)' = Nest(s)' + Delta(s)'
    BY <1>4, <1>5 DEF NestInv
  <2>2. CASE s = k
    BY <1>3, <1>16, <2>2
  <2>3. CASE s < p
    <3>1. s \in 1..(p - 1) /\ s \in Slots /\ s + 1 \in Slots /\ s <= p /\ s + 1 <= p
      BY <1>5, <2>3, BoundsAssumption DEF Slots
    <3>2. Nest(s + 1) = Nest(s) + Delta(s)
      BY <1>3, <3>1 DEF IInv, NestInv
    <3> QED BY <1>16, <3>1, <3>2
  <2>4. CASE s # k /\ ~(s < p)
    <3>1. OpensTurn /\ s = p /\ k = p + 1 /\ len = 1 BY <1>3, <1>5, <2>4
    <3> QED BY <1>16, <3>1
  <2> QED BY <2>2, <2>3, <2>4
<1>18. OpenDelimiters' = OpenDelimiters /\ ActiveWorkers' = ActiveWorkers
  BY <1>1 DEF OpenDelimiters, ActiveWorkers
<1>19. HandoffUnique'
  BY <1>1, <1>18, SameToken DEF IInv, startVars
<1>20. FrontierInv'
  <2>1. \A s \in Slots : AtFrontier(s) => AtFrontier(s)'
    <3> TAKE s \in Slots
    <3>1. s <= p => s <= k + 1 BY <1>5, BoundsAssumption DEF Slots
    <3> QED BY <1>1, <1>3, <1>4, <1>16, <3>1 DEF AtFrontier, historyVars
  <2>2. \A w \in ActiveWorkers : WorkerAtFrontier(w)'
    <3> TAKE w \in ActiveWorkers
    <3>1. w \in DOMAIN worker /\ WorkerAtFrontier(w) /\ worker[w].pos \in Slots
      BY WorkerTypes DEF IInv, FrontierInv, ActiveWorkers, Worker
    <3>2. PICK j \in Slots : j = worker[w].pos BY <3>1
    <3>3. CASE worker[w].pc = "store"
      <4>1. /\ OP \in word[j] /\ j = Len(log) /\ OP \in worker[w].loaded
            /\ worker[w].depth = Nest(j + 1)
        BY <3>1, <3>2, <3>3 DEF WorkerAtFrontier
      <4>2. ~(j >= p) BY <1>3, <4>1 DEF IInv, WordInv
      <4>3. j + 1 \in Slots /\ j + 1 <= p
        BY <1>5, <4>2, BoundsAssumption DEF Slots
      <4>4. Nest(j + 1)' = Nest(j + 1) BY <1>16, <4>3
      <4> QED BY <1>1, <3>2, <3>3, <4>1, <4>4 DEF WorkerAtFrontier, historyVars
    <3>4. CASE worker[w].pc # "store"
      <4>1. j <= p /\ j = Len(log) + 1 /\ worker[w].depth = Nest(j)
        BY <1>3, <3>1, <3>2, <3>4 DEF WorkerAtFrontier
      <4>2. Nest(j)' = Nest(j) BY <1>16, <4>1
      <4>3. j <= position' BY <1>4, <1>5, <4>1, BoundsAssumption DEF Slots
      <4> QED BY <1>1, <3>2, <3>4, <4>1, <4>2, <4>3 DEF WorkerAtFrontier, historyVars
    <3> QED BY <3>3, <3>4
  <2>3. startAddress' # 0 => AtFrontier(startAddress)'
    <3>1. startAddress' = startAddress BY <1>1 DEF startVars
    <3>2. PICK a \in 0..MaxSlots : a = startAddress BY PendingAddress
    <3>3. a # 0 => AtFrontier(a) /\ a \in Slots
      BY <3>2, PendingAddress, BoundsAssumption DEF Slots
    <3>4. a # 0 => AtFrontier(a)' BY <2>1, <3>3
    <3> QED BY <3>1, <3>2, <3>4 DEF AtFrontier
  <2>4. \A s \in OpenDelimiters' : AtFrontier(s)'
    BY <1>18, <2>1 DEF IInv, FrontierInv, OpenDelimiters
  <2>5. \A w \in DOMAIN worker' : worker'[w].instructions <= position'
    <3> TAKE w \in DOMAIN worker'
    <3>1. w \in DOMAIN worker /\ worker'[w] = worker[w] BY <1>1
    <3>2. worker[w].instructions <= p /\ worker[w].instructions \in Slots
      BY <1>3, <3>1, WorkerTypes DEF IInv, FrontierInv, Worker
    <3> QED BY <1>4, <1>5, <3>1, <3>2, BoundsAssumption DEF Slots
  <2>6. Len(log') < position' /\ (enqueuedCommit' => startAddress' # 0)
    BY <1>1, <1>3, <1>4, <1>5
    DEF IInv, FrontierInv, TypeOK, TypeHistory, startVars, historyVars
  <2> QED BY <1>18, <2>2, <2>3, <2>4, <2>5, <2>6 DEF FrontierInv
<1>21. /\ nextResolution \in Reserved' \ Reserved /\ InstrRes \in Reserved' \ Reserved
       /\ nextResolution \in Slots /\ InstrRes \in Slots
       /\ OpensTurn => /\ instr'[resolution'[nextResolution].flagPosition].depth = 0
                       /\ InstrRes # nextResolution
       /\ instr'[resolution'[InstrRes].flagPosition].depth = TurnDepth
       /\ TurnDepth \in Nat /\ (TurnDepth = 0 <=> Len(Enclosing) = 0)
       /\ nextResolution' = InstrRes + 1
  <2>1. resolution'[n].flagPosition = p /\ resolution'[m].flagPosition = k BY <1>4 DEF FP
  <2>2. OpensTurn => m # n BY <1>3, <1>5
  <2> QED BY <1>3, <1>4, <1>8, <2>1, <2>2
<1>22. \A q \in Reserved : /\ q \in Reserved' /\ FP(q)' = FP(q)
                           /\ (Published(q)' <=> Published(q))
                           /\ instr'[FP(q)] = instr[FP(q)]
                           /\ resolution'[q].promise = resolution[q].promise
  BY <1>6, <1>10
<1> QED BY <1>4, <1>9, <1>11, <1>12, <1>13, <1>14, <1>15, <1>17, <1>19, <1>20, <1>21, <1>22

\* Reserving a slot keeps the invariant.
LEMMA ReserveStep ==
    ASSUME IInv, NEW kind \in Operations, Write(kind) \/ IfVersion(kind)
    PROVE  IInv'
<1>1. PICK opened \in {0, 1} :
        /\ WriteInstructions(kind, opened)
        /\ kind \in Kinds \ {"END"}
        /\ opened = IF kind \in {"START", "COND"} THEN 1 ELSE 0
        /\ blocks' = (IF opened = 0 THEN Enclosing ELSE Append(Enclosing, InstrRes))
        /\ batchDepth' = TurnDepth + 2 * opened
  <2>1. CASE Write(kind)
    <3>1. /\ WriteInstructions(kind, 0) /\ kind \in {"WRITE", "REMOVE", "WRITEIF", "CALL"}
          /\ blocks' = Enclosing /\ batchDepth' = TurnDepth
      BY <2>1 DEF Write
    <3>2. TurnDepth \in Nat BY DEF TurnDepth, IInv, TypeOK, TypeBatch
    <3>3. TurnDepth = TurnDepth + 2 * 0 BY <3>2
    <3> QED BY <3>1, <3>3 DEF Kinds
  <2>2. CASE IfVersion(kind)
    <3>1. /\ WriteInstructions(kind, 1) /\ kind \in {"COND", "START"}
          /\ blocks' = Append(Enclosing, InstrRes) /\ batchDepth' = TurnDepth + 2
      BY <2>2 DEF IfVersion
    <3>2. TurnDepth \in Nat BY DEF TurnDepth, IInv, TypeOK, TypeBatch
    <3>3. TurnDepth + 2 = TurnDepth + 2 * 1 BY <3>2
    <3> QED BY <3>1, <3>3 DEF Kinds
  <2> QED BY <2>1, <2>2
<1>2. /\ TypeWord' /\ TypeReserve' /\ BatchInv' /\ ResolutionInv' /\ WordInv' /\ NestInv'
      /\ HandoffUnique' /\ FrontierInv' /\ ExecutedInOrder'
      /\ blocks' \in Seq(Slots) /\ batchDepth' \in Nat /\ enqueuedEventTurnBatch' \in BOOLEAN
  BY <1>1, ReserveInv
<1>3. \A q \in Reserved : /\ q \in Reserved' /\ FP(q)' = FP(q)
                          /\ (Published(q)' <=> Published(q))
                          /\ instr'[FP(q)] = instr[FP(q)]
                          /\ resolution'[q].promise = resolution[q].promise
  BY <1>1, ReserveInv
<1>4. PICK n \in Slots, m \in Slots :
        /\ n = nextResolution /\ m = InstrRes
        /\ n \in Reserved' /\ n \notin Reserved /\ m \in Reserved' /\ m \notin Reserved
        /\ ~Published(n)' /\ ~Published(m)'
        /\ OpensTurn => instr'[FP(n)'].depth = 0 /\ m # n
        /\ instr'[FP(m)'].depth = TurnDepth
        /\ TurnDepth \in Nat /\ (TurnDepth = 0 <=> Len(Enclosing) = 0)
        /\ nextResolution' = m + 1
  <2>1. /\ nextResolution \in Reserved' \ Reserved /\ InstrRes \in Reserved' \ Reserved
        /\ nextResolution \in Slots /\ InstrRes \in Slots
        /\ OpensTurn => /\ instr'[resolution'[nextResolution].flagPosition].depth = 0
                        /\ InstrRes # nextResolution
        /\ instr'[resolution'[InstrRes].flagPosition].depth = TurnDepth
        /\ TurnDepth \in Nat /\ (TurnDepth = 0 <=> Len(Enclosing) = 0)
        /\ nextResolution' = InstrRes + 1
        /\ \A q \in Reserved' \ Reserved : ~Published(q)'
    BY <1>1, ReserveInv
  <2>2. PICK n \in Slots, m \in Slots : n = nextResolution /\ m = InstrRes BY <2>1
  <2> QED BY <2>1, <2>2 DEF FP
<1>5. /\ call.pc = "idle"
      /\ UNCHANGED <<word, outstandingWriteCount, startVars, settleVars, caller, worker, lock,
                     historyVars>>
      /\ commitPromise' = CommitPromiseInTurn
      /\ flushPromise' = IF OpensTurn THEN 0 ELSE flushPromise
  BY <1>1 DEF WriteInstructions
<1>6. \A q \in Reserved : q \in Reserved' /\ q # n /\ q # m BY <1>3, <1>4
\* What the closure will publish, and which block start is deferred.
<1>7. \/ OpensTurn /\ writeBatchStart' = n /\ call' = WriteCall(m) /\ outstandingBatchCount' = 0
      \/ /\ ~OpensTurn /\ writeBatchStart' = m /\ call' = call /\ TurnDepth = 0
         /\ outstandingBatchCount' = 0
      \/ /\ ~OpensTurn /\ writeBatchStart' = writeBatchStart /\ call' = WriteCall(m)
         /\ outstandingBatchCount' = outstandingBatchCount
         /\ Len(blocks') > 0 => Len(blocks) > 0
  <2>1. /\ OpensTurn => TurnDepth = 1
        /\ ~OpensTurn => Enclosing = blocks
        /\ Len(blocks) \in Nat
    BY DEF TurnDepth, Enclosing, IInv, TypeOK, TypeBatch
  <2>2. CASE Write(kind)
    BY <1>4, <2>1, <2>2 DEF Write
  <2>3. CASE IfVersion(kind) /\ TurnDepth = 0
    <3>1. writeBatchStart' = InstrRes /\ outstandingBatchCount' = 0 /\ UNCHANGED call
      BY <2>3 DEF IfVersion
    <3> QED BY <1>4, <2>1, <2>3, <3>1
  <2>4. CASE IfVersion(kind) /\ TurnDepth # 0
    <3>1. TurnDepth + 2 > 2 BY <1>4, <2>4
    <3>2. /\ call' = WriteCall(InstrRes)
          /\ writeBatchStart' = IF OpensTurn THEN nextResolution ELSE writeBatchStart
          /\ outstandingBatchCount' = IF OpensTurn THEN 0 ELSE outstandingBatchCount
      BY <2>4, <3>1 DEF IfVersion
    <3>3. ~OpensTurn => Len(blocks) > 0 BY <1>4, <2>1, <2>4
    <3> QED BY <1>4, <3>2, <3>3
  <2> QED BY <2>2, <2>3, <2>4
<1>8. call' = WriteCall(m) /\ Len(blocks') = 0 => TurnDepth = 0
  <2>1. CASE Write(kind)
    BY <1>4, <2>1 DEF Write
  <2>2. CASE IfVersion(kind)
    <3>1. blocks' = Append(Enclosing, m) BY <1>4, <2>2 DEF IfVersion
    <3>2. Enclosing \in Seq(Slots)
      <4>1. InstrSlot + Len(Enclosing) + opened <= MaxSlots BY <1>1 DEF WriteInstructions
      <4>2. opened \in Nat OBVIOUS
      <4> QED BY <4>1, <4>2, ReservedPlace
    <3>3. PICK e \in Nat : e = Len(Enclosing) BY <3>2
    <3>4. Len(blocks') = e + 1 BY <3>1, <3>2, <3>3
    <3> QED BY <3>3, <3>4
  <2> QED BY <2>1, <2>2
<1>9. WriteCall(m) \in Call /\ WriteCall(m).pc = "publish" /\ WriteCall(m).res = m
  <2>1. m \in 0..(MaxSlots + 1) BY BoundsAssumption DEF Slots
  <2> QED BY <2>1, WriteCallRecord
<1>10. /\ caller.pc = "idle" /\ caller.res \in 0..(n - 1) /\ call.res \in 0..(n - 1)
       /\ call \in Call /\ caller \in Call
  BY <1>4, <1>5 DEF IInv, CallInv, TypeOK, TypeCall
<1>11. n \in Nat /\ m \in Nat /\ n <= m /\ m # 0
  BY <1>4, BoundsAssumption DEF Slots, InstrRes
<1>12. CallInv'
  <2>1. \A i \in 0..(n - 1) : i \in 0..(nextResolution' - 1) BY <1>4, <1>11
  <2>2. m \in 0..(nextResolution' - 1) BY <1>4, <1>11
  <2>3. caller' = caller BY <1>5
  <2>4. CASE call' = call
    BY <1>5, <1>10, <2>1, <2>3, <2>4 DEF CallInv
  <2>5. CASE call' = WriteCall(m)
    <3>1. call'.pc = "publish" /\ call'.res = m BY <1>9, <2>5
    <3>2. call'.res \in Reserved' /\ ~Published(call.res)' BY <1>4, <3>1 DEF Published, FP
    <3>3. Len(blocks') = 0 => instr'[FP(call.res)'].depth = 0
      BY <1>4, <1>8, <2>5, <3>1 DEF FP
    <3> QED BY <1>10, <1>11, <2>1, <2>2, <2>3, <3>1, <3>2, <3>3 DEF CallInv
  <2> QED BY <1>7, <2>4, <2>5
<1>13. DeferredInv'
  <2>1. CASE OpensTurn /\ writeBatchStart' = n /\ call' = WriteCall(m)
    <3>1. /\ writeBatchStart' \in Reserved' /\ ~Published(writeBatchStart)'
          /\ instr'[FP(writeBatchStart)'].depth = 0 /\ call'.res # writeBatchStart'
      BY <1>4, <1>9, <2>1 DEF FP, Published
    <3> QED BY <3>1 DEF DeferredInv
  <2>2. CASE writeBatchStart' = m /\ call' = call /\ TurnDepth = 0
    <3>1. /\ writeBatchStart' \in Reserved' /\ ~Published(writeBatchStart)'
          /\ instr'[FP(writeBatchStart)'].depth = 0 /\ call'.pc = "idle"
      BY <1>4, <1>5, <2>2 DEF FP, Published
    <3> QED BY <3>1 DEF DeferredInv
  <2>3. CASE /\ writeBatchStart' = writeBatchStart /\ call' = WriteCall(m)
             /\ Len(blocks') > 0 => Len(blocks) > 0
    <3>1. SUFFICES ASSUME writeBatchStart # 0, Len(blocks') > 0
                   PROVE  /\ writeBatchStart' \in Reserved' /\ ~Published(writeBatchStart)'
                          /\ instr'[FP(writeBatchStart)'].depth = 0
                          /\ call'.res # writeBatchStart'
      BY <2>3 DEF DeferredInv
    <3>2. PICK q \in Reserved : q = writeBatchStart /\ ~Published(q) /\ instr[FP(q)].depth = 0
      BY <2>3, <3>1 DEF IInv, DeferredInv
    <3>3. /\ q \in Reserved' /\ ~Published(q)' /\ instr'[FP(q)'].depth = 0 /\ q # m
      BY <1>3, <1>6, <3>2
    <3> QED BY <1>9, <2>3, <3>2, <3>3 DEF FP, Published
  <2> QED BY <1>7, <2>1, <2>2, <2>3
<1>14. PromiseInv'
  <2>1. SUFFICES ASSUME NEW r \in Reserved', Published(r)'
                 PROVE  resolution'[r].promise # NoPromise
    BY DEF PromiseInv
  <2>2. r \in Reserved
    <3>1. \A q \in Reserved' \ Reserved : ~Published(q)' BY <1>1, ReserveInv
    <3> QED BY <2>1, <3>1
  <2>3. Published(r) BY <1>3, <2>1, <2>2
  <2>4. resolution[r].promise # NoPromise
    BY <1>5, <1>10, <2>2, <2>3 DEF IInv, PromiseInv
  <2> QED BY <1>3, <2>2, <2>4
<1>15. TypeOK'
  <2>1. TypeBatch'
    <3>1. writeBatchStart' \in 0..(MaxSlots + 1)
      BY <1>7, BoundsAssumption DEF Slots, IInv, TypeOK, TypeBatch
    <3>2. outstandingBatchCount' \in Nat /\ outstandingWriteCount' \in Int
      BY <1>5, <1>7 DEF IInv, TypeOK, TypeBatch
    <3> QED BY <1>2, <3>1, <3>2 DEF TypeBatch
  <2>2. TypeStart'
    <3>1. /\ startAddress' \in 0..MaxSlots /\ enqueuedCommit' \in BOOLEAN
          /\ flushResolvers' \subseteq Slots
      BY <1>5 DEF IInv, TypeOK, TypeStart, startVars
    <3>2. commitPromise' \in 0..(MaxSlots + 1) /\ flushPromise' \in 0..(MaxSlots + 1)
      BY <1>5, BoundsAssumption DEF IInv, TypeOK, TypeStart, CommitPromiseInTurn
    <3> QED BY <3>1, <3>2 DEF TypeStart
  <2>3. TypeCall'
    BY <1>5, <1>7, <1>9, <1>10 DEF TypeCall
  <2>4. TypeSettle' /\ TypeWorker' /\ TypeHistory'
    <3>1. TypeSettle /\ TypeWorker /\ TypeHistory BY DEF IInv, TypeOK
    <3> QED BY <1>5, <3>1 DEF TypeSettle, TypeWorker, TypeHistory, settleVars, historyVars
  <2> QED BY <1>2, <2>1, <2>2, <2>3, <2>4 DEF TypeOK
<1> QED BY <1>2, <1>12, <1>13, <1>14, <1>15 DEF IInv

-----------------------------------------------------------------------------
(* The theorems. *)

\* The invariant holds of the empty queue of open(): one delimiter, at slot 1.
LEMMA InitIInv == Init => IInv
<1> SUFFICES ASSUME Init PROVE IInv
  OBVIOUS
<1>1. /\ 1 \in Slots /\ (\A s \in Slots : s \in Int /\ s >= 1)
      /\ (\A s \in 1..MaxSlots : s \in Slots)
  BY BoundsAssumption DEF Slots
<1>2. /\ word \in [Slots -> SUBSET Bits] /\ word[1] = {TXN_DELIMITER, TXN_COMMITTED}
      /\ \A s \in Slots : s # 1 => word[s] = {}
  BY <1>1 DEF Init, Bits
<1>3. /\ resolution \in [Slots -> Resolution] /\ FP(1) = 1
  <2>1. \A r \in Slots : (IF r = 1 THEN 1 ELSE 0) \in 0..(MaxSlots + 1)
    BY BoundsAssumption
  <2>2. \A r \in Slots : NewResolution(IF r = 1 THEN 1 ELSE 0) \in Resolution
    BY <2>1, NewResolutionRecord
  <2>3. 1 \in 0..(MaxSlots + 1) BY BoundsAssumption
  <2>4. NewResolution(1).flagPosition = 1 BY <2>3, NewResolutionRecord
  <2> QED BY <1>1, <2>2, <2>4 DEF Init, FP
<1>4. TypeOK
  <2>1. NoInstruction \in Instruction BY DEF NoInstruction, Instruction, Kinds
  <2>2. TypeReserve BY <1>1, <1>3, <2>1 DEF Init, TypeReserve
  <2>3. TypeWord BY <1>2 DEF TypeWord
  <2>4. TypeBatch /\ TypeStart /\ TypeSettle
    <3>1. 0 \in 0..(MaxSlots + 1) /\ 0 \in 0..MaxSlots BY BoundsAssumption
    <3>2. TypeBatch
      <4>1. <<>> \in Seq(Slots) OBVIOUS
      <4>2. batchDepth \in Nat /\ blocks \in Seq(Slots) /\ enqueuedEventTurnBatch \in BOOLEAN
        BY <4>1 DEF Init
      <4>3. outstandingBatchCount \in Nat /\ outstandingWriteCount \in Int BY DEF Init
      <4> QED BY <3>1, <4>2, <4>3 DEF Init, TypeBatch
    <3>3. TypeStart BY <3>1 DEF Init, TypeStart
    <3>4. TypeSettle BY <1>1, <3>1 DEF Init, TypeSettle
    <3> QED BY <3>2, <3>3, <3>4
  <2>5. TypeCall BY IdleCall DEF Init, TypeCall
  <2>6. TypeWorker /\ TypeHistory BY DEF Init, TypeWorker, TypeHistory, Free
  <2> QED BY <2>2, <2>3, <2>4, <2>5, <2>6 DEF TypeOK
<1>5. /\ Len(blocks) = 0 /\ Reserved = {} /\ position = 1 /\ Len(log) = 0 /\ DOMAIN worker = {}
  BY DEF Init, Reserved
<1>6. BatchInv /\ ResolutionInv /\ NestInv /\ DeferredInv /\ PromiseInv
  <2>1. BatchInv
    BY <1>5, BoundsAssumption DEF Init, BatchInv, OpensTurn
  <2>2. ResolutionInv BY <1>3, <1>5 DEF Init, ResolutionInv
  <2>3. NestInv BY <1>5 DEF NestInv
  <2>4. DeferredInv /\ PromiseInv BY <1>5 DEF Init, DeferredInv, PromiseInv
  <2> QED BY <2>1, <2>2, <2>3, <2>4
<1>7. WordInv
  BY <1>1, <1>2, <1>5
  DEF WordInv, OP, TXN_DELIMITER, TXN_COMMITTED, FINISHED_OPERATION
<1>8. CallInv
  BY IdleCall, <1>5 DEF Init, CallInv
<1>9. OpenDelimiters = {1} /\ ActiveWorkers = {} /\ startAddress = 0
  BY <1>1, <1>2, <1>5 DEF Init, OpenDelimiters, ActiveWorkers, OP, TXN_DELIMITER, TXN_COMMITTED
<1>10. HandoffUnique BY <1>1, <1>9 DEF HandoffUnique
<1>11. FrontierInv
  <2>1. AtFrontier(1) BY <1>5 DEF AtFrontier, Nest
  <2> QED BY <1>5, <1>9, <2>1 DEF Init, FrontierInv
<1>12. ExecutedInOrder BY <1>5 DEF ExecutedInOrder
<1> QED BY <1>4, <1>6, <1>7, <1>8, <1>10, <1>11, <1>12 DEF IInv

\* Every step of either thread keeps the invariant.
LEMMA NextIInv == IInv /\ [Next]_vars => IInv'
<1> SUFFICES ASSUME IInv, [Next]_vars PROVE IInv'
  OBVIOUS
<1>1. ASSUME NEW kind \in Operations, Write(kind) \/ IfVersion(kind) PROVE IInv'
  BY <1>1, ReserveStep
<1>2. CASE EndEventTurn \/ EndIfVersion
  BY <1>2, EndBlockStep
<1>3. CASE RunEnqueuedCommit
  BY <1>3, StartTask
<1>4. CASE CallStep
  BY <1>4, CallStepPreserves
<1>5. ASSUME NEW w \in DOMAIN worker, WorkerStep(w) PROVE IInv'
  BY <1>5, WorkerStepPreserves
<1>6. ASSUME NEW w \in DOMAIN worker, CommitProgress(w) \/ CallbackProgress(w) \/ Complete(w)
      PROVE  IInv'
  BY <1>6, CallbackStep
<1>7. CASE UNCHANGED vars
  <2> USE <1>7 DEF vars, jsVars, reserveVars, batchVars, promiseVars, startVars, settleVars,
                   historyVars
  <2>1. /\ UNCHANGED <<word, instr, position, nextResolution, resolution, batchDepth, blocks,
                       enqueuedEventTurnBatch, writeBatchStart, call, caller, worker, startAddress,
                       enqueuedCommit, unwrittenResolution, log>>
    OBVIOUS
  <2>2. TypeOK' BY DEF IInv, TypeOK, TypeWord, TypeReserve, TypeBatch, TypeStart, TypeSettle,
                       TypeCall, TypeWorker, TypeHistory
  <2>3. BatchInv' /\ ResolutionInv' /\ WordInv' /\ NestInv'
    BY DEF IInv, BatchInv, ResolutionInv, WordInv, NestInv, Reserved, FP, Nest, Delta
  <2>4. CallInv' /\ DeferredInv' /\ PromiseInv'
    BY DEF IInv, CallInv, DeferredInv, PromiseInv, Reserved, FP, Published
  <2>5. HandoffUnique' /\ FrontierInv' /\ ExecutedInOrder'
    BY DEF IInv, HandoffUnique, FrontierInv, ExecutedInOrder, OpenDelimiters, ActiveWorkers,
           AtFrontier, WorkerAtFrontier, Nest
  <2> QED BY <2>2, <2>3, <2>4, <2>5 DEF IInv
<1> QED BY <1>1, <1>2, <1>3, <1>4, <1>5, <1>6, <1>7 DEF Next

\* The inductive invariant holds in every reachable state.
THEOREM InvariantCorrect == Spec => []IInv
BY InitIInv, NextIInv, PTL DEF Spec

\* No reservation of write.js, no worker of writer.cpp and no cursor of
\* resolveWrites ever leaves the reserved slots, whatever the options, the
\* thresholds and the number of slots.
THEOREM TypeCorrect == Spec => []TypeOK
<1>1. IInv => TypeOK BY DEF IInv
<1> QED BY <1>1, InvariantCorrect, PTL

\* The right to continue the queue is never lost and never held twice: at most
\* one write transaction is being filled, and whoever publishes into the slot of
\* the closing delimiter, and nobody else, starts the next worker.
THEOREM HandoffCorrect == Spec => []HandoffUnique
<1>1. IInv => HandoffUnique BY DEF IInv
<1> QED BY <1>1, InvariantCorrect, PTL

\* Whatever the interleaving of the write closures with the workers, every
\* instruction is executed at most once and none before its predecessors.
THEOREM OrderCorrect == Spec => []ExecutedInOrder
<1>1. IInv => ExecutedInOrder BY DEF IInv
<1> QED BY <1>1, InvariantCorrect, PTL

-----------------------------------------------------------------------------
(* Blocks: the inductive invariant, relative to IInv of WriteQueueProofs. *)

\* The blocks open at a slot: those recorded in it or, at the next free one, those
\* open now.
OpenAt(s) == IF s < position THEN instr[s].within ELSE blocks
Frontier == Len(log) + 1

\* How an instruction changes the blocks that are open.
ShapeAt(s) ==
    IF instr[s].kind \in {"START", "COND"}
    THEN \E r \in Reserved : FP(r) = s /\ OpenAt(s + 1) = Append(OpenAt(s), r)
    ELSE IF instr[s].kind = "END"
    THEN Len(OpenAt(s)) > 0 /\ OpenAt(s + 1) = SubSeq(OpenAt(s), 1, Len(OpenAt(s)) - 1)
    ELSE OpenAt(s + 1) = OpenAt(s)
ShapeInv == \A s \in 1..(position - 1) : ShapeAt(s)

\* A block that is open at a slot has been reserved before it.
InsideAt(s) ==
    \A i \in 1..Len(OpenAt(s)) : OpenAt(s)[i] \in Reserved /\ FP(OpenAt(s)[i]) < s
InsideInv == \A s \in 1..position : InsideAt(s)

\* The transaction of a slot is known when the slot is executed.
DoneInv == \A s \in 1..MaxSlots : txnOf[s] = 0 <=> s > Len(log)

\* The worker that may go on has run the start of every block that is open at the
\* frontier; validatedDepth is how many of them, from outside, are met.
MetUpTo(w) ==
    LET open == OpenAt(Frontier)
        n == worker[w].validated
    IN  /\ n \in 0..Len(open)
        /\ \A i \in 1..Len(open) : txnOf[FP(open[i])] = w
        /\ \A i \in 1..n : result[FP(open[i])]
        /\ n < Len(open) => ~result[FP(open[n + 1])]
ActiveInv == \A w \in ActiveWorkers : MetUpTo(w)

BlocksInv ==
    ShapeInv /\ InsideInv /\ DoneInv /\ BlockAtomic /\ ConditionsNest /\ ActiveInv

-----------------------------------------------------------------------------
(* Slots and the blocks open at them. *)

\* The blocks open at a slot are a sequence; their number is the nesting depth.
LEMMA OpenTypes ==
    ASSUME TypeOK, NEW s \in 1..position
    PROVE  /\ OpenAt(s) \in Seq(Slots) /\ Len(OpenAt(s)) \in Nat /\ Nest(s) = Len(OpenAt(s))
           /\ s < position => /\ s \in 1..MaxSlots /\ s + 1 \in 1..position
                              /\ instr[s] \in Instruction /\ OpenAt(s) = instr[s].within
<1>1. position \in Slots /\ instr \in [1..MaxSlots -> Instruction] /\ blocks \in Seq(Slots)
  BY DEF TypeOK, TypeReserve, TypeBatch
<1>2. CASE s < position
  <2>1. s \in 1..MaxSlots /\ s + 1 \in 1..position BY <1>1, <1>2, BoundsAssumption DEF Slots
  <2>2. instr[s] \in Instruction BY <1>1, <2>1
  <2>3. OpenAt(s) = instr[s].within /\ instr[s].within \in Seq(Slots) BY <1>2, <2>2 DEF OpenAt, Instruction
  <2>4. Nest(s) = Len(instr[s].within) BY <1>2 DEF Nest
  <2> QED BY <2>1, <2>2, <2>3, <2>4
<1>3. CASE ~(s < position)
  <2>1. OpenAt(s) = blocks /\ Nest(s) = Len(blocks) BY <1>3 DEF OpenAt, Nest
  <2> QED BY <1>1, <1>3, <2>1
<1> QED BY <1>2, <1>3

\* The frontier is a reserved slot or the next free one.
LEMMA FrontierTypes ==
    ASSUME IInv
    PROVE  /\ Len(log) \in Nat /\ Frontier \in 1..position /\ position \in Slots
           /\ Frontier = Len(log) + 1 /\ Len(log) < position
<1>1. Len(log) \in Nat /\ position \in Slots /\ Len(log) < position
  BY DEF IInv, TypeOK, TypeHistory, TypeReserve, FrontierInv
<1> QED BY <1>1 DEF Frontier, Slots

\* The blocks around an executed slot, and where they start.
LEMMA AroundExecuted ==
    ASSUME IInv, InsideInv, NEW s \in 1..MaxSlots, s <= Len(log)
    PROVE  /\ s < position /\ OpenAt(s) = instr[s].within /\ Len(OpenAt(s)) \in Nat
           /\ DOMAIN instr[s].within = 1..Len(OpenAt(s))
           /\ \A i \in 1..Len(OpenAt(s)) : /\ OpenAt(s)[i] \in Reserved
                                           /\ FP(OpenAt(s)[i]) \in 1..MaxSlots
                                           /\ FP(OpenAt(s)[i]) < s
<1>1. s < position /\ s \in 1..position BY FrontierTypes DEF Slots
<1>2. OpenAt(s) = instr[s].within /\ OpenAt(s) \in Seq(Slots) BY <1>1, OpenTypes DEF IInv
<1>3. \A i \in 1..Len(OpenAt(s)) : OpenAt(s)[i] \in Reserved /\ FP(OpenAt(s)[i]) < s
  BY <1>1 DEF InsideInv, InsideAt
<1>4. \A i \in 1..Len(OpenAt(s)) : FP(OpenAt(s)[i]) \in 1..(position - 1)
  BY <1>3 DEF IInv, ResolutionInv
<1>5. position \in Slots BY FrontierTypes
<1>6. \A i \in 1..Len(OpenAt(s)) : FP(OpenAt(s)[i]) \in 1..MaxSlots
  BY <1>4, <1>5, BoundsAssumption DEF Slots
<1> QED BY <1>1, <1>2, <1>3, <1>6

-----------------------------------------------------------------------------
(* Steps that execute nothing. *)

\* Nothing that was reserved changes, and the workers go on with what they know.
LEMMA KeepBlocks ==
    ASSUME IInv, BlocksInv, IInv', UNCHANGED <<txnOf, result, log>>,
           \A s \in 1..MaxSlots : s < position => instr'[s] = instr[s],
           \A r \in Reserved : FP(r)' = FP(r),
           \A s \in 1..position : OpenAt(s)' = OpenAt(s),
           \A w \in ActiveWorkers' :
              \/ w \in ActiveWorkers /\ worker'[w].validated = worker[w].validated
              \/ worker'[w].validated = 0 /\ Len(OpenAt(Frontier)) = 0
    PROVE  DoneInv' /\ BlockAtomic' /\ ConditionsNest' /\ ActiveInv'
<1>1. DoneInv'
  BY DEF BlocksInv, DoneInv
<1>2. \A s \in 1..MaxSlots : txnOf[s] # 0 =>
        /\ instr'[s] = instr[s] /\ EnclosingSlots(s)' = EnclosingSlots(s)
        /\ EnclosingSlots(s) \subseteq 1..MaxSlots
  <2> TAKE s \in 1..MaxSlots
  <2> HAVE txnOf[s] # 0
  <2>1. s <= Len(log)
    <3>1. ~(s > Len(log)) BY DEF BlocksInv, DoneInv
    <3>2. Len(log) \in Nat BY FrontierTypes
    <3> QED BY <3>1, <3>2
  <2>2. /\ s < position /\ OpenAt(s) = instr[s].within
        /\ DOMAIN instr[s].within = 1..Len(OpenAt(s))
        /\ \A i \in 1..Len(OpenAt(s)) : OpenAt(s)[i] \in Reserved /\ FP(OpenAt(s)[i]) \in 1..MaxSlots
    BY <2>1, AroundExecuted DEF BlocksInv
  <2>3. instr'[s] = instr[s] BY <2>2
  <2>4. \A i \in DOMAIN instr[s].within :
          /\ resolution'[instr[s].within[i]].flagPosition = resolution[instr[s].within[i]].flagPosition
          /\ resolution[instr[s].within[i]].flagPosition \in 1..MaxSlots
    BY <2>2 DEF FP
  <2> QED BY <2>3, <2>4 DEF EnclosingSlots
<1>3. BlockAtomic'
  BY <1>2 DEF BlocksInv, BlockAtomic
<1>4. ConditionsNest'
  BY <1>2 DEF BlocksInv, ConditionsNest
<1>5. ActiveInv'
  <2> SUFFICES ASSUME NEW w \in ActiveWorkers' PROVE MetUpTo(w)'
    BY DEF ActiveInv
  <2> DEFINE open == OpenAt(Frontier)
  <2>1. Frontier' = Frontier /\ Frontier \in 1..position BY FrontierTypes DEF Frontier
  <2>2. OpenAt(Frontier)' = open
    <3>1. \A s : s = Frontier' => OpenAt(Frontier)' = OpenAt(s)' BY DEF OpenAt
    <3> QED BY <2>1, <3>1
  <2>3. \A i \in 1..Len(open) : FP(open[i])' = FP(open[i])
    BY <2>1 DEF BlocksInv, InsideInv, InsideAt
  <2>4. Len(open) \in Nat BY <2>1, OpenTypes DEF IInv
  <2>5. CASE w \in ActiveWorkers /\ worker'[w].validated = worker[w].validated
    <3>1. MetUpTo(w) BY <2>5 DEF BlocksInv, ActiveInv
    <3> DEFINE n == worker[w].validated
    <3>2. n \in 0..Len(open) /\ n \in Int BY <3>1 DEF MetUpTo
    <3>3. n < Len(open) => n + 1 \in 1..Len(open) BY <2>4, <3>2
    <3> QED BY <2>2, <2>3, <2>5, <3>1, <3>2, <3>3 DEF MetUpTo
  <2>6. CASE worker'[w].validated = 0 /\ Len(open) = 0
    BY <2>2, <2>6 DEF MetUpTo
  <2> QED BY <2>5, <2>6
<1> QED BY <1>1, <1>3, <1>4, <1>5

\* A step that neither reserves nor executes.
LEMMA StaticStep ==
    ASSUME IInv, BlocksInv, IInv', UNCHANGED <<txnOf, result, log, reserveVars, batchVars>>,
           \A r \in Slots : FP(r)' = FP(r),
           \A w \in ActiveWorkers' :
              \/ w \in ActiveWorkers /\ worker'[w].validated = worker[w].validated
              \/ worker'[w].validated = 0 /\ Len(OpenAt(Frontier)) = 0
    PROVE  BlocksInv'
<1>1. /\ UNCHANGED <<instr, position, nextResolution, blocks>>
      /\ \A s : OpenAt(s)' = OpenAt(s)
  BY DEF reserveVars, batchVars, OpenAt
<1>2. Reserved' = Reserved /\ \A r \in Reserved : r \in Slots
  BY <1>1, BoundsAssumption DEF IInv, TypeOK, TypeReserve, Reserved, Slots
<1>3. ShapeInv' /\ InsideInv'
  BY <1>1, <1>2 DEF BlocksInv, ShapeInv, ShapeAt, InsideInv, InsideAt
<1>4. DoneInv' /\ BlockAtomic' /\ ConditionsNest' /\ ActiveInv'
  BY <1>1, <1>2, KeepBlocks
<1> QED BY <1>3, <1>4 DEF BlocksInv
-----------------------------------------------------------------------------
(* Executing an instruction. *)

\* What the worker knows of the blocks after the instruction at the frontier.
ValidatedAfter(s, n, ok) ==
    IF instr[s].kind \in {"START", "COND"} THEN IF ok THEN n + 1 ELSE n
    ELSE IF instr[s].kind = "END" THEN ValidatedAfterEnd(n, Len(OpenAt(s)) - 1)
    ELSE n

\* The instruction at the frontier is executed by the worker that is there, and its
\* outcome follows the blocks around it.
LEMMA ExecutedBlocks ==
    ASSUME IInv, BlocksInv, IInv', NEW w \in DOMAIN worker, NEW ok \in BOOLEAN, NEW s,
           s = worker[w].pos, worker[w].pc = "run", OP \in word[s],
           UNCHANGED jsVars, DOMAIN worker' = DOMAIN worker,
           \A v \in DOMAIN worker : v # w => worker'[v] = worker[v],
           worker'[w].validated = ValidatedAfter(s, worker[w].validated, ok),
           txnOf' = [txnOf EXCEPT ![s] = w], log' = Append(log, s),
           result' = IF instr[s].kind = "END" THEN result ELSE [result EXCEPT ![s] = ok],
           ok => Validated(w),
           Validated(w) /\ instr[s].kind \in Unconditional => ok
    PROVE  BlocksInv'
<1> DEFINE open == OpenAt(s)
           len == Len(open)
           n == worker[w].validated
<1>1. /\ worker[w] \in Worker /\ w \in Nat /\ w # 0 /\ s = Len(log) + 1 /\ worker[w].depth = Nest(s)
      /\ ActiveWorkers = {w}
  <2>1. w # 0 BY DEF IInv, TypeOK, TypeWorker
  <2> QED BY <2>1, RunningWorker
<1>2. /\ s \in 1..MaxSlots /\ s \in 1..position /\ s + 1 \in 1..position /\ s < position /\ s = Frontier
      /\ s \in Nat /\ instr[s] \in Instruction /\ open = instr[s].within /\ open \in Seq(Slots)
      /\ len \in Nat /\ Nest(s) = len /\ DOMAIN instr[s].within = 1..len
      /\ position \in Int /\ position <= MaxSlots + 1 /\ s \in 1..(position - 1)
  <2>1. s \in 1..position /\ s = Frontier BY <1>1, FrontierTypes
  <2>2. s < position
    BY <2>1, FrontierTypes, BoundsAssumption DEF IInv, WordInv, Slots
  <2>3. /\ OpenAt(s) \in Seq(Slots) /\ Len(OpenAt(s)) \in Nat /\ Nest(s) = Len(OpenAt(s))
        /\ s \in 1..MaxSlots /\ s + 1 \in 1..position /\ instr[s] \in Instruction
        /\ OpenAt(s) = instr[s].within
    BY <2>1, <2>2, OpenTypes DEF IInv
  <2>4. position \in Int /\ position <= MaxSlots + 1
    BY BoundsAssumption DEF IInv, TypeOK, TypeReserve, Slots
  <2>5. s \in 1..(position - 1) BY <2>1, <2>2, <2>4
  <2> QED BY <2>1, <2>2, <2>3, <2>4, <2>5
<1>3. /\ n \in 0..len /\ n \in Nat
      /\ \A i \in 1..len : txnOf[FP(open[i])] = w
      /\ \A i \in 1..n : result[FP(open[i])]
      /\ n < len => n + 1 \in 1..len /\ ~result[FP(open[n + 1])]
  <2>1. MetUpTo(w) BY <1>1 DEF BlocksInv, ActiveInv
  <2>2. /\ n \in 0..len
        /\ \A i \in 1..len : txnOf[FP(open[i])] = w
        /\ \A i \in 1..n : result[FP(open[i])]
        /\ n < len => ~result[FP(open[n + 1])]
    <3> HIDE DEF n
    <3>1. n = worker[w].validated /\ open = OpenAt(Frontier) BY <1>2 DEF n
    <3> QED BY <2>1, <3>1 DEF MetUpTo
  <2>3. n \in Nat /\ (n < len => n + 1 \in 1..len)
    <3>1. len \in Nat /\ n \in 0..len BY <1>2, <2>2
    <3> HIDE DEF n, len
    <3> QED BY <3>1
  <2> QED BY <2>2, <2>3
<1>4. \A i \in 1..len : /\ open[i] \in Reserved /\ FP(open[i]) \in 1..MaxSlots /\ FP(open[i]) < s
  <2> TAKE i \in 1..len
  <2>1. open[i] \in Reserved /\ FP(open[i]) < s BY <1>2 DEF BlocksInv, InsideInv, InsideAt
  <2>2. FP(open[i]) \in 1..(position - 1) BY <2>1 DEF IInv, ResolutionInv
  <2> QED BY <1>2, <2>1, <2>2, BoundsAssumption
<1>5. Validated(w) <=> n = len
  BY <1>1, <1>2 DEF Validated
<1>6. /\ UNCHANGED <<instr, position, nextResolution, resolution, blocks>>
      /\ \A x : OpenAt(x)' = OpenAt(x) /\ FP(x)' = FP(x)
      /\ \A x \in 1..MaxSlots : EnclosingSlots(x)' = EnclosingSlots(x)
  BY DEF jsVars, reserveVars, batchVars, OpenAt, FP, EnclosingSlots
<1>7. Reserved' = Reserved BY <1>6 DEF Reserved
<1>8. ShapeInv' /\ InsideInv'
  BY <1>6, <1>7 DEF BlocksInv, ShapeInv, ShapeAt, InsideInv, InsideAt
<1>9. /\ txnOf \in [1..MaxSlots -> Nat] /\ result \in [1..MaxSlots -> BOOLEAN] /\ log \in Seq(Slots)
      /\ s \in Slots
  <2>1. s \in Slots BY <1>2, BoundsAssumption DEF Slots
  <2> QED BY <2>1 DEF IInv, TypeOK, TypeHistory
<1>10. /\ Len(log') = s /\ txnOf'[s] = w
       /\ \A x \in 1..MaxSlots : x # s => txnOf'[x] = txnOf[x] /\ result'[x] = result[x]
       /\ instr[s].kind # "END" => result'[s] = ok
  BY <1>1, <1>2, <1>9
<1>11. DoneInv'
  <2> SUFFICES ASSUME NEW x \in 1..MaxSlots PROVE txnOf'[x] = 0 <=> x > Len(log')
    BY DEF DoneInv
  <2>1. txnOf[x] = 0 <=> x > Len(log) BY DEF BlocksInv, DoneInv
  <2>2. Len(log) \in Nat BY FrontierTypes
  <2>3. CASE x = s BY <1>1, <1>2, <1>10, <2>3
  <2>4. CASE x # s
    <3>1. txnOf'[x] = txnOf[x] BY <1>10, <2>4
    <3>2. x > Len(log) <=> x > s BY <1>1, <2>2, <2>4
    <3> QED BY <1>10, <2>1, <3>1, <3>2
  <2> QED BY <2>3, <2>4
<1>12. \A x \in 1..MaxSlots : txnOf'[x] # 0 /\ x # s =>
         /\ txnOf[x] # 0
         /\ \A b \in EnclosingSlots(x) : b \in 1..MaxSlots /\ b # s
  <2> TAKE x \in 1..MaxSlots
  <2> HAVE txnOf'[x] # 0 /\ x # s
  <2>1. txnOf[x] # 0 BY <1>10
  <2>2. x <= Len(log)
    <3>1. ~(x > Len(log)) BY <2>1 DEF BlocksInv, DoneInv
    <3> QED BY <3>1, FrontierTypes
  <2>3. /\ OpenAt(x) = instr[x].within /\ DOMAIN instr[x].within = 1..Len(OpenAt(x))
        /\ \A i \in 1..Len(OpenAt(x)) : FP(OpenAt(x)[i]) \in 1..MaxSlots /\ FP(OpenAt(x)[i]) < x
    BY <2>2, AroundExecuted DEF BlocksInv
  <2>4. \A i \in 1..Len(OpenAt(x)) : FP(OpenAt(x)[i]) \in 1..MaxSlots /\ FP(OpenAt(x)[i]) # s
    BY <1>1, <2>2, <2>3, FrontierTypes
  <2> QED BY <2>1, <2>3, <2>4 DEF EnclosingSlots, FP
<1>13. EnclosingSlots(s) = {FP(open[i]) : i \in 1..len}
  BY <1>2 DEF EnclosingSlots, FP
<1>14. /\ \A b \in EnclosingSlots(s) : b \in 1..MaxSlots /\ b # s /\ txnOf'[b] = w
       /\ (\A b \in EnclosingSlots(s) : result'[b]) <=> n = len
  <2>1. \A i \in 1..len : /\ FP(open[i]) \in 1..MaxSlots /\ FP(open[i]) # s
                          /\ txnOf'[FP(open[i])] = w
                          /\ result'[FP(open[i])] = result[FP(open[i])]
    BY <1>2, <1>3, <1>4, <1>10, SMTT(30)
  <2>2. CASE n = len
    <3>1. \A i \in 1..len : result'[FP(open[i])] BY <1>3, <2>1, <2>2
    <3>2. \A b \in EnclosingSlots(s) : result'[b] BY <1>13, <3>1, Zenon
    <3>3. \A b \in EnclosingSlots(s) : b \in 1..MaxSlots /\ b # s /\ txnOf'[b] = w BY <1>13, <2>1
    <3> QED BY <2>2, <3>2, <3>3, Zenon
  <2>3. CASE n # len
    <3>1. n < len BY <1>2, <1>3, <2>3
    <3>2. n + 1 \in 1..len /\ ~result'[FP(open[n + 1])] BY <1>3, <2>1, <3>1
    <3>3. FP(open[n + 1]) \in EnclosingSlots(s) BY <1>13, <3>2
    <3>4. ~(\A b \in EnclosingSlots(s) : result'[b]) BY <3>2, <3>3, Zenon
    <3>5. \A b \in EnclosingSlots(s) : b \in 1..MaxSlots /\ b # s /\ txnOf'[b] = w BY <1>13, <2>1
    <3> QED BY <2>3, <3>4, <3>5, Zenon
  <2> QED BY <2>2, <2>3
<1>15. BlockAtomic'
  <2> SUFFICES ASSUME NEW x \in 1..MaxSlots, txnOf'[x] # 0, NEW b \in EnclosingSlots(x)
               PROVE  txnOf'[b] = txnOf'[x]
    BY <1>6 DEF BlockAtomic
  <2>1. CASE x = s BY <1>10, <1>14, <2>1
  <2>2. CASE x # s
    <3>1. txnOf[x] # 0 /\ b \in 1..MaxSlots /\ b # s BY <1>12, <2>2
    <3>2. txnOf[b] = txnOf[x] BY <3>1 DEF BlocksInv, BlockAtomic
    <3> QED BY <1>10, <2>2, <3>1, <3>2
  <2> QED BY <2>1, <2>2
<1>16. ConditionsNest'
  <2> SUFFICES ASSUME NEW x \in 1..MaxSlots, txnOf'[x] # 0, instr[x].kind # "END"
               PROVE  LET met == \A b \in EnclosingSlots(x) : result'[b]
                      IN  /\ result'[x] => met
                          /\ met /\ instr[x].kind \in Unconditional => result'[x]
    BY <1>6, Zenon DEF ConditionsNest
  <2>1. CASE x = s BY <1>5, <1>10, <1>14, <2>1, Zenon
  <2>2. CASE x # s
    <3>1. txnOf[x] # 0 /\ \A b \in EnclosingSlots(x) : b \in 1..MaxSlots /\ b # s BY <1>12, <2>2
    <3>2. \A b \in EnclosingSlots(x) : result'[b] = result[b] BY <1>10, <3>1
    <3>3. result'[x] = result[x] BY <1>10, <2>2
    <3>4. LET met == \A b \in EnclosingSlots(x) : result[b]
          IN  /\ result[x] => met
              /\ met /\ instr[x].kind \in Unconditional => result[x]
      BY <3>1, Zenon DEF BlocksInv, ConditionsNest
    <3> QED BY <3>2, <3>3, <3>4, Zenon
  <2> QED BY <2>1, <2>2
<1>17. ActiveInv'
  <2> DEFINE next == OpenAt(s + 1)
             m == ValidatedAfter(s, n, ok)
  <2>1. /\ m \in 0..Len(next)
        /\ \A i \in 1..Len(next) : txnOf'[FP(next[i])] = w
        /\ \A i \in 1..m : result'[FP(next[i])]
        /\ m < Len(next) => ~result'[FP(next[m + 1])]
    <3>1. \A i \in 1..len : /\ txnOf'[FP(open[i])] = w
                            /\ result'[FP(open[i])] = result[FP(open[i])]
      BY <1>2, <1>3, <1>4, <1>10
    <3>2. CASE instr[s].kind \in {"START", "COND"}
      <4>1. PICK r \in Reserved : FP(r) = s /\ next = Append(open, r)
        BY <1>2, <3>2 DEF BlocksInv, ShapeInv, ShapeAt
      <4>2. r \in Slots BY BoundsAssumption DEF IInv, TypeOK, TypeReserve, Reserved, Slots
      <4>3. Len(next) = len + 1 /\ next[len + 1] = r /\ \A i \in 1..len : next[i] = open[i]
        BY <1>2, <4>1, <4>2, SeqAppend
      <4>4. m = IF ok THEN n + 1 ELSE n BY <3>2 DEF ValidatedAfter
      <4>5. result'[FP(next[len + 1])] = ok /\ txnOf'[FP(next[len + 1])] = w
        BY <1>10, <3>2, <4>1, <4>3
      <4> HIDE DEF next, m, open, len, n
      <4>6. \A i \in 1..Len(next) : txnOf'[FP(next[i])] = w
        <5> TAKE i \in 1..Len(next)
        <5>1. i \in 1..len \/ i = len + 1 BY <1>2, <4>3
        <5> QED BY <3>1, <4>3, <4>5, <5>1
      <4>7. CASE ok
        <5>1. n = len /\ m = len + 1 BY <1>5, <4>4, <4>7
        <5>2. m \in 0..Len(next) /\ ~(m < Len(next)) BY <1>2, <4>3, <5>1
        <5>3. \A i \in 1..m : result'[FP(next[i])]
          <6> TAKE i \in 1..m
          <6>1. i \in 1..len \/ i = len + 1 BY <1>2, <5>1
          <6>2. CASE i \in 1..len BY <1>3, <3>1, <4>3, <5>1, <6>2
          <6>3. CASE i = len + 1 BY <4>5, <4>7, <6>3
          <6> QED BY <6>1, <6>2, <6>3
        <5> QED BY <4>6, <5>2, <5>3
      <4>8. CASE ~ok
        <5>1. m = n /\ m \in 0..Len(next) /\ \A i \in 1..m : i \in 1..len BY <1>2, <1>3, <4>3, <4>4, <4>8
        <5>2. \A i \in 1..m : result'[FP(next[i])] BY <1>3, <3>1, <4>3, <5>1
        <5>3. ~result'[FP(next[m + 1])]
          <6>1. CASE n = len BY <4>5, <4>8, <5>1, <6>1
          <6>2. CASE n # len
            <7>1. n < len BY <1>2, <1>3, <6>2
            <7> QED BY <1>3, <3>1, <4>3, <5>1, <7>1
          <6> QED BY <6>1, <6>2
        <5> QED BY <4>6, <5>1, <5>2, <5>3
      <4> QED BY <4>7, <4>8
    <3>3. CASE instr[s].kind = "END"
      <4>1. len > 0 /\ next = SubSeq(open, 1, len - 1)
        BY <1>2, <3>3 DEF BlocksInv, ShapeInv, ShapeAt
      <4>2. Len(next) = len - 1 /\ \A i \in 1..Len(next) : next[i] = open[i]
        <5>1. len = Len(open) /\ open \in Seq(Slots) /\ Len(open) > 0 BY <1>2, <4>1
        <5> HIDE DEF open, next, len
        <5> QED BY <4>1, <5>1, SeqFront
      <4>3. m = IF n > len - 1 THEN n - 1 ELSE n BY <3>3 DEF ValidatedAfter, ValidatedAfterEnd
      <4> HIDE DEF next, m, open, len, n
      <4>4. /\ m \in 0..Len(next) /\ m <= n /\ \A i \in 1..Len(next) : i \in 1..len
            /\ \A i \in 1..m : i \in 1..n /\ i \in 1..Len(next)
            /\ m < Len(next) => m = n /\ n < len /\ m + 1 \in 1..Len(next)
        BY <1>2, <1>3, <4>1, <4>2, <4>3
      <4> QED BY <1>3, <3>1, <4>2, <4>4, SMTT(30)
    <3>4. CASE instr[s].kind \notin {"START", "COND", "END"}
      <4>1. next = open /\ m = n
        BY <1>2, <3>4 DEF BlocksInv, ShapeInv, ShapeAt, ValidatedAfter
      <4>2. \A i \in 1..n : i \in 1..len BY <1>2, <1>3
      <4> QED BY <1>3, <3>1, <4>1, <4>2
    <3> QED BY <3>2, <3>3, <3>4
  <2>2. Frontier' = s + 1 BY <1>10 DEF Frontier
  <2>3. OpenAt(Frontier)' = next
    <3>1. \A x : x = Frontier' => OpenAt(Frontier)' = OpenAt(x)' BY DEF OpenAt
    <3> QED BY <1>6, <2>2, <3>1
  <2>4. \A v \in ActiveWorkers' : v = w
    BY <1>1 DEF ActiveWorkers
  <2>5. MetUpTo(w)'
    BY <1>6, <2>1, <2>3 DEF MetUpTo
  <2> QED BY <2>4, <2>5 DEF ActiveInv
<1> QED BY <1>8, <1>11, <1>15, <1>16, <1>17 DEF BlocksInv
\* The record of a worker that executes.
LEMMA ExecutedRecord ==
    ASSUME IInv, NEW w \in DOMAIN worker, NEW ok \in BOOLEAN, NEW f \in Worker,
           Executed(w, ok, [worker EXCEPT ![w] = f])
    PROVE  /\ DOMAIN worker' = DOMAIN worker /\ worker'[w].validated = f.validated
           /\ \A v \in DOMAIN worker : v # w => worker'[v] = worker[v]
<1> DEFINE s == worker[w].pos
           flags == {FINISHED_OPERATION} \cup IF ok THEN {} ELSE {FAILED_CONDITION}
           mid == [worker EXCEPT ![w] = f]
<1>1. /\ DOMAIN mid = DOMAIN worker /\ mid[w] = f
      /\ \A v \in DOMAIN worker : v # w => mid[v] = worker[v]
  BY DEF IInv, TypeOK, TypeWorker
<1>2. worker' = IF worker[w].overlappedWord
                THEN [mid EXCEPT ![w].pos = s + 1, ![w].overlappedWord = FALSE]
                ELSE [mid EXCEPT ![w].pc = "store", ![w].loaded = word[s] \cup flags]
  BY DEF Executed
<1> HIDE DEF mid, flags
<1> DEFINE g == IF worker[w].overlappedWord THEN [f EXCEPT !.pos = s + 1, !.overlappedWord = FALSE]
                ELSE [f EXCEPT !.pc = "store", !.loaded = word[s] \cup flags]
<1>3. worker' = [mid EXCEPT ![w] = g]
  BY <1>1, <1>2
<1>4. g.validated = f.validated
  BY DEF Worker
<1> HIDE DEF g
<1> QED BY <1>1, <1>3, <1>4

\* Put, removal, block start, user callback and block end.
LEMMA ExecuteBlocks ==
    ASSUME IInv, BlocksInv, IInv', NEW w \in DOMAIN worker,
           ExecuteWrite(w) \/ ExecuteStart(w) \/ ExecuteCall(w) \/ ExecuteEnd(w)
    PROVE  BlocksInv'
<1> DEFINE s == worker[w].pos
           n == worker[w].validated
<1>1. worker[w].pc = "run" /\ OP \in word[s] /\ worker[w] \in Worker
  <2>1. worker[w].pc = "run" /\ OP \in word[s]
    BY DEF ExecuteWrite, ExecuteStart, ExecuteCall, ExecuteEnd, Executes, Running, Fetched
  <2> QED BY <2>1, WorkerTypes DEF IInv
<1>2. s \in 1..position /\ s < position /\ worker[w].depth = Len(OpenAt(s)) /\ n \in Int
      /\ worker[w].depth \in Int
  <2>1. s \in Slots /\ s <= position /\ worker[w].depth = Nest(s) BY <1>1, RunningWorker
  <2>2. s < position BY <1>1, <2>1, FrontierTypes, BoundsAssumption DEF IInv, WordInv, Slots
  <2>3. s \in 1..position BY <2>1, FrontierTypes, BoundsAssumption DEF Slots
  <2>4. Nest(s) = Len(OpenAt(s)) BY <2>3, OpenTypes DEF IInv
  <2> QED BY <1>1, <2>1, <2>2, <2>3, <2>4 DEF Worker
<1>3. ASSUME NEW ok \in BOOLEAN, NEW f \in Worker, Executed(w, ok, [worker EXCEPT ![w] = f]),
             f.validated = ValidatedAfter(s, n, ok), instr[s].kind # "END", ok => Validated(w),
             Validated(w) /\ instr[s].kind \in Unconditional => ok
      PROVE  BlocksInv'
  <2>1. /\ DOMAIN worker' = DOMAIN worker /\ worker'[w].validated = ValidatedAfter(s, n, ok)
        /\ \A v \in DOMAIN worker : v # w => worker'[v] = worker[v]
    BY <1>3, ExecutedRecord
  <2>2. /\ UNCHANGED jsVars /\ txnOf' = [txnOf EXCEPT ![s] = w]
        /\ result' = [result EXCEPT ![s] = ok] /\ log' = Append(log, s)
    BY <1>3 DEF Executed
  <2>3. result' = IF instr[s].kind = "END" THEN result ELSE [result EXCEPT ![s] = ok]
    BY <1>3, <2>2
  <2> HIDE DEF s
  <2>4. s = worker[w].pos BY DEF s
  <2> QED BY <1>1, <1>3, <2>1, <2>2, <2>3, <2>4, ExecutedBlocks
<1>4. CASE ExecuteWrite(w)
  <2>1. PICK ok \in BOOLEAN, f \in Worker :
          /\ WroteBy(w, f) /\ Executed(w, ok, [worker EXCEPT ![w] = f]) /\ (ok => Validated(w))
          /\ Validated(w) /\ instr[s].kind \in Unconditional => ok
    BY <1>4, WriteRecord DEF IInv
  <2>2. instr[s].kind \in {"WRITE", "REMOVE", "WRITEIF"}
    BY <1>4 DEF ExecuteWrite, Executes
  <2>3. f.validated = ValidatedAfter(s, n, ok)
    BY <2>1, <2>2 DEF ValidatedAfter, WroteBy
  <2>4. instr[s].kind # "END" BY <2>2
  <2> QED BY <1>1, <1>3, <2>1, <2>3, <2>4
<1>5. CASE ExecuteStart(w)
  <2>1. PICK met \in BOOLEAN :
          /\ instr[s].kind # "COND" => met
          /\ Executed(w, Validated(w) /\ met,
                      [worker EXCEPT ![w].depth = @ + 1,
                                     ![w].validated = IF Validated(w) /\ met THEN @ + 1 ELSE @])
    BY <1>5 DEF ExecuteStart
  <2>2. instr[s].kind \in {"START", "COND"}
    BY <1>5 DEF ExecuteStart, Executes
  <2>3. PICK ok \in BOOLEAN : ok = (Validated(w) /\ met)
    OBVIOUS
  <2> DEFINE v == IF ok THEN n + 1 ELSE n
             f == [worker[w] EXCEPT !.depth = worker[w].depth + 1, !.validated = v]
  <2>4. Executed(w, ok, [worker EXCEPT ![w] = f])
    BY <2>1, <2>3
  <2>5. v \in Int BY <1>2
  <2>6. v = ValidatedAfter(s, n, ok) BY <2>2 DEF ValidatedAfter
  <2> HIDE DEF v
  <2>7. f \in Worker /\ f.validated = v
    <3>1. PICK x \in Worker, d \in Int, u \in Int :
            x = worker[w] /\ d = worker[w].depth + 1 /\ u = v
      BY <1>1, <1>2, <2>5
    <3>2. f = [x EXCEPT !.depth = d, !.validated = u] BY <3>1
    <3> HIDE DEF f
    <3> QED BY <3>1, <3>2 DEF Worker
  <2>8. ok => Validated(w) BY <2>3, Zenon
  <2>9. Validated(w) /\ instr[s].kind \in Unconditional => ok
    <3>1. instr[s].kind \in Unconditional => instr[s].kind # "COND" BY DEF Unconditional
    <3> QED BY <2>1, <2>2, <2>3, <3>1
  <2>10. instr[s].kind # "END" BY <2>2
  <2> HIDE DEF f
  <2> QED BY <1>3, <2>4, <2>6, <2>7, <2>8, <2>9, <2>10
<1>6. CASE ExecuteCall(w)
  <2> DEFINE v == IF Validated(w) THEN FALSE ELSE worker[w].finishedProgress
             f == [worker[w] EXCEPT !.finishedProgress = v]
  <2>1. Executed(w, Validated(w), [worker EXCEPT ![w] = f])
    BY <1>6 DEF ExecuteCall
  <2>2. instr[s].kind = "CALL" /\ v \in BOOLEAN
    BY <1>1, <1>6 DEF ExecuteCall, Executes, Worker
  <2> HIDE DEF v
  <2>3. f \in Worker /\ f.validated = n
    BY <1>1, <2>2 DEF Worker
  <2> HIDE DEF f
  <2>4. Validated(w) \in BOOLEAN BY DEF Validated
  <2>5. n = ValidatedAfter(s, n, Validated(w)) BY <2>2 DEF ValidatedAfter
  <2> QED BY <1>3, <2>1, <2>2, <2>3, <2>4, <2>5
<1>7. CASE ExecuteEnd(w)
  <2> DEFINE v == ValidatedAfterEnd(n, worker[w].depth - 1)
             e == [worker[w] EXCEPT !.pos = s + 1, !.depth = worker[w].depth - 1, !.validated = v]
  <2>1. /\ worker' = [worker EXCEPT ![w] = e] /\ instr[s].kind = "END"
        /\ txnOf' = [txnOf EXCEPT ![s] = w] /\ log' = Append(log, s)
        /\ UNCHANGED <<jsVars, result>>
    BY <1>7 DEF ExecuteEnd, Executes
  <2>2. v = ValidatedAfter(s, n, FALSE) BY <1>2, <2>1 DEF ValidatedAfter
  <2> HIDE DEF v
  <2>3. e.validated = v BY <1>1 DEF Worker
  <2> HIDE DEF e
  <2>4. /\ DOMAIN worker' = DOMAIN worker /\ worker'[w].validated = ValidatedAfter(s, n, FALSE)
        /\ \A u \in DOMAIN worker : u # w => worker'[u] = worker[u]
    BY <2>1, <2>2, <2>3 DEF IInv, TypeOK, TypeWorker
  <2>5. result' = IF instr[s].kind = "END" THEN result ELSE [result EXCEPT ![s] = FALSE]
    BY <2>1
  <2>6. Validated(w) /\ instr[s].kind \in Unconditional => FALSE
    BY <2>1 DEF Unconditional
  <2> HIDE DEF s
  <2>7. s = worker[w].pos BY DEF s
  <2> QED BY <1>1, <2>1, <2>4, <2>5, <2>6, <2>7, ExecutedBlocks
<1> QED BY <1>4, <1>5, <1>6, <1>7

\* The other steps of a worker change none of what is said about blocks.
LEMMA WorkerBlocks ==
    ASSUME IInv, BlocksInv, IInv', NEW w \in DOMAIN worker, WorkerStep(w)
    PROVE  BlocksInv'
<1>1. worker[w] \in Worker /\ DOMAIN worker = 1..Len(worker)
  BY WorkerTypes DEF IInv, TypeOK, TypeWorker
<1>2. ASSUME UNCHANGED <<jsVars, historyVars>>, DOMAIN worker' = DOMAIN worker,
             \A v \in DOMAIN worker :
                /\ worker'[v].validated = worker[v].validated
                /\ worker'[v].pc \in {"queued", "run", "store", "wait"} =>
                   worker[v].pc \in {"queued", "run", "store", "wait"}
      PROVE  BlocksInv'
  <2>1. /\ UNCHANGED <<txnOf, result, log, reserveVars, batchVars>>
        /\ \A r \in Slots : FP(r)' = FP(r)
    BY <1>2 DEF jsVars, historyVars, FP
  <2>2. \A v \in ActiveWorkers' : v \in ActiveWorkers /\ worker'[v].validated = worker[v].validated
    BY <1>2 DEF ActiveWorkers
  <2> QED BY <2>1, <2>2, StaticStep
<1>3. ASSUME UNCHANGED <<jsVars, historyVars>>, NEW e, worker' = [worker EXCEPT ![w] = e],
             e.validated = worker[w].validated,
             e.pc \in {"queued", "run", "store", "wait"} =>
                worker[w].pc \in {"queued", "run", "store", "wait"}
      PROVE  BlocksInv'
  <2>1. /\ DOMAIN worker' = DOMAIN worker /\ worker'[w] = e
        /\ \A v \in DOMAIN worker : v # w => worker'[v] = worker[v]
    BY <1>3
  <2> QED BY <1>2, <1>3, <2>1
<1>4. CASE BeginTxn(w) \/ WakeUp(w)
  <2> DEFINE e == [worker[w] EXCEPT !.pc = "run"]
  <2>1. /\ worker' = [worker EXCEPT ![w] = e] /\ UNCHANGED <<jsVars, historyVars>>
        /\ worker[w].pc \in {"queued", "wait"}
    BY <1>4 DEF BeginTxn, WakeUp
  <2>2. e.validated = worker[w].validated BY <1>1 DEF Worker
  <2> HIDE DEF e
  <2> QED BY <1>3, <2>1, <2>2
<1>5. CASE WaitForOperation(w)
  <2> DEFINE e == [worker[w] EXCEPT !.pc = "wait"]
  <2>1. /\ worker' = [worker EXCEPT ![w] = e] /\ UNCHANGED <<jsVars, historyVars>>
        /\ worker[w].pc = "run"
    BY <1>5 DEF WaitForOperation, Running
  <2>2. e.validated = worker[w].validated BY <1>1 DEF Worker
  <2> HIDE DEF e
  <2> QED BY <1>3, <2>1, <2>2
<1>6. CASE Delimit(w)
  <2> DEFINE e == [worker[w] EXCEPT !.pc = "commit", !.instructions = worker[w].pos]
  <2>1. worker' = [worker EXCEPT ![w] = e] /\ UNCHANGED <<jsVars, historyVars>>
    BY <1>6 DEF Delimit
  <2>2. e.validated = worker[w].validated /\ e.pc = "commit" BY <1>1 DEF Worker
  <2> HIDE DEF e
  <2> QED BY <1>3, <2>1, <2>2
<1>7. CASE StoreFinished(w)
  <2> DEFINE e == [worker[w] EXCEPT !.pc = "run", !.pos = worker[w].pos + 1, !.loaded = {}]
  <2>1. /\ worker' = [worker EXCEPT ![w] = e] /\ UNCHANGED <<jsVars, historyVars>>
        /\ worker[w].pc = "store"
    BY <1>7 DEF StoreFinished
  <2>2. e.validated = worker[w].validated BY <1>1 DEF Worker
  <2> HIDE DEF e
  <2> QED BY <1>3, <2>1, <2>2
<1>8. CASE Commit(w)
  <2>1. PICK outcome : /\ worker' = [worker EXCEPT ![w].pc = "report", ![w].outcome = outcome,
                                       ![w].durable = outcome = "ok" /\ ~OverlappingSync]
                       /\ UNCHANGED <<jsVars, historyVars>>
    BY <1>8 DEF Commit
  <2> DEFINE e == [worker[w] EXCEPT !.pc = "report", !.outcome = outcome,
                                    !.durable = outcome = "ok" /\ ~OverlappingSync]
  <2>2. worker' = [worker EXCEPT ![w] = e] BY <2>1
  <2>3. e.validated = worker[w].validated /\ e.pc = "report" BY <1>1 DEF Worker
  <2> HIDE DEF e
  <2> QED BY <1>3, <2>1, <2>2, <2>3
<1>9. CASE ReportCommit(w)
  <2> DEFINE failed == worker[w].outcome = "failed"
             e == [worker[w] EXCEPT !.pc = IF OverlappingSync /\ ~failed THEN "sync" ELSE "done",
                                    !.progress = OverlappingSync /\ ~failed]
  <2>1. worker' = [worker EXCEPT ![w] = e] /\ UNCHANGED <<jsVars, historyVars>>
    BY <1>9 DEF ReportCommit
  <2>2. e.validated = worker[w].validated /\ e.pc \in {"sync", "done"} BY <1>1 DEF Worker
  <2> HIDE DEF e
  <2> QED BY <1>3, <2>1, <2>2
<1>10. CASE Sync(w)
  <2>1. PICK synced :
          /\ worker' = [v \in DOMAIN worker |->
                      [worker[v] EXCEPT !.durable = @ \/ (synced /\ worker[v].outcome = "ok"),
                                        !.pc = IF v = w THEN "done" ELSE @]]
          /\ UNCHANGED <<jsVars, historyVars>>
    BY <1>10 DEF Sync
  <2>2. DOMAIN worker' = DOMAIN worker BY <2>1
  <2>3. \A v \in DOMAIN worker : /\ worker'[v].validated = worker[v].validated
                                 /\ worker'[v].pc = IF v = w THEN "done" ELSE worker[v].pc
    <3> TAKE v \in DOMAIN worker
    <3> DEFINE d == worker[v].durable \/ (synced /\ worker[v].outcome = "ok")
               pc == IF v = w THEN "done" ELSE worker[v].pc
    <3>1. worker'[v] = [worker[v] EXCEPT !.durable = d, !.pc = pc] BY <2>1
    <3>2. worker[v] \in Worker BY WorkerTypes DEF IInv
    <3> HIDE DEF d, pc
    <3>3. worker'[v].validated = worker[v].validated /\ worker'[v].pc = pc BY <3>1, <3>2 DEF Worker
    <3> QED BY <3>3 DEF pc
  <2>4. \A v \in DOMAIN worker : worker'[v].pc \in {"queued", "run", "store", "wait"} =>
                                  worker[v].pc \in {"queued", "run", "store", "wait"}
    BY <2>3
  <2>5. UNCHANGED <<jsVars, historyVars>> BY <2>1
  <2>6. \A v \in DOMAIN worker : worker'[v].validated = worker[v].validated BY <2>3
  <2> QED BY <1>2, <2>2, <2>4, <2>5, <2>6
<1> QED BY <1>4, <1>5, <1>6, <1>7, <1>8, <1>9, <1>10, ExecuteBlocks DEF WorkerStep
-----------------------------------------------------------------------------
(* Steps of the JavaScript thread that reserve nothing. *)

\* A worker that has just been started is at a slot outside of every block.
LEMMA NewWorkerOutside ==
    ASSUME IInv, IInv', UNCHANGED <<reserveVars, batchVars, log>>, NEW address, NEW resolvers,
           worker' = Append(worker, NewWorker(address, resolvers))
    PROVE  \A w \in ActiveWorkers' :
              \/ w \in ActiveWorkers /\ worker'[w].validated = worker[w].validated
              \/ worker'[w].validated = 0 /\ Len(OpenAt(Frontier)) = 0
<1> DEFINE e == NewWorker(address, resolvers)
           S == Worker \cup {e}
<1>1. worker \in Seq(S)
  <2>1. PICK k \in Nat : worker \in [1..k -> Worker] BY DEF IInv, TypeOK, TypeWorker
  <2>2. worker \in [1..k -> S] BY <2>1
  <2> QED BY <2>2
<1>2. e.validated = 0 /\ e.depth = 0 /\ e.pc = "queued"
  BY DEF NewWorker
<1> HIDE DEF e
<1>3. /\ Len(worker) \in Nat /\ DOMAIN worker = 1..Len(worker)
      /\ DOMAIN worker' = 1..(Len(worker) + 1) /\ worker'[Len(worker) + 1] = e
      /\ \A i \in 1..Len(worker) : worker'[i] = worker[i]
  <2>1. e \in S OBVIOUS
  <2> HIDE DEF S
  <2> QED BY <1>1, <2>1, SeqAppend DEF e
<1>4. \A w \in ActiveWorkers' : w \in 1..Len(worker) \/ w = Len(worker) + 1
  BY <1>3 DEF ActiveWorkers
<1> SUFFICES ASSUME NEW w \in ActiveWorkers'
             PROVE  \/ w \in ActiveWorkers /\ worker'[w].validated = worker[w].validated
                    \/ worker'[w].validated = 0 /\ Len(OpenAt(Frontier)) = 0
  OBVIOUS
<1>5. CASE w \in 1..Len(worker)
  BY <1>3, <1>5 DEF ActiveWorkers
<1>6. CASE w = Len(worker) + 1
  <2>1. worker'[w] = e BY <1>3, <1>6
  <2>2. WorkerAtFrontier(w)' BY DEF IInv, FrontierInv
  <2>3. worker'[w].pos = Len(log') + 1 /\ worker'[w].depth = Nest(worker[w].pos)'
    BY <1>2, <2>1, <2>2 DEF WorkerAtFrontier
  <2>4. worker'[w].pos = Frontier /\ worker'[w].depth = 0
    BY <1>2, <2>1, <2>3 DEF Frontier
  <2>5. Nest(Frontier) = 0
    BY <2>3, <2>4 DEF Nest, reserveVars, batchVars
  <2>6. Nest(Frontier) = Len(OpenAt(Frontier)) BY FrontierTypes, OpenTypes DEF IInv
  <2> QED BY <1>2, <2>1, <2>5, <2>6
<1> QED BY <1>4, <1>5, <1>6

\* What the closure notes moves no resolution and may start a worker.
LEMMA NoteBlocks ==
    ASSUME IInv, BlocksInv, IInv', NEW seen, call.pc \in {"publish", "note"},
           NoteWrite(call.res, seen)
    PROVE  BlocksInv'
<1> DEFINE r == call.res
           ended == TXN_DELIMITER \in seen
           address == AddressAfter(r, ended)
           newFlush == (ended \/ flushPromise = 0) /\ OverlappingSync /\ SeparateFlushed
           resolvers == flushResolvers \cup IF newFlush THEN {r} ELSE {}
<1>1. /\ QueueCommitResolution(r) \/ UNCHANGED <<resolution, txnResolution>>
      /\ UNCHANGED worker \/ worker' = Append(worker, NewWorker(address, resolvers))
      /\ UNCHANGED <<reserveVars, batchVars, historyVars>>
  BY DEF NoteWrite, StartWriting
<1> HIDE DEF address, resolvers
<1>2. UNCHANGED <<reserveVars, batchVars, txnOf, result, log>>
  BY <1>1 DEF historyVars
<1>3. \A q \in Slots : FP(q)' = FP(q)
  <2>1. r \in Slots BY CallFacts
  <2> QED BY <1>1, <2>1, QueueCommit DEF ResolutionsKept
<1>4. \A w \in ActiveWorkers' :
         \/ w \in ActiveWorkers /\ worker'[w].validated = worker[w].validated
         \/ worker'[w].validated = 0 /\ Len(OpenAt(Frontier)) = 0
  <2>1. CASE UNCHANGED worker BY <2>1 DEF ActiveWorkers
  <2>2. CASE worker' = Append(worker, NewWorker(address, resolvers))
    BY <1>2, <2>2, NewWorkerOutside
  <2> QED BY <1>1, <2>1, <2>2
<1> QED BY <1>2, <1>3, <1>4, StaticStep

\* What neither reserves nor executes leaves the slots where they are.
LEMMA JsPlaces ==
    ASSUME IInv,
           \/ CallStep \/ RunEnqueuedCommit
           \/ \E w \in DOMAIN worker : CommitProgress(w) \/ CallbackProgress(w) \/ Complete(w)
    PROVE  /\ UNCHANGED <<reserveVars, batchVars, txnOf, result, log>>
           /\ \A q \in Slots : FP(q)' = FP(q)
<1>1. CASE PublishAtomic \/ NotePlainWrite
  <2>1. PICK seen : NoteWrite(call.res, seen) BY <1>1 DEF PublishAtomic, NotePlainWrite
  <2>2. /\ QueueCommitResolution(call.res) \/ UNCHANGED <<resolution, txnResolution>>
        /\ UNCHANGED <<reserveVars, batchVars, txnOf, result, log>>
    BY <2>1 DEF NoteWrite, historyVars
  <2>3. call.res \in Slots BY <1>1, CallFacts DEF PublishAtomic, NotePlainWrite
  <2> QED BY <2>2, <2>3, QueueCommit DEF ResolutionsKept, FP
<1>2. CASE PublishLoad \/ PublishStore \/ SweepEnd \/ SettleEnd \/ EndCallback \/ RunEnqueuedCommit
  BY <1>2 DEF PublishLoad, PublishStore, SweepEnd, SettleEnd, EndCallback, RunEnqueuedCommit,
              historyVars, FP
<1>3. CASE AssignPromise \/ SweepNext \/ SettleTxn
  <2>0. \A r \in Slots : resolution[r] \in Resolution BY DEF IInv, TypeOK, TypeReserve
  <2>1. ASSUME AssignPromise PROVE \A q \in Slots : FP(q)' = FP(q)
    <3>1. PICK p, f : resolution' = [resolution EXCEPT ![call.res].promise = p,
                                                       ![call.res].flush = f]
      BY <2>1 DEF AssignPromise
    <3>2. call.pc = "promise" BY <2>1 DEF AssignPromise
    <3>3. call.res \in Slots BY <3>2, CallFacts
    <3> DEFINE e == [resolution[call.res] EXCEPT !.promise = p, !.flush = f]
    <3>4. resolution' = [resolution EXCEPT ![call.res] = e] BY <3>1
    <3>5. e.flagPosition = resolution[call.res].flagPosition BY <2>0, <3>3 DEF Resolution
    <3> HIDE DEF e
    <3> QED BY <3>3, <3>4, <3>5 DEF IInv, TypeOK, TypeReserve, FP
  <2>2. ASSUME SweepNext PROVE \A q \in Slots : FP(q)' = FP(q)
    <3> DEFINE u == unwrittenResolution
               e == [resolution[u] EXCEPT !.callbacks = 0, !.flag = word[FP(u)],
                                          !.released = LetGo(u)]
    <3>1. resolution' = [resolution EXCEPT ![u] = e] BY <2>2 DEF SweepNext, FP
    <3>2. u \in Slots BY DEF IInv, TypeOK, TypeSettle
    <3>3. e.flagPosition = resolution[u].flagPosition BY <2>0, <3>2 DEF Resolution
    <3> HIDE DEF e
    <3> QED BY <3>1, <3>2, <3>3 DEF IInv, TypeOK, TypeReserve, FP
  <2>3. ASSUME SettleTxn PROVE \A q \in Slots : FP(q)' = FP(q)
    <3> DEFINE outcome(r) == IF TXN_FAILED \in TxnStatus THEN "rejected"
               ELSE IF FAILED_CONDITION \in resolution[r].flag /\ Conditional(r) THEN "false"
               ELSE "true"
    <3>1. resolution' = [r \in Slots |->
            IF r \in uncommittedResolution..(txnResolution - 1) /\ resolution[r].promise = r
            THEN [resolution[r] EXCEPT !.settled = outcome(r)] ELSE resolution[r]]
      BY <2>3 DEF SettleTxn
    <3> HIDE DEF outcome
    <3> TAKE r \in Slots
    <3>2. resolution'[r] = [resolution[r] EXCEPT !.settled = outcome(r)] \/ resolution'[r] = resolution[r]
      BY <3>1
    <3> QED BY <2>0, <3>2 DEF Resolution, FP
  <2>4. UNCHANGED <<reserveVars, batchVars, txnOf, result, log>>
    BY <1>3 DEF AssignPromise, SweepNext, SettleTxn, historyVars
  <2> QED BY <1>3, <2>1, <2>2, <2>3, <2>4
<1>4. ASSUME NEW w \in DOMAIN worker, CommitProgress(w) \/ CallbackProgress(w) \/ Complete(w)
      PROVE  /\ UNCHANGED <<reserveVars, batchVars, txnOf, result, log>>
             /\ \A q \in Slots : FP(q)' = FP(q)
  <2>1. PICK status : Callback(w, status)
    BY <1>4 DEF CommitProgress, CallbackProgress, Complete
  <2>2. /\ QueueCommitResolution(nextResolution) \/ UNCHANGED <<resolution, txnResolution>>
        /\ UNCHANGED <<reserveVars, batchVars, txnOf, result, log>>
    BY <2>1 DEF Callback, historyVars
  <2>3. nextResolution \in Slots BY DEF IInv, TypeOK, TypeReserve
  <2> QED BY <2>2, <2>3, QueueCommit DEF ResolutionsKept, FP
<1> QED BY <1>1, <1>2, <1>3, <1>4 DEF CallStep

\* The steps of the running function.
LEMMA CallBlocks ==
    ASSUME IInv, BlocksInv, IInv', CallStep
    PROVE  BlocksInv'
<1>1. CASE PublishAtomic \/ NotePlainWrite
  <2>1. PICK seen : NoteWrite(call.res, seen) BY <1>1 DEF PublishAtomic, NotePlainWrite
  <2>2. call.pc \in {"publish", "note"} BY <1>1 DEF PublishAtomic, NotePlainWrite
  <2> QED BY <2>1, <2>2, NoteBlocks
<1>2. CASE UNCHANGED worker
  <2>1. \A w \in ActiveWorkers' : w \in ActiveWorkers /\ worker'[w].validated = worker[w].validated
    BY <1>2 DEF ActiveWorkers
  <2> QED BY <2>1, JsPlaces, StaticStep
<1>3. ~(PublishAtomic \/ NotePlainWrite) => UNCHANGED worker
  BY DEF CallStep, PublishLoad, PublishStore, AssignPromise, SweepNext, SweepEnd, SettleTxn, SettleEnd,
         EndCallback
<1> QED BY <1>1, <1>2, <1>3

\* The queued task that starts a worker, and the callbacks of workers.
LEMMA TaskBlocks ==
    ASSUME IInv, BlocksInv, IInv',
           \/ RunEnqueuedCommit
           \/ \E w \in DOMAIN worker : CommitProgress(w) \/ CallbackProgress(w) \/ Complete(w)
    PROVE  BlocksInv'
<1>1. CASE RunEnqueuedCommit
  <2>1. worker' = Append(worker, NewWorker(startAddress, flushResolvers))
    BY <1>1 DEF RunEnqueuedCommit, StartWriting
  <2>2. \A w \in ActiveWorkers' :
         \/ w \in ActiveWorkers /\ worker'[w].validated = worker[w].validated
         \/ worker'[w].validated = 0 /\ Len(OpenAt(Frontier)) = 0
    BY <1>1, <2>1, JsPlaces, NewWorkerOutside
  <2> QED BY <1>1, <2>2, JsPlaces, StaticStep
<1>2. ASSUME NEW w \in DOMAIN worker, CommitProgress(w) \/ CallbackProgress(w) \/ Complete(w)
      PROVE  BlocksInv'
  <2>1. worker[w] \in Worker BY WorkerTypes DEF IInv
  <2>5. PICK e : /\ worker' = [worker EXCEPT ![w] = e] /\ e.validated = worker[w].validated
                 /\ e.pc = worker[w].pc \/ e.pc = "gone"
    <3>1. CASE CommitProgress(w)
      <4> DEFINE f == [worker[w] EXCEPT !.progress = FALSE]
      <4>1. worker' = [worker EXCEPT ![w] = f] BY <3>1 DEF CommitProgress
      <4>2. f.validated = worker[w].validated /\ f.pc = worker[w].pc BY <2>1 DEF Worker
      <4> HIDE DEF f
      <4> QED BY <4>1, <4>2
    <3>2. CASE CallbackProgress(w)
      <4> DEFINE f == [worker[w] EXCEPT !.finishedProgress = TRUE]
      <4>1. worker' = [worker EXCEPT ![w] = f] BY <3>2 DEF CallbackProgress
      <4>2. f.validated = worker[w].validated /\ f.pc = worker[w].pc BY <2>1 DEF Worker
      <4> HIDE DEF f
      <4> QED BY <4>1, <4>2
    <3>3. CASE Complete(w)
      <4> DEFINE f == [worker[w] EXCEPT !.pc = "gone", !.progress = FALSE]
      <4>1. worker' = [worker EXCEPT ![w] = f] BY <3>3 DEF Complete
      <4>2. f.validated = worker[w].validated /\ f.pc = "gone" BY <2>1 DEF Worker
      <4> HIDE DEF f
      <4> QED BY <4>1, <4>2
    <3> QED BY <1>2, <3>1, <3>2, <3>3
  <2>6. /\ DOMAIN worker' = DOMAIN worker /\ worker'[w] = e
        /\ \A v \in DOMAIN worker : v # w => worker'[v] = worker[v]
    BY <2>5
  <2>7. \A v \in ActiveWorkers' : v \in ActiveWorkers /\ worker'[v].validated = worker[v].validated
    BY <2>5, <2>6 DEF ActiveWorkers
  <2> QED BY <1>2, <2>7, JsPlaces, StaticStep
<1> QED BY <1>1, <1>2
-----------------------------------------------------------------------------
(* Steps that reserve slots. *)

\* What was reserved stays as it was.
Grows ==
    /\ position < position'
    /\ \A s \in 1..MaxSlots : s < position => instr'[s] = instr[s]
    /\ \A r \in Reserved : r \in Reserved' /\ FP(r)' = FP(r)
    /\ \A s \in 1..position : OpenAt(s)' = OpenAt(s)

\* One slot of this kind is reserved, or two of which the first starts a block.
Reserves(kind) ==
    /\ Grows /\ position' \in {position + 1, position + 2}
    /\ \A s \in position..(position' - 1) : instr'[s].kind \in {kind, "START"}

\* Old slots keep their shape and what is around them.
LEMMA OldSlots ==
    ASSUME IInv, BlocksInv, Grows
    PROVE  /\ \A s \in 1..(position - 1) : ShapeAt(s)'
           /\ \A s \in 1..position : InsideAt(s)'
<1>1. position \in Slots BY FrontierTypes
<1>2. ASSUME NEW s \in 1..(position - 1) PROVE ShapeAt(s)'
  <2>1. s \in 1..position /\ s + 1 \in 1..position /\ s \in 1..MaxSlots /\ s < position
    BY <1>1, BoundsAssumption DEF Slots
  <2>2. /\ OpenAt(s)' = OpenAt(s) /\ OpenAt(s + 1)' = OpenAt(s + 1) /\ instr'[s] = instr[s]
        /\ \A r \in Reserved : r \in Reserved' /\ FP(r)' = FP(r)
    BY <2>1 DEF Grows
  <2>3. ShapeAt(s) BY <1>2 DEF BlocksInv, ShapeInv
  <2>4. CASE instr[s].kind \in {"START", "COND"}
    <3>1. PICK r \in Reserved : FP(r) = s /\ OpenAt(s + 1) = Append(OpenAt(s), r)
      BY <2>3, <2>4 DEF ShapeAt
    <3>2. r \in Reserved' /\ FP(r)' = s /\ OpenAt(s + 1)' = Append(OpenAt(s)', r)
      BY <2>2, <3>1
    <3> QED BY <2>2, <2>4, <3>2 DEF ShapeAt
  <2>5. CASE instr[s].kind \notin {"START", "COND"}
    BY <2>2, <2>3, <2>5 DEF ShapeAt
  <2> QED BY <2>4, <2>5
<1>3. ASSUME NEW s \in 1..position PROVE InsideAt(s)'
  <2>1. OpenAt(s)' = OpenAt(s) /\ \A r \in Reserved : r \in Reserved' /\ FP(r)' = FP(r)
    BY DEF Grows
  <2>2. InsideAt(s) BY DEF BlocksInv, InsideInv
  <2> QED BY <2>1, <2>2 DEF InsideAt
<1> QED BY <1>2, <1>3

\* A reservation that grows the slots keeps the rest.
LEMMA GrowStep ==
    ASSUME IInv, BlocksInv, IInv', Grows, ShapeInv', InsideInv',
           UNCHANGED <<worker, txnOf, result, log>>
    PROVE  BlocksInv'
<1>1. \A w \in ActiveWorkers' : w \in ActiveWorkers /\ worker'[w].validated = worker[w].validated
  BY DEF ActiveWorkers
<1>2. DoneInv' /\ BlockAtomic' /\ ConditionsNest' /\ ActiveInv'
  BY <1>1, KeepBlocks DEF Grows
<1> QED BY <1>2 DEF BlocksInv

\* A block end.
LEMMA FinishBlocks ==
    ASSUME IInv, BlocksInv, IInv', NEW depth \in Nat, Len(blocks) > 0, FinishBatch(depth),
           UNCHANGED <<settleVars, startVars, worker, historyVars>>
    PROVE  BlocksInv' /\ Reserves("END")
<1>1. PICK p \in Slots : p = position
  BY FrontierTypes
<1>2. /\ instr' = [instr EXCEPT ![p] = [kind |-> "END", depth |-> depth, within |-> blocks]]
      /\ position' = p + 1 /\ nextResolution' = nextResolution
      /\ blocks' = SubSeq(blocks, 1, Len(blocks) - 1)
      /\ \A q \in Reserved : FP(q)' = FP(q)
      /\ UNCHANGED <<worker, txnOf, result, log>>
  BY <1>1, FinishBatchInv DEF FinishBatch, historyVars
<1>3. blocks \in Seq(Slots) /\ Len(blocks) \in Nat /\ p \in Nat /\ instr \in [1..MaxSlots -> Instruction]
  BY <1>1, BoundsAssumption DEF IInv, TypeOK, TypeBatch, TypeReserve, Slots
<1>4. p \in 1..MaxSlots /\ p \in 1..position
  BY <1>1, <1>3, BoundsAssumption DEF IInv, BatchInv, Slots
<1>5. /\ instr'[p].kind = "END" /\ instr'[p].within = blocks
      /\ \A s \in 1..MaxSlots : s # p => instr'[s] = instr[s]
  BY <1>2, <1>3, <1>4
<1>6. Reserved' = Reserved BY <1>2 DEF Reserved
<1>7. /\ \A s \in 1..position : OpenAt(s)' = OpenAt(s)
      /\ OpenAt(p) = blocks /\ OpenAt(p + 1)' = blocks'
  BY <1>1, <1>2, <1>3, <1>4, <1>5 DEF OpenAt
<1>8. Grows
  BY <1>1, <1>2, <1>3, <1>5, <1>6, <1>7 DEF Grows
<1>9. Len(blocks') = Len(blocks) - 1 /\ \A i \in 1..Len(blocks') : blocks'[i] = blocks[i]
  BY <1>2, <1>3, SeqFront
<1>10. ShapeInv'
  <2>1. ShapeAt(p)' BY <1>1, <1>2, <1>3, <1>4, <1>5, <1>7 DEF ShapeAt
  <2>2. \A s \in 1..(position' - 1) : s = p \/ s \in 1..(position - 1)
    BY <1>1, <1>2, <1>3
  <2>3. \A s \in 1..(position - 1) : ShapeAt(s)' BY <1>8, OldSlots
  <2> QED BY <2>1, <2>2, <2>3 DEF ShapeInv
<1>11. InsideInv'
  <2>1. InsideAt(p + 1)'
    <3> SUFFICES ASSUME NEW i \in 1..Len(blocks')
                 PROVE  blocks'[i] \in Reserved' /\ resolution'[blocks'[i]].flagPosition < p + 1
      BY <1>7 DEF InsideAt, FP
    <3>1. i \in 1..Len(OpenAt(p)) /\ blocks'[i] = OpenAt(p)[i] BY <1>3, <1>7, <1>9
    <3>2. InsideAt(p) BY <1>4 DEF BlocksInv, InsideInv
    <3>3. blocks'[i] \in Reserved /\ FP(blocks'[i]) < p BY <3>1, <3>2 DEF InsideAt
    <3>4. FP(blocks'[i]) \in 1..(position - 1) BY <3>3 DEF IInv, ResolutionInv
    <3>5. PICK b : b = blocks'[i] OBVIOUS
    <3>6. FP(b)' = FP(b) BY <1>2, <3>3, <3>5
    <3>7. resolution'[blocks'[i]].flagPosition < p + 1
      BY <1>3, <3>3, <3>4, <3>5, <3>6 DEF FP
    <3> QED BY <1>6, <3>3, <3>7
  <2>2. \A s \in 1..(p + 1) : s = p + 1 \/ s \in 1..position
    BY <1>1, <1>3
  <2> QED BY <1>2, <1>8, <2>1, <2>2, OldSlots DEF InsideInv
<1>12. Reserves("END")
  <2>1. PICK e \in Nat : e = position' /\ e = p + 1 BY <1>2, <1>3
  <2>2. \A s \in p..(e - 1) : s = p BY <1>3, <2>1
  <2>3. \A s \in p..(e - 1) : instr'[s].kind \in {"END", "START"} BY <1>5, <2>2
  <2> QED BY <1>1, <1>8, <2>1, <2>3 DEF Reserves
<1> QED BY <1>2, <1>8, <1>10, <1>11, <1>12, GrowStep

\* An instruction, and the START of the event turn before it.
LEMMA ReserveBlocks ==
    ASSUME IInv, BlocksInv, IInv', NEW kind \in Kinds \ {"END"}, NEW opened \in {0, 1},
           WriteInstructions(kind, opened), opened = IF kind \in {"START", "COND"} THEN 1 ELSE 0,
           blocks' = (IF opened = 0 THEN Enclosing ELSE Append(Enclosing, InstrRes))
    PROVE  BlocksInv' /\ Reserves(kind)
<1>1. /\ InstrSlot + Len(Enclosing) + opened <= MaxSlots /\ opened \in Nat /\ kind \in Kinds
      /\ UNCHANGED <<worker, txnOf, result, log>>
  BY DEF WriteInstructions, historyVars
<1>2. PICK p \in Slots, n \in Slots, k \in 1..MaxSlots, m \in 1..MaxSlots, enc \in Seq(Slots) :
        /\ p = position /\ n = nextResolution /\ k = InstrSlot /\ m = InstrRes /\ enc = Enclosing
        /\ \/ OpensTurn /\ k = p + 1 /\ m = n + 1 /\ Len(blocks) = 0 /\ enc = <<n>>
           \/ ~OpensTurn /\ k = p /\ m = n /\ enc = blocks
  BY <1>1, ReservedPlace
<1>3. /\ position' = k + 1 /\ nextResolution' = m + 1
      /\ \A s \in 1..MaxSlots : s < p => instr'[s] = instr[s]
      /\ OpensTurn => instr'[p].kind = "START" /\ instr'[p].within = <<>>
      /\ instr'[k].kind = kind /\ instr'[k].within = enc
      /\ \A q \in Slots : q < n => resolution'[q] = resolution[q]
      /\ FP(n)' = p /\ FP(m)' = k
  <2>1. /\ position' = InstrSlot + 1 /\ nextResolution' = InstrRes + 1
        /\ \A s \in 1..MaxSlots : s < position => instr'[s] = instr[s]
        /\ OpensTurn => instr'[position].kind = "START" /\ instr'[position].within = <<>>
        /\ instr'[InstrSlot].kind = kind /\ instr'[InstrSlot].within = Enclosing
        /\ \A q \in Slots : q < nextResolution => resolution'[q] = resolution[q]
        /\ resolution'[nextResolution].flagPosition = position
        /\ resolution'[InstrRes].flagPosition = InstrSlot
    BY <1>1, ReservedRecords
  <2> QED BY <1>2, <2>1 DEF FP
<1>4. /\ p \in Nat /\ n \in Nat /\ k \in Nat /\ m \in Nat /\ p >= 1 /\ n >= 1 /\ p <= k /\ n <= m
      /\ p \in 1..MaxSlots /\ p \in 1..position /\ blocks \in Seq(Slots)
      /\ m \in Slots /\ Len(enc) \in Nat
  BY <1>2, BoundsAssumption DEF Slots, IInv, TypeOK, TypeBatch
<1>5. /\ \A r \in Reserved : r \in Reserved' /\ FP(r)' = FP(r)
      /\ n \in Reserved' /\ m \in Reserved'
  <2>1. n \in 1..(m + 1 - 1) /\ m \in 1..(m + 1 - 1) BY <1>4
  <2>2. \A r \in 1..(n - 1) : r \in 1..(m + 1 - 1) /\ r \in Slots /\ r < n
    BY <1>2, <1>4, BoundsAssumption DEF Slots
  <2> QED BY <1>2, <1>3, <2>1, <2>2 DEF Reserved, FP
<1>6. /\ \A s \in 1..(p - 1) : OpenAt(s)' = OpenAt(s)
      /\ OpenAt(k)' = enc /\ OpenAt(k + 1)' = blocks'
      /\ OpenAt(p) = blocks
      /\ OpensTurn => OpenAt(p)' = <<>>
  <2>1. \A s \in 1..(p - 1) : s < p /\ s < k + 1 /\ s \in 1..MaxSlots
    BY <1>4, BoundsAssumption
  <2>2. k < k + 1 /\ ~(k + 1 < k + 1) /\ p < k + 1 /\ ~(p < p)
    BY <1>4
  <2> QED BY <1>2, <1>3, <2>1, <2>2 DEF OpenAt
<1>7. OpenAt(p)' = blocks
  <2>1. CASE OpensTurn
    <3>1. Len(blocks) = 0 BY <1>2, <2>1
    <3>2. blocks = <<>> BY <1>4, <3>1
    <3> QED BY <1>6, <2>1, <3>2
  <2>2. CASE ~OpensTurn BY <1>2, <1>6, <2>2
  <2> QED BY <2>1, <2>2
<1>8. Grows
  <2>1. \A s \in 1..p : s = p \/ s \in 1..(p - 1) BY <1>4
  <2>2. \A s \in 1..position : OpenAt(s)' = OpenAt(s) BY <1>2, <1>6, <1>7, <2>1
  <2>3. position < position' BY <1>2, <1>3, <1>4
  <2> QED BY <1>2, <1>3, <1>5, <2>2, <2>3 DEF Grows
<1>9. \A s \in 1..k : s = k \/ (OpensTurn /\ s = p) \/ s \in 1..(p - 1)
  <2>1. CASE OpensTurn
    <3>1. k = p + 1 BY <1>2, <2>1
    <3>2. \A s \in 1..k : s = k \/ s = p \/ s \in 1..(p - 1) BY <1>4, <3>1
    <3> QED BY <2>1, <3>2
  <2>2. CASE ~OpensTurn
    <3>1. k = p BY <1>2, <2>2
    <3> QED BY <1>4, <3>1
  <2> QED BY <2>1, <2>2
<1>10. ShapeAt(k)'
  <2>1. CASE opened = 1
    <3>1. kind \in {"START", "COND"} /\ blocks' = Append(enc, m) BY <1>2, <2>1
    <3>2. m \in Reserved' /\ FP(m)' = k /\ OpenAt(k + 1)' = Append(OpenAt(k)', m)
      BY <1>3, <1>5, <1>6, <3>1
    <3> QED BY <1>3, <3>1, <3>2 DEF ShapeAt
  <2>2. CASE opened = 0
    <3>1. kind \notin {"START", "COND", "END"} /\ blocks' = enc BY <1>2, <2>2
    <3> QED BY <1>3, <1>6, <3>1 DEF ShapeAt
  <2> QED BY <2>1, <2>2
<1>11. ShapeInv'
  <2>1. ASSUME OpensTurn PROVE ShapeAt(p)'
    <3>1. k = p + 1 /\ enc = <<n>> BY <1>2, <2>1
    <3>2. OpenAt(p)' = <<>> /\ OpenAt(p + 1)' = <<n>> BY <1>6, <2>1, <3>1
    <3>3. <<n>> = Append(<<>>, n) OBVIOUS
    <3>4. n \in Reserved' /\ FP(n)' = p /\ OpenAt(p + 1)' = Append(OpenAt(p)', n)
      BY <1>3, <1>5, <3>2, <3>3
    <3> QED BY <1>3, <2>1, <3>4 DEF ShapeAt
  <2>2. \A s \in 1..(p - 1) : ShapeAt(s)' BY <1>2, <1>8, OldSlots
  <2>3. \A s \in 1..(position' - 1) : s \in 1..k BY <1>3, <1>4
  <2> QED BY <1>9, <1>10, <2>1, <2>2, <2>3 DEF ShapeInv
<1>12. \A i \in 1..Len(enc) : enc[i] \in Reserved' /\ resolution'[enc[i]].flagPosition < k
  <2>1. CASE OpensTurn
    <3>1. enc = <<n>> /\ k = p + 1 BY <1>2, <2>1
    <3>2. \A i \in 1..Len(enc) : enc[i] = n BY <3>1
    <3>3. resolution'[n].flagPosition < k BY <1>3, <1>4, <3>1 DEF FP
    <3> QED BY <1>5, <3>2, <3>3
  <2>2. CASE ~OpensTurn
    <3>1. enc = OpenAt(p) /\ k = p BY <1>2, <1>6, <2>2
    <3>2. InsideAt(p) BY <1>4 DEF BlocksInv, InsideInv
    <3>3. \A i \in 1..Len(enc) : enc[i] \in Reserved /\ FP(enc[i]) < p BY <3>1, <3>2 DEF InsideAt
    <3>4. \A i \in 1..Len(enc) : resolution'[enc[i]].flagPosition = FP(enc[i])
      BY <1>5, <3>3 DEF FP
    <3> QED BY <1>5, <3>1, <3>3, <3>4
  <2> QED BY <2>1, <2>2
<1>13. InsideAt(k)'
  BY <1>6, <1>12 DEF InsideAt, FP
<1>14. InsideAt(k + 1)'
  <2>1. \A i \in 1..Len(blocks') : \/ i \in 1..Len(enc) /\ blocks'[i] = enc[i]
                                   \/ blocks'[i] = m
    <3>1. CASE opened = 0 BY <1>2, <3>1
    <3>2. CASE opened = 1
      <4>1. blocks' = Append(enc, m) BY <1>2, <3>2
      <4>2. /\ Len(blocks') = Len(enc) + 1 /\ blocks'[Len(enc) + 1] = m
            /\ \A i \in 1..Len(enc) : blocks'[i] = enc[i]
        <5>1. enc \in Seq(Slots) /\ m \in Slots BY <1>4
        <5>2. /\ Len(Append(enc, m)) = Len(enc) + 1 /\ Append(enc, m)[Len(enc) + 1] = m
              /\ \A i \in 1..Len(enc) : Append(enc, m)[i] = enc[i]
          BY <5>1, SeqAppend
        <5> QED BY <4>1, <5>2
      <4>3. \A i \in 1..(Len(enc) + 1) : i \in 1..Len(enc) \/ i = Len(enc) + 1 BY <1>4
      <4> QED BY <4>2, <4>3
    <3> QED BY <3>1, <3>2
  <2>2. resolution'[m].flagPosition < k + 1 BY <1>3, <1>4 DEF FP
  <2>3. \A i \in 1..Len(enc) : resolution'[enc[i]].flagPosition < k + 1
    <3> TAKE i \in 1..Len(enc)
    <3>1. resolution'[enc[i]].flagPosition < k /\ enc[i] \in Reserved' BY <1>12
    <3>2. resolution'[enc[i]].flagPosition \in 1..(position' - 1)
      BY <3>1 DEF IInv, ResolutionInv, FP
    <3> QED BY <1>3, <1>4, <3>1, <3>2
  <2>4. \A i \in 1..Len(blocks') : /\ blocks'[i] \in Reserved'
                                   /\ resolution'[blocks'[i]].flagPosition < k + 1
    BY <1>5, <1>12, <2>1, <2>2, <2>3
  <2> QED BY <1>6, <2>4 DEF InsideAt, FP
<1>15. InsideInv'
  <2>1. \A s \in 1..p : InsideAt(s)' BY <1>2, <1>8, OldSlots
  <2>2. \A s \in 1..(k + 1) : s = k + 1 \/ s = k \/ s \in 1..p BY <1>2, <1>4
  <2> QED BY <1>3, <1>13, <1>14, <2>1, <2>2 DEF InsideInv
<1>16. Reserves(kind)
  <2>1. \A s \in p..(k + 1 - 1) : s = k \/ (OpensTurn /\ s = p)
    <3> TAKE s \in p..(k + 1 - 1)
    <3>1. s \in 1..k /\ s \notin 1..(p - 1) BY <1>4
    <3> QED BY <1>9, <3>1
  <2>2. k + 1 = p + 1 \/ k + 1 = p + 2 BY <1>2, <1>4
  <2> QED BY <1>2, <1>3, <1>8, <2>1, <2>2 DEF Reserves
<1> QED BY <1>1, <1>8, <1>11, <1>15, <1>16, GrowStep

-----------------------------------------------------------------------------
(* The theorems. *)

\* Nothing is reserved and nobody works at first.
LEMMA InitBlocks == Init => BlocksInv
<1> SUFFICES ASSUME Init PROVE BlocksInv
  OBVIOUS
<1>1. /\ position = 1 /\ nextResolution = 1 /\ blocks = <<>> /\ worker = <<>> /\ log = <<>>
      /\ txnOf = [s \in 1..MaxSlots |-> 0]
  BY DEF Init
<1>2. ShapeInv BY <1>1 DEF ShapeInv
<1>3. InsideInv BY <1>1 DEF InsideInv, InsideAt, OpenAt
<1>4. DoneInv BY <1>1 DEF DoneInv
<1>5. BlockAtomic /\ ConditionsNest BY <1>1 DEF BlockAtomic, ConditionsNest
<1>6. ActiveInv BY <1>1 DEF ActiveInv, ActiveWorkers
<1> QED BY <1>2, <1>3, <1>4, <1>5, <1>6 DEF BlocksInv

\* Every reservation is one of the two.
LEMMA ReservationBlocks ==
    ASSUME IInv, BlocksInv, IInv'
    PROVE  /\ \A kind \in Operations : Write(kind) \/ IfVersion(kind) => BlocksInv' /\ Reserves(kind)
           /\ EndEventTurn \/ EndIfVersion => BlocksInv' /\ Reserves("END")
<1>1. ASSUME NEW kind \in Operations, Write(kind) PROVE BlocksInv' /\ Reserves(kind)
  <2>1. /\ kind \in {"WRITE", "REMOVE", "WRITEIF", "CALL"} /\ WriteInstructions(kind, 0)
        /\ blocks' = Enclosing
    BY <1>1 DEF Write
  <2>2. kind \in Kinds \ {"END"} /\ kind \notin {"START", "COND"} BY <2>1 DEF Kinds
  <2> QED BY <2>1, <2>2, ReserveBlocks
<1>2. ASSUME NEW kind \in Operations, IfVersion(kind) PROVE BlocksInv' /\ Reserves(kind)
  <2>1. /\ kind \in {"COND", "START"} /\ WriteInstructions(kind, 1)
        /\ blocks' = Append(Enclosing, InstrRes)
    BY <1>2 DEF IfVersion
  <2>2. kind \in Kinds \ {"END"} BY <2>1 DEF Kinds
  <2> QED BY <2>1, <2>2, ReserveBlocks
<1>3. ASSUME EndEventTurn \/ EndIfVersion PROVE BlocksInv' /\ Reserves("END")
  <2>1. /\ Len(blocks) \in Nat /\ Len(blocks) > 0 /\ batchDepth \in Nat
        /\ UNCHANGED <<settleVars, startVars, worker, historyVars>>
    BY <1>3 DEF EndEventTurn, EndIfVersion, InUserBlock, IInv, TypeOK, TypeBatch, BatchInv
  <2>2. PICK depth \in Nat : FinishBatch(depth)
    <3>1. CASE EndEventTurn
      BY <2>1, <3>1 DEF EndEventTurn, DepthAfterTurn, IInv, BatchInv
    <3>2. CASE EndIfVersion
      <4>1. batchDepth - 2 \in Nat
        BY <2>1, <3>2 DEF EndIfVersion, InUserBlock, IInv, BatchInv, TypeOK, TypeBatch
      <4> QED BY <2>1, <3>2, <4>1 DEF EndIfVersion
    <3> QED BY <1>3, <3>1, <3>2
  <2> QED BY <2>1, <2>2, FinishBlocks
<1> QED BY <1>1, <1>2, <1>3

\* Every step keeps what is known of the blocks.
LEMMA NextBlocks == IInv /\ BlocksInv /\ IInv' /\ [Next]_vars => BlocksInv'
<1> SUFFICES ASSUME IInv, BlocksInv, IInv', [Next]_vars PROVE BlocksInv'
  OBVIOUS
<1>1. ASSUME NEW kind \in Operations, Write(kind) \/ IfVersion(kind) PROVE BlocksInv'
  BY <1>1, ReservationBlocks
<1>3. CASE EndEventTurn \/ EndIfVersion
  BY <1>3, ReservationBlocks
<1>4. CASE CallStep
  BY <1>4, CallBlocks
<1>5. CASE RunEnqueuedCommit
  BY <1>5, TaskBlocks
<1>6. ASSUME NEW w \in DOMAIN worker,
             WorkerStep(w) \/ CommitProgress(w) \/ CallbackProgress(w) \/ Complete(w)
      PROVE  BlocksInv'
  BY <1>6, WorkerBlocks, TaskBlocks
<1>7. CASE UNCHANGED vars
  <2>1. UNCHANGED <<jsVars, worker, historyVars>> BY <1>7 DEF vars
  <2>2. /\ UNCHANGED <<txnOf, result, log, reserveVars, batchVars, worker>>
        /\ \A r \in Slots : FP(r)' = FP(r)
    BY <2>1 DEF jsVars, historyVars, FP
  <2>3. \A w \in ActiveWorkers' : w \in ActiveWorkers /\ worker'[w].validated = worker[w].validated
    BY <2>2 DEF ActiveWorkers
  <2> QED BY <2>2, <2>3, StaticStep
<1> QED BY <1>1, <1>3, <1>4, <1>5, <1>6, <1>7 DEF Next

(* What is known of the blocks always holds: an instruction opens or ends    *)
(* the block it says, and the worker that may go on has run the start of     *)
(* every open block.                                                         *)
THEOREM BlocksCorrect == Spec => []BlocksInv
<1>1. Init => BlocksInv BY InitBlocks
<1>2. IInv /\ BlocksInv /\ IInv' /\ [Next]_vars => BlocksInv' BY NextBlocks
<1> QED BY <1>1, <1>2, InvariantCorrect, PTL DEF Spec

(* A transaction never ends inside a block, whatever the interleaving of the *)
(* event turn with the worker: the instructions of an event turn, a batch or *)
(* an ifVersion block run in one transaction (write.js, DoWrites).           *)
THEOREM BlockAtomicCorrect == Spec => []BlockAtomic
<1>1. BlocksInv => BlockAtomic BY DEF BlocksInv
<1> QED BY <1>1, BlocksCorrect, PTL

(* The two counters of DoWrites, conditionDepth and validatedDepth, implement *)
(* nested conditions at any depth.                                           *)
THEOREM ConditionsNestCorrect == Spec => []ConditionsNest
<1>1. BlocksInv => ConditionsNest BY DEF BlocksInv
<1> QED BY <1>1, BlocksCorrect, PTL

-----------------------------------------------------------------------------
(* Cursors: the inductive invariant, relative to IInv of WriteQueueProofs. *)

\* The resolutions of reserved slots and the placeholder.
Places == 1..nextResolution
Is(r) == resolution[r].isTxn
NextTxn(r) == resolution[r].nextTxn

\* Resolutions follow one another as their slots do.
OrderInv == \A r, q \in Places : r < q => FP(r) < FP(q)

\* The workers execute what is published, and mark only what they have executed.
RunInv == \A s \in 1..Len(log) : OP \in word[s]
FinishInv == \A s \in Slots : FINISHED_OPERATION \in word[s] => s <= Len(log)
ExecutedInv == RunInv /\ FinishInv

\* Only a delimiter at which the execution stopped is linked, links lead ahead, and
\* so do the cursors.
LinkInv ==
    /\ \A r \in Slots : Is(r) => r \in Places /\ FP(r) <= Frontier /\ ~resolution[r].released
    /\ \A r \in Slots : NextTxn(r) # 0 => Is(NextTxn(r)) /\ r < NextTxn(r)
    /\ txnResolution # 0 => Is(txnResolution) /\ uncommittedResolution < txnResolution
    /\ uncommittedResolution # 0 => Is(uncommittedResolution)
    /\ Is(nextResolution) => Len(blocks) = 0

\* resolveWrites sweeps only what has been executed.
SweptInv ==
    /\ \A r \in 1..(unwrittenResolution - 1) : FP(r) <= Len(log)
    /\ \A r \in Slots : resolution[r].released => r < unwrittenResolution

\* While a closure runs, no delimiter after the one it publishes into is linked; the
\* closure that was interrupted to publish a deferred start is ahead of it.
Noting == call.res # 0 /\ call.pc \in {"note", "sweep", "settle", "promise"}
TurnInv ==
    /\ Len(blocks) > 0 /\ writeBatchStart # 0 /\ call.pc \in {"publish", "store"} =>
         writeBatchStart < call.res
    /\ caller.pc = "note" => call.res < caller.res
    /\ Noting => \A q \in Places : Is(q) => q <= call.res

\* Nothing is passed by before its promise was assigned.
AssignedInv == \A r \in 1..(uncommittedResolution - 1) : resolution[r].promise # NoPromise

CursorInv == OrderInv /\ ExecutedInv /\ LinkInv /\ SweptInv /\ TurnInv /\ AssignedInv

-----------------------------------------------------------------------------
(* Places, slots and the frontier. *)

\* The numbers the proofs below rely on.
LEMMA SlotTypes ==
    ASSUME IInv
    PROVE  /\ MaxSlots \in Nat /\ Len(log) \in Nat /\ Len(log) <= MaxSlots
           /\ Frontier = Len(log) + 1 /\ Frontier \in Slots /\ Frontier \in Nat
           /\ nextResolution \in Nat /\ nextResolution \in Slots
           /\ unwrittenResolution \in Nat /\ unwrittenResolution <= nextResolution
           /\ uncommittedResolution \in Nat /\ txnResolution \in Nat
           /\ call.res \in Nat /\ caller.res \in Nat /\ Len(blocks) \in Nat
           /\ \A s \in Slots : s \in Nat /\ 1 <= s /\ s <= MaxSlots + 1
           /\ \A s \in 1..Len(log) : s \in Slots
           /\ \A n \in Nat : n # 0 /\ n <= MaxSlots + 1 => n \in Slots
<1>1. MaxSlots \in Nat BY BoundsAssumption
<1>2. \A s : s \in Slots <=> s \in Nat /\ 1 <= s /\ s <= MaxSlots + 1
  BY <1>1 DEF Slots
<1>3. /\ nextResolution \in Slots /\ position \in Slots /\ unwrittenResolution \in Slots
      /\ unwrittenResolution <= nextResolution
      /\ uncommittedResolution \in Nat /\ txnResolution \in Nat
  BY <1>1 DEF IInv, TypeOK, TypeReserve, TypeSettle, ResolutionInv
<1>4. Len(log) \in Nat /\ Len(log) < position /\ Frontier = Len(log) + 1
  BY FrontierTypes
<1>5. call.res \in Nat /\ caller.res \in Nat /\ Len(blocks) \in Nat
  BY <1>1 DEF IInv, TypeOK, TypeCall, Call, TypeBatch
<1>6. position \in Nat /\ position <= MaxSlots + 1 BY <1>2, <1>3
<1>7. \A s \in 1..Len(log) : s \in Slots BY <1>1, <1>2, <1>4, <1>6
<1>8. Len(log) <= MaxSlots /\ Frontier \in Slots BY <1>1, <1>2, <1>4, <1>6
<1> QED BY <1>1, <1>2, <1>3, <1>4, <1>5, <1>7, <1>8, SMTT(30)

LEMMA PlaceTypes ==
    ASSUME IInv
    PROVE  /\ \A r : r \in Places <=> r \in Nat /\ 1 <= r /\ r <= nextResolution
           /\ \A r : r \in Reserved <=> r \in Nat /\ 1 <= r /\ r < nextResolution
           /\ \A r \in Places : r \in Slots /\ FP(r) \in Slots
           /\ \A r \in Slots : /\ resolution[r] \in Resolution /\ FP(r) \in Nat
                               /\ NextTxn(r) \in Nat /\ NextTxn(r) <= MaxSlots + 1
                               /\ Is(r) \in BOOLEAN
           /\ uncommittedResolution # 0 => uncommittedResolution \in Slots
           /\ txnResolution # 0 => txnResolution \in Slots
<1>1. /\ \A r : r \in Places <=> r \in Nat /\ 1 <= r /\ r <= nextResolution
      /\ \A r : r \in Reserved <=> r \in Nat /\ 1 <= r /\ r < nextResolution
  BY SlotTypes DEF Places, Reserved
<1>2. \A r \in Places : r \in Slots
  BY <1>1, SlotTypes
<1>3. \A r \in Slots : resolution[r] \in Resolution
  BY DEF IInv, TypeOK, TypeReserve
<1>4. \A r \in Slots : /\ FP(r) \in Nat /\ NextTxn(r) \in Nat /\ NextTxn(r) <= MaxSlots + 1
                      /\ Is(r) \in BOOLEAN
  <2> TAKE r \in Slots
  <2>1. resolution[r].flagPosition \in 0..(MaxSlots + 1) /\ resolution[r].nextTxn \in 0..(MaxSlots + 1)
    BY <1>3 DEF Resolution
  <2>2. resolution[r].isTxn \in BOOLEAN BY <1>3 DEF Resolution
  <2>3. FP(r) \in Nat /\ NextTxn(r) \in Nat /\ NextTxn(r) <= MaxSlots + 1
    BY <2>1, SlotTypes DEF FP, NextTxn
  <2> QED BY <2>2, <2>3 DEF Is
<1>5. \A r \in Places : FP(r) \in Slots
  <2>1. \A r \in Reserved : FP(r) \in 1..(position - 1) BY DEF IInv, ResolutionInv
  <2>2. FP(nextResolution) = position /\ position \in Slots
    BY DEF IInv, ResolutionInv, TypeOK, TypeReserve
  <2>3. \A r \in Reserved : FP(r) \in Slots BY <2>1, <2>2, SlotTypes
  <2>4. \A r \in Places : r \in Reserved \/ r = nextResolution BY <1>1, SlotTypes
  <2> QED BY <2>2, <2>3, <2>4
<1>6. /\ uncommittedResolution \in 0..(MaxSlots + 1) /\ txnResolution \in 0..(MaxSlots + 1)
  BY DEF IInv, TypeOK, TypeSettle
<1>7. /\ uncommittedResolution # 0 => uncommittedResolution \in Slots
      /\ txnResolution # 0 => txnResolution \in Slots
  BY <1>6, SlotTypes
<1> QED BY <1>1, <1>2, <1>3, <1>4, <1>5, <1>7

\* Everything before a place at which the execution stopped has been published.
LEMMA BeforePublished ==
    ASSUME IInv, OrderInv, ExecutedInv, NEW t \in Places, FP(t) <= Frontier, NEW r \in Places, r < t
    PROVE  r \in Reserved /\ FP(r) \in 1..Len(log) /\ Published(r)
<1>1. FP(r) < FP(t) BY DEF OrderInv
<1>2. FP(r) \in 1..Len(log) BY <1>1, SlotTypes, PlaceTypes, SMTT(30)
<1>3. r \in Reserved
  <2>1. /\ r \in Nat /\ 1 <= r /\ t \in Nat /\ t <= nextResolution /\ nextResolution \in Nat
    BY PlaceTypes, SlotTypes
  <2>2. r < nextResolution BY <2>1
  <2> QED BY <2>1, <2>2, PlaceTypes
<1> QED BY <1>2, <1>3 DEF ExecutedInv, RunInv, Published

\* No linked delimiter is ahead of what has not been published.
LEMMA LinkedBefore ==
    ASSUME IInv, OrderInv, ExecutedInv, LinkInv, NEW r \in Places, OP \notin word[FP(r)]
    PROVE  FP(r) >= Frontier /\ \A q \in Places : Is(q) => q <= r
<1>1. ~(FP(r) \in 1..Len(log)) BY Zenon DEF ExecutedInv, RunInv
<1>2. FP(r) >= Frontier
  <2>1. FP(r) \in Nat /\ FP(r) >= 1 BY SlotTypes, PlaceTypes
  <2> QED BY <1>1, <2>1, SlotTypes
<1>3. ASSUME NEW q \in Places, Is(q) PROVE q <= r
  <2>1. FP(q) <= Frontier /\ FP(q) \in Nat /\ FP(r) \in Nat BY <1>3, PlaceTypes DEF LinkInv
  <2>2. ~(r < q) BY <1>2, <2>1, SlotTypes DEF OrderInv
  <2> QED BY <2>2, SlotTypes, PlaceTypes DEF Places
<1> QED BY <1>2, <1>3

-----------------------------------------------------------------------------
(* Steps that keep the list of resolutions. *)

\* The list and the cursors stay; the frontier may move on.
LEMMA KeepList ==
    ASSUME IInv, CursorInv, IInv', Len(log) <= Len(log'),
           UNCHANGED <<nextResolution, blocks, txnResolution, unwrittenResolution,
                       uncommittedResolution>>,
           \A r \in Slots : /\ FP(r)' = FP(r) /\ Is(r)' = Is(r) /\ NextTxn(r)' = NextTxn(r)
                            /\ resolution'[r].released = resolution[r].released
                            /\ resolution[r].promise # NoPromise => resolution'[r].promise # NoPromise
    PROVE  OrderInv' /\ LinkInv' /\ SweptInv' /\ AssignedInv'
<1>1. /\ Places' = Places /\ Frontier <= Frontier'
      /\ Len(log') \in Int
  <2>1. Len(log') \in Nat BY DEF IInv, TypeOK, TypeHistory
  <2> QED BY <2>1, SlotTypes, PlaceTypes DEF Places, Frontier
<1>2. OrderInv'
  BY <1>1, SlotTypes, PlaceTypes DEF CursorInv, OrderInv
<1>3. LinkInv'
  <2>1. \A r \in Slots : Is(r) => r \in Places /\ FP(r) <= Frontier' /\ ~resolution[r].released
    BY <1>1, SlotTypes, PlaceTypes, SMTT(30) DEF CursorInv, LinkInv, Frontier
  <2>2. \A r \in Slots : NextTxn(r) # 0 => NextTxn(r) \in Slots /\ Is(NextTxn(r)) /\ r < NextTxn(r)
    BY SlotTypes, PlaceTypes DEF CursorInv, LinkInv
  <2>3. /\ txnResolution # 0 => /\ txnResolution \in Slots /\ Is(txnResolution)
                                /\ uncommittedResolution < txnResolution
        /\ uncommittedResolution # 0 => uncommittedResolution \in Slots /\ Is(uncommittedResolution)
        /\ Is(nextResolution) => Len(blocks) = 0
    BY SlotTypes, PlaceTypes DEF CursorInv, LinkInv
  <2>4. \A r \in Slots : Is(r)' => r \in Places' /\ FP(r)' <= Frontier' /\ ~resolution'[r].released
    BY <1>1, <2>1
  <2>5. \A r \in Slots : NextTxn(r)' # 0 => Is(NextTxn(r))' /\ r < NextTxn(r)'
    BY <2>2 DEF Is
  <2>6. /\ txnResolution' # 0 => Is(txnResolution)' /\ uncommittedResolution' < txnResolution'
        /\ uncommittedResolution' # 0 => Is(uncommittedResolution)'
        /\ Is(nextResolution)' => Len(blocks') = 0
    BY <2>3, SlotTypes DEF Is
  <2> QED BY <2>4, <2>5, <2>6 DEF LinkInv
<1>4. SweptInv'
  <2>1. \A r \in 1..(unwrittenResolution - 1) : r \in Places
    BY SlotTypes DEF Places
  <2>2. \A r \in 1..(unwrittenResolution - 1) : r \in Slots /\ FP(r) <= Len(log) /\ FP(r) \in Nat
    BY <2>1, SlotTypes, PlaceTypes DEF CursorInv, SweptInv
  <2>3. \A r \in 1..(unwrittenResolution - 1) : FP(r)' <= Len(log')
    BY <1>1, <2>2, SlotTypes
  <2> QED BY <2>3 DEF CursorInv, SweptInv
<1>5. AssignedInv'
  BY SlotTypes, PlaceTypes, SMTT(30) DEF CursorInv, AssignedInv
<1> QED BY <1>2, <1>3, <1>4, <1>5

\* What a step may do to the words.
LEMMA KeepExecuted ==
    ASSUME IInv, ExecutedInv, IInv', log' = log \/ (log' = Append(log, Frontier) /\ OP \in word[Frontier]),
           \A s \in Slots : /\ OP \in word[s] => OP \in word'[s]
                            /\ FINISHED_OPERATION \in word'[s] =>
                                 FINISHED_OPERATION \in word[s] \/ s <= Len(log')
    PROVE  ExecutedInv'
<1>1. Len(log') \in Nat /\ (Len(log') = Len(log) \/ (Len(log') = Len(log) + 1 /\ OP \in word[Frontier]))
  <2>1. log \in Seq(Slots) BY DEF IInv, TypeOK, TypeHistory
  <2> QED BY <2>1, SlotTypes
<1>2. \A s \in 1..Len(log') : s \in Slots /\ OP \in word[s]
  <2> TAKE s \in 1..Len(log')
  <2>1. s \in 1..Len(log) \/ s = Frontier BY <1>1, SlotTypes
  <2>2. s \in Slots BY <2>1, SlotTypes
  <2> QED BY <1>1, <2>1, <2>2, SlotTypes DEF ExecutedInv, RunInv
<1>3. \A s \in 1..Len(log') : OP \in word'[s] BY <1>2
<1>4. ASSUME NEW s \in Slots, FINISHED_OPERATION \in word'[s] PROVE s <= Len(log')
  <2>1. ASSUME s <= Len(log) PROVE s <= Len(log') BY <1>1, <2>1, SlotTypes
  <2> QED BY <1>4, <2>1, Zenon DEF ExecutedInv, FinishInv
<1>5. RunInv' BY <1>3 DEF RunInv
<1>6. FinishInv' BY <1>4 DEF FinishInv
<1> QED BY <1>5, <1>6 DEF ExecutedInv

-----------------------------------------------------------------------------
(* Steps of the workers. *)

\* What the steps of a worker leave as it is in its record.
SameEnd(e, d) ==
    /\ e.instructions = d.instructions /\ e.outcome = d.outcome /\ e.durable = d.durable
    /\ e.resolvers = d.resolvers
Flags(ok) == {FINISHED_OPERATION} \cup IF ok THEN {} ELSE {FAILED_CONDITION}

\* The effect of executing the instruction at the frontier.
Runs(w, ok) ==
    /\ worker[w].pc = "run" /\ worker[w].pos = Frontier /\ OP \in word[Frontier]
    /\ UNCHANGED jsVars
    /\ log' = Append(log, Frontier) /\ txnOf' = [txnOf EXCEPT ![Frontier] = w]
    /\ DOMAIN worker' = DOMAIN worker
    /\ \A v \in DOMAIN worker : v # w => worker'[v] = worker[v]
    /\ SameEnd(worker'[w], worker[w])
RunsMarked(w, ok) ==
    /\ instr[Frontier].kind # "END" /\ result' = [result EXCEPT ![Frontier] = ok]
    /\ \/ /\ word' = [word EXCEPT ![Frontier] = @ \cup Flags(ok)]
          /\ worker'[w].pc = "run"
       \/ /\ word' = word
          /\ worker'[w].pc = "store" /\ worker'[w].pos = Frontier
          /\ worker'[w].loaded = word[Frontier] \cup Flags(ok)
RunsEnd(w) ==
    instr[Frontier].kind = "END" /\ word' = word /\ result' = result /\ worker'[w].pc = "run"

\* An instruction that gets a mark.
LEMMA ExecutedEffect ==
    ASSUME IInv, NEW w \in DOMAIN worker, NEW ok \in BOOLEAN, NEW f \in Worker,
           worker[w].pc = "run", OP \in word[worker[w].pos], instr[worker[w].pos].kind # "END",
           f.pc = "run", f.pos = worker[w].pos, SameEnd(f, worker[w]),
           Executed(w, ok, [worker EXCEPT ![w] = f])
    PROVE  Runs(w, ok) /\ RunsMarked(w, ok)
<1> DEFINE s == worker[w].pos
           mid == [worker EXCEPT ![w] = f]
           e == IF worker[w].overlappedWord THEN [f EXCEPT !.pos = s + 1, !.overlappedWord = FALSE]
                ELSE [f EXCEPT !.pc = "store", !.loaded = word[s] \cup Flags(ok)]
<1>1. s = Frontier /\ DOMAIN worker = 1..Len(worker)
  BY RunningWorker DEF Frontier, IInv, TypeOK, TypeWorker
<1>2. /\ DOMAIN mid = DOMAIN worker /\ mid[w] = f
      /\ \A v \in DOMAIN worker : v # w => mid[v] = worker[v]
  OBVIOUS
<1>3. worker' = IF worker[w].overlappedWord
                THEN [mid EXCEPT ![w].pos = s + 1, ![w].overlappedWord = FALSE]
                ELSE [mid EXCEPT ![w].pc = "store", ![w].loaded = word[s] \cup Flags(ok)]
  BY DEF Executed, Flags
<1> HIDE DEF mid
<1>4. worker' = [mid EXCEPT ![w] = e]
  BY <1>2, <1>3
<1>5. /\ SameEnd(e, f)
      /\ worker[w].overlappedWord => e.pc = "run"
      /\ ~worker[w].overlappedWord =>
           e.pc = "store" /\ e.pos = s /\ e.loaded = word[s] \cup Flags(ok)
  BY DEF SameEnd, Worker
<1> HIDE DEF e
<1>6. /\ DOMAIN worker' = DOMAIN worker /\ worker'[w] = e
      /\ \A v \in DOMAIN worker : v # w => worker'[v] = worker[v]
  BY <1>2, <1>4
<1>7. /\ word' = IF worker[w].overlappedWord THEN [word EXCEPT ![s] = @ \cup Flags(ok)] ELSE word
      /\ txnOf' = [txnOf EXCEPT ![s] = w] /\ result' = [result EXCEPT ![s] = ok]
      /\ log' = Append(log, s) /\ UNCHANGED jsVars
  BY DEF Executed, Flags
<1>8. SameEnd(worker'[w], worker[w]) BY <1>5, <1>6 DEF SameEnd
<1>9. Runs(w, ok) BY <1>1, <1>6, <1>7, <1>8 DEF Runs
<1>10. RunsMarked(w, ok)
  <2>1. CASE worker[w].overlappedWord BY <1>1, <1>5, <1>6, <1>7, <2>1 DEF RunsMarked
  <2>2. CASE ~worker[w].overlappedWord BY <1>1, <1>5, <1>6, <1>7, <2>2 DEF RunsMarked
  <2> QED BY <2>1, <2>2
<1> QED BY <1>9, <1>10

\* Put, removal, block start, user callback and block end.
LEMMA ExecuteEffect ==
    ASSUME IInv, NEW w \in DOMAIN worker,
           ExecuteWrite(w) \/ ExecuteStart(w) \/ ExecuteCall(w) \/ ExecuteEnd(w)
    PROVE  \E ok \in BOOLEAN : Runs(w, ok) /\ (RunsMarked(w, ok) \/ RunsEnd(w))
<1> DEFINE s == worker[w].pos
<1>1. /\ worker[w].pc = "run" /\ OP \in word[s] /\ worker[w] \in Worker /\ s = Frontier
      /\ DOMAIN worker = 1..Len(worker)
  <2>1. worker[w].pc = "run" /\ OP \in word[s]
    BY DEF ExecuteWrite, ExecuteStart, ExecuteCall, ExecuteEnd, Executes, Running, Fetched
  <2> QED BY <2>1, RunningWorker, SMTT(30) DEF Frontier, IInv, TypeOK, TypeWorker
<1>2. ASSUME NEW ok \in BOOLEAN, NEW f \in Worker, f.pc = "run", f.pos = s, SameEnd(f, worker[w]),
             Executed(w, ok, [worker EXCEPT ![w] = f]), instr[s].kind # "END"
      PROVE  \E b \in BOOLEAN : Runs(w, b) /\ RunsMarked(w, b)
  BY <1>1, <1>2, ExecutedEffect
<1>3. CASE ExecuteWrite(w)
  <2>1. PICK ok \in BOOLEAN, f \in Worker :
          WroteBy(w, f) /\ Executed(w, ok, [worker EXCEPT ![w] = f])
    BY <1>3, WriteRecord DEF IInv
  <2>2. instr[s].kind # "END" BY <1>3 DEF ExecuteWrite, Executes
  <2>3. f.pc = "run" /\ f.pos = s /\ SameEnd(f, worker[w]) BY <1>1, <2>1 DEF WroteBy, SameEnd
  <2> QED BY <1>1, <1>2, <2>1, <2>2, <2>3
<1>4. CASE ExecuteStart(w)
  <2>1. PICK met \in BOOLEAN :
          Executed(w, Validated(w) /\ met,
                   [worker EXCEPT ![w].depth = @ + 1,
                                  ![w].validated = IF Validated(w) /\ met THEN @ + 1 ELSE @])
    BY <1>4 DEF ExecuteStart
  <2>2. instr[s].kind # "END" BY <1>4 DEF ExecuteStart, Executes
  <2>3. PICK ok \in BOOLEAN : ok = (Validated(w) /\ met) OBVIOUS
  <2> DEFINE v == IF ok THEN worker[w].validated + 1 ELSE worker[w].validated
             f == [worker[w] EXCEPT !.depth = worker[w].depth + 1, !.validated = v]
  <2>4. Executed(w, ok, [worker EXCEPT ![w] = f]) BY <2>1, <2>3
  <2>5. v \in Int /\ worker[w].depth + 1 \in Int BY <1>1 DEF Worker
  <2> HIDE DEF v
  <2>6. f \in Worker /\ f.pc = "run" /\ f.pos = s /\ SameEnd(f, worker[w])
    <3>1. PICK x \in Worker, d \in Int, u \in Int :
            x = worker[w] /\ d = worker[w].depth + 1 /\ u = v
      BY <1>1, <2>5
    <3>2. f = [x EXCEPT !.depth = d, !.validated = u] BY <3>1
    <3> HIDE DEF f
    <3> QED BY <1>1, <3>1, <3>2 DEF Worker, SameEnd
  <2> HIDE DEF f
  <2> QED BY <1>2, <2>2, <2>4, <2>6
<1>5. CASE ExecuteCall(w)
  <2> DEFINE v == IF Validated(w) THEN FALSE ELSE worker[w].finishedProgress
             f == [worker[w] EXCEPT !.finishedProgress = v]
  <2>1. Executed(w, Validated(w), [worker EXCEPT ![w] = f]) BY <1>5 DEF ExecuteCall
  <2>2. instr[s].kind # "END" /\ v \in BOOLEAN
    BY <1>1, <1>5 DEF ExecuteCall, Executes, Worker
  <2> HIDE DEF v
  <2>3. f \in Worker /\ f.pc = "run" /\ f.pos = s /\ SameEnd(f, worker[w])
    BY <1>1, <2>2 DEF Worker, SameEnd
  <2> HIDE DEF f
  <2>4. Validated(w) \in BOOLEAN BY DEF Validated
  <2> QED BY <1>2, <2>1, <2>2, <2>3, <2>4
<1>6. CASE ExecuteEnd(w)
  <2> DEFINE v == ValidatedAfterEnd(worker[w].validated, worker[w].depth - 1)
             e == [worker[w] EXCEPT !.pos = s + 1, !.depth = worker[w].depth - 1, !.validated = v]
  <2>1. /\ worker' = [worker EXCEPT ![w] = e] /\ instr[s].kind = "END"
        /\ txnOf' = [txnOf EXCEPT ![s] = w] /\ log' = Append(log, s)
        /\ UNCHANGED <<word, jsVars, result>>
    BY <1>6 DEF ExecuteEnd, Executes
  <2> HIDE DEF v
  <2>2. SameEnd(e, worker[w]) /\ e.pc = "run" BY <1>1 DEF Worker, SameEnd
  <2> HIDE DEF e
  <2>3. /\ DOMAIN worker' = DOMAIN worker /\ worker'[w] = e
        /\ \A u \in DOMAIN worker : u # w => worker'[u] = worker[u]
    BY <1>1, <2>1
  <2>4. Runs(w, TRUE) /\ RunsEnd(w) BY <1>1, <2>1, <2>2, <2>3 DEF Runs, RunsEnd
  <2> QED BY <2>4
<1> QED BY <1>3, <1>4, <1>5, <1>6

\* One word changes.
LEMMA ExecutedWord ==
    ASSUME IInv, ExecutedInv, IInv', NEW s \in Slots, NEW new, word' = [word EXCEPT ![s] = new],
           log' = log \/ (log' = Append(log, Frontier) /\ OP \in word[Frontier]),
           OP \in word[s] => OP \in new,
           FINISHED_OPERATION \in new => FINISHED_OPERATION \in word[s] \/ s <= Len(log')
    PROVE  ExecutedInv'
<1>1. word'[s] = new /\ \A x \in Slots : x # s => word'[x] = word[x]
  BY DEF IInv, TypeOK, TypeWord
<1>2. \A x \in Slots : OP \in word[x] => OP \in word'[x] BY <1>1
<1>3. ASSUME NEW x \in Slots, FINISHED_OPERATION \in word'[x]
      PROVE  FINISHED_OPERATION \in word[x] \/ x <= Len(log')
  BY <1>1, <1>3, Zenon
<1> QED BY <1>2, <1>3, KeepExecuted

\* A step of a worker keeps what is said of the list.
LEMMA WorkerKeeps ==
    ASSUME IInv, CursorInv, IInv', UNCHANGED jsVars, log' = log \/ Len(log) <= Len(log'), ExecutedInv'
    PROVE  CursorInv'
<1>1. Len(log) <= Len(log') BY SlotTypes
<1>2. UNCHANGED <<nextResolution, blocks, txnResolution, unwrittenResolution, resolution,
                  uncommittedResolution, call, caller, writeBatchStart>>
  BY DEF jsVars, reserveVars, batchVars, settleVars
<1>3. OrderInv' /\ LinkInv' /\ SweptInv' /\ AssignedInv'
  BY <1>1, <1>2, KeepList DEF FP, Is, NextTxn
<1>4. TurnInv'
  BY <1>2 DEF CursorInv, TurnInv, Noting, Places, Is
<1> QED BY <1>3, <1>4 DEF CursorInv

\* A worker changes no resolution; what it marks, it has executed.
LEMMA WorkerCursor ==
    ASSUME IInv, CursorInv, IInv', NEW w \in DOMAIN worker, WorkerStep(w)
    PROVE  CursorInv'
<1>1. worker[w] \in Worker /\ log \in Seq(Slots) /\ ExecutedInv
  BY WorkerTypes DEF IInv, TypeOK, TypeHistory, CursorInv
<1>2. CASE BeginTxn(w) \/ WakeUp(w) \/ Commit(w)
  <2>1. UNCHANGED <<word, jsVars, log>> BY <1>2 DEF BeginTxn, WakeUp, Commit, historyVars
  <2>2. ExecutedInv' BY <1>1, <2>1 DEF ExecutedInv, RunInv, FinishInv
  <2> QED BY <2>1, <2>2, WorkerKeeps, SMTT(30)
<1>3. CASE WaitForOperation(w) \/ Delimit(w)
  <2>1. PICK new : /\ word' = [word EXCEPT ![worker[w].pos] = new] /\ FINISHED_OPERATION \notin new
                   /\ OP \notin word[worker[w].pos] /\ UNCHANGED <<jsVars, log>>
    BY <1>3 DEF WaitForOperation, Delimit, Fetched, historyVars, WAITING_OPERATION, TXN_DELIMITER,
                FINISHED_OPERATION
  <2>2. worker[w].pos \in Slots BY <1>1 DEF Worker
  <2>3. ExecutedInv' BY <1>1, <2>1, <2>2, ExecutedWord
  <2> QED BY <2>1, <2>3, WorkerKeeps
<1>4. CASE StoreFinished(w)
  <2> DEFINE s == worker[w].pos
             new == worker[w].loaded
  <2>1. /\ UNCHANGED <<jsVars, log>> /\ word' = [word EXCEPT ![s] = new] /\ worker[w].pc = "store"
    BY <1>4 DEF StoreFinished, historyVars
  <2>2. s \in Slots /\ s = Len(log) /\ OP \in new
    <3>1. w \in ActiveWorkers BY <2>1 DEF ActiveWorkers
    <3>2. WorkerAtFrontier(w) BY <3>1 DEF IInv, FrontierInv
    <3> QED BY <1>1, <2>1, <3>2 DEF WorkerAtFrontier, Worker
  <2> HIDE DEF s, new
  <2>3. s <= Len(log') BY <2>1, <2>2, SlotTypes
  <2>4. ExecutedInv' BY <1>1, <2>1, <2>2, <2>3, ExecutedWord
  <2> QED BY <2>1, <2>4, WorkerKeeps
<1>5. CASE ExecuteWrite(w) \/ ExecuteStart(w) \/ ExecuteCall(w) \/ ExecuteEnd(w)
  <2>1. PICK ok \in BOOLEAN : Runs(w, ok) /\ (RunsMarked(w, ok) \/ RunsEnd(w))
    BY <1>5, ExecuteEffect
  <2>2. UNCHANGED jsVars /\ log' = Append(log, Frontier) /\ OP \in word[Frontier]
    BY <2>1 DEF Runs
  <2>3. Len(log') = Len(log) + 1 BY <1>1, <2>2
  <2>4. ExecutedInv'
    <3>1. CASE word' = word BY <1>1, <2>2, <3>1, KeepExecuted
    <3>2. CASE word' = [word EXCEPT ![Frontier] = @ \cup Flags(ok)]
      <4> DEFINE new == word[Frontier] \cup Flags(ok)
      <4>1. word' = [word EXCEPT ![Frontier] = new] /\ OP \in new BY <2>2, <3>2
      <4>2. Frontier \in Slots /\ Frontier <= Len(log') BY <2>3, SlotTypes
      <4> HIDE DEF new
      <4> QED BY <1>1, <2>2, <4>1, <4>2, ExecutedWord
    <3> QED BY <2>1, <3>1, <3>2 DEF RunsMarked, RunsEnd
  <2>5. Len(log) <= Len(log') BY <2>3, SlotTypes
  <2> QED BY <2>2, <2>4, <2>5, WorkerKeeps
<1>6. CASE ReportCommit(w) \/ Sync(w)
  <2> DEFINE s == worker[w].instructions
  <2>1. PICK bits \in SUBSET {TXN_COMMITTED, TXN_FAILED} :
          word' = [word EXCEPT ![s] = @ \cup bits] /\ UNCHANGED <<jsVars, log>>
    <3>1. CASE ReportCommit(w)
      <4> DEFINE b == ReportedBits(worker[w].outcome = "failed")
      <4>1. b \in SUBSET {TXN_COMMITTED, TXN_FAILED} BY DEF ReportedBits
      <4>2. word' = [word EXCEPT ![s] = @ \cup b] /\ UNCHANGED <<jsVars, log>>
        BY <3>1 DEF ReportCommit, historyVars
      <4> QED BY <4>1, <4>2
    <3>2. CASE Sync(w)
      <4>1. \/ word' = [word EXCEPT ![s] = @ \cup {TXN_COMMITTED}] \/ word' = word
        BY <3>2 DEF Sync
      <4>2. word = [word EXCEPT ![s] = @ \cup {}] BY DEF IInv, TypeOK, TypeWord
      <4>3. {} \in SUBSET {TXN_COMMITTED, TXN_FAILED} /\ {TXN_COMMITTED} \in SUBSET {TXN_COMMITTED, TXN_FAILED}
        OBVIOUS
      <4>4. UNCHANGED <<jsVars, log>> BY <3>2 DEF Sync, historyVars
      <4>5. CASE word' = word BY <4>2, <4>3, <4>4, <4>5
      <4>6. CASE word' = [word EXCEPT ![s] = @ \cup {TXN_COMMITTED}] BY <4>3, <4>4, <4>6
      <4> QED BY <4>1, <4>5, <4>6
    <3> QED BY <1>6, <3>1, <3>2
  <2> DEFINE new == word[s] \cup bits
  <2>2. s \in Slots BY <1>1 DEF Worker
  <2>3. /\ OP \in word[s] => OP \in new
        /\ FINISHED_OPERATION \in new => FINISHED_OPERATION \in word[s]
        /\ word' = [word EXCEPT ![s] = new]
    BY <2>1 DEF FINISHED_OPERATION, TXN_COMMITTED, TXN_FAILED
  <2> HIDE DEF s, new
  <2>4. ExecutedInv' BY <1>1, <2>1, <2>2, <2>3, ExecutedWord
  <2> QED BY <2>1, <2>4, WorkerKeeps
<1> QED BY <1>2, <1>3, <1>4, <1>5, <1>6 DEF WorkerStep
-----------------------------------------------------------------------------
(* Linking a delimiter. *)

\* What queueCommitResolution changes.
LEMMA LinkEffect ==
    ASSUME IInv, NEW r \in Places, QueueCommitResolution(r)
    PROVE  /\ \A q \in Slots : /\ FP(q)' = FP(q)
                               /\ resolution'[q].released = resolution[q].released
                               /\ resolution'[q].promise = resolution[q].promise
                               /\ resolution'[q].flag = resolution[q].flag
                               /\ resolution'[q].settled = resolution[q].settled
                               /\ resolution'[q].callbacks = resolution[q].callbacks
                               /\ resolution'[q].flush = resolution[q].flush
           /\ \A q \in Slots : q # r => Is(q)' = Is(q)
           /\ Is(r)'
           /\ \A q \in Slots : NextTxn(q)' = IF q = txnResolution /\ ~Is(r) THEN r ELSE NextTxn(q)
           /\ txnResolution' = IF Is(r) \/ txnResolution # 0 THEN txnResolution ELSE r
<1>1. r \in Slots /\ resolution \in [Slots -> Resolution]
  BY PlaceTypes DEF IInv, TypeOK, TypeReserve
<1>2. txnResolution' = IF Is(r) \/ txnResolution # 0 THEN txnResolution ELSE r
  BY DEF QueueCommitResolution, Is
<1>3. CASE Is(r)
  <2>1. resolution' = resolution BY <1>3 DEF QueueCommitResolution, Is
  <2> QED BY <1>2, <1>3, <2>1 DEF FP, Is, NextTxn
<1>4. CASE ~Is(r)
  <2> DEFINE e == [resolution[r] EXCEPT !.isTxn = TRUE]
             mid == [resolution EXCEPT ![r] = e]
  <2>1. /\ e.flagPosition = resolution[r].flagPosition /\ e.nextTxn = resolution[r].nextTxn
        /\ e.released = resolution[r].released /\ e.promise = resolution[r].promise
        /\ e.flag = resolution[r].flag /\ e.settled = resolution[r].settled
        /\ e.callbacks = resolution[r].callbacks /\ e.flush = resolution[r].flush
        /\ e.isTxn /\ e \in Resolution
    <3>1. resolution[r] \in Resolution BY <1>1
    <3> QED BY <3>1 DEF Resolution
  <2> HIDE DEF e
  <2>2. /\ mid \in [Slots -> Resolution] /\ mid[r] = e
        /\ \A q \in Slots : q # r => mid[q] = resolution[q]
    BY <1>1, <2>1
  <2>3. resolution' = IF txnResolution = 0 THEN mid
                      ELSE [mid EXCEPT ![txnResolution].nextTxn = r]
    BY <1>4 DEF QueueCommitResolution, Is, e
  <2> HIDE DEF mid
  <2>4. CASE txnResolution = 0
    <3>1. \A q \in Slots : q # txnResolution BY <2>4, SlotTypes
    <3> QED BY <1>1, <1>2, <1>4, <2>1, <2>2, <2>3, <2>4, <3>1 DEF FP, Is, NextTxn
  <2>5. CASE txnResolution # 0
    <3> DEFINE t == txnResolution
               f == [mid[t] EXCEPT !.nextTxn = r]
    <3>1. t \in Slots /\ mid[t] \in Resolution BY <2>2, <2>5, PlaceTypes
    <3>2. /\ f.flagPosition = mid[t].flagPosition /\ f.nextTxn = r /\ f.isTxn = mid[t].isTxn
          /\ f.released = mid[t].released /\ f.promise = mid[t].promise
          /\ f.flag = mid[t].flag /\ f.settled = mid[t].settled
          /\ f.callbacks = mid[t].callbacks /\ f.flush = mid[t].flush
      BY <3>1 DEF Resolution
    <3>3. resolution' = [mid EXCEPT ![t] = f] BY <2>3, <2>5
    <3> HIDE DEF f
    <3>4. resolution'[t] = f /\ \A q \in Slots : q # t => resolution'[q] = mid[q]
      BY <2>2, <3>1, <3>3
    <3> QED BY <1>1, <1>2, <1>4, <2>1, <2>2, <3>1, <3>2, <3>4 DEF FP, Is, NextTxn
  <2> QED BY <2>4, <2>5
<1> QED BY <1>3, <1>4

\* Linking a delimiter at the frontier, the last one so far, keeps the list in order.
LEMMA LinkStep ==
    ASSUME IInv, CursorInv, NEW r \in Places, FP(r) = Frontier, \A q \in Places : Is(q) => q <= r,
           r = nextResolution => Len(blocks) = 0, QueueCommitResolution(r),
           UNCHANGED <<nextResolution, blocks, log, uncommittedResolution, unwrittenResolution>>
    PROVE  /\ OrderInv' /\ LinkInv' /\ SweptInv' /\ AssignedInv'
           /\ \A q \in Places : Is(q)' => q <= r
<1>1. r \in Slots /\ r \in Nat /\ r # 0 BY SlotTypes, PlaceTypes
<1>2. /\ \A q \in Slots : /\ FP(q)' = FP(q)
                          /\ resolution'[q].released = resolution[q].released
                          /\ resolution'[q].promise = resolution[q].promise
      /\ \A q \in Slots : q # r => Is(q)' = Is(q)
      /\ Is(r)'
      /\ \A q \in Slots : NextTxn(q)' = IF q = txnResolution /\ ~Is(r) THEN r ELSE NextTxn(q)
      /\ txnResolution' = IF Is(r) \/ txnResolution # 0 THEN txnResolution ELSE r
  BY LinkEffect
<1>3. Places' = Places /\ Frontier' = Frontier BY DEF Places, Frontier
<1>4. OrderInv' BY <1>2, <1>3, PlaceTypes DEF CursorInv, OrderInv
<1>5. SweptInv'
  <2>1. \A q \in 1..(unwrittenResolution - 1) : q \in Places BY SlotTypes DEF Places
  <2>2. \A q \in 1..(unwrittenResolution - 1) : q \in Slots /\ FP(q) <= Len(log)
    BY <2>1, PlaceTypes DEF CursorInv, SweptInv
  <2>3. \A q \in 1..(unwrittenResolution - 1) : FP(q)' <= Len(log') BY <1>2, <2>2
  <2>4. \A q \in Slots : resolution'[q].released => q < unwrittenResolution'
    BY <1>2 DEF CursorInv, SweptInv
  <2> QED BY <2>3, <2>4 DEF SweptInv
<1>6. AssignedInv'
  <2>1. \A q \in 1..(uncommittedResolution - 1) : q \in Slots
    BY SlotTypes, PlaceTypes, SMTT(30)
  <2> QED BY <1>2, <2>1 DEF CursorInv, AssignedInv
<1>7. ~resolution[r].released
  <2>1. ~(FP(r) <= Len(log)) BY SlotTypes
  <2>2. ~(r \in 1..(unwrittenResolution - 1)) BY <2>1, Zenon DEF CursorInv, SweptInv
  <2>3. ~(r < unwrittenResolution) BY <1>1, <2>2, SlotTypes
  <2> QED BY <1>1, <2>3 DEF CursorInv, SweptInv
<1>8. LinkInv'
  <2>1. \A q \in Slots : Is(q)' => q \in Places' /\ FP(q)' <= Frontier' /\ ~resolution'[q].released
    <3> TAKE q \in Slots
    <3>1. CASE q = r
      <4>1. FP(q)' <= Frontier' BY <1>2, <1>3, <3>1, SlotTypes
      <4> QED BY <1>2, <1>3, <1>7, <3>1, <4>1
    <3>2. CASE q # r
      BY <1>2, <1>3, <3>2 DEF CursorInv, LinkInv
    <3> QED BY <3>1, <3>2
  <2>2. \A q \in Slots : NextTxn(q)' # 0 => Is(NextTxn(q))' /\ q < NextTxn(q)'
    <3> TAKE q \in Slots
    <3> HAVE NextTxn(q)' # 0
    <3>1. CASE q = txnResolution /\ ~Is(r)
      <4>1. NextTxn(q)' = r BY <1>2, <3>1
      <4>2. q \in Places /\ Is(q) /\ q <= r
        <5>1. q # 0 BY SlotTypes
        <5>2. Is(q) /\ q \in Places BY <3>1, <5>1 DEF CursorInv, LinkInv
        <5> QED BY <5>2
      <4>3. q < r BY <1>1, <3>1, <4>2, SlotTypes
      <4>4. Is(NextTxn(q))' BY <1>2, <4>1 DEF Is
      <4> QED BY <4>1, <4>3, <4>4
    <3>2. CASE ~(q = txnResolution /\ ~Is(r))
      <4>1. NextTxn(q)' = NextTxn(q) BY <1>2, <3>2
      <4>2. Is(NextTxn(q)) /\ q < NextTxn(q) /\ NextTxn(q) \in Slots
        <5>1. NextTxn(q) # 0 BY <4>1
        <5> QED BY <5>1, SlotTypes, PlaceTypes DEF CursorInv, LinkInv
      <4>3. Is(NextTxn(q))' BY <1>2, <4>1, <4>2 DEF Is
      <4> QED BY <4>1, <4>2, <4>3
    <3> QED BY <3>1, <3>2
  <2>3. \A q \in Slots : Is(q) => Is(q)' BY <1>2
  <2>4. uncommittedResolution' # 0 => Is(uncommittedResolution)'
    <3>1. uncommittedResolution # 0 => uncommittedResolution \in Slots /\ Is(uncommittedResolution)
      BY PlaceTypes DEF CursorInv, LinkInv
    <3> QED BY <2>3, <3>1 DEF Is
  <2>5. txnResolution' # 0 => Is(txnResolution)' /\ uncommittedResolution' < txnResolution'
    <3>1. CASE Is(r) \/ txnResolution # 0
      <4>1. txnResolution' = txnResolution BY <1>2, <3>1
      <4>2. txnResolution # 0 => /\ txnResolution \in Slots /\ Is(txnResolution)
                                 /\ uncommittedResolution < txnResolution
        BY PlaceTypes DEF CursorInv, LinkInv
      <4> QED BY <2>3, <4>1, <4>2 DEF Is
    <3>2. CASE ~(Is(r) \/ txnResolution # 0)
      <4>1. txnResolution' = r BY <1>2, <3>2
      <4>2. uncommittedResolution < r
        <5>1. CASE uncommittedResolution = 0 BY <1>1, <5>1
        <5>2. CASE uncommittedResolution # 0
          <6>1. uncommittedResolution \in Places /\ Is(uncommittedResolution)
            BY <5>2, PlaceTypes DEF CursorInv, LinkInv
          <6>2. uncommittedResolution <= r /\ uncommittedResolution # r BY <3>2, <6>1
          <6> QED BY <1>1, <6>2, SlotTypes
        <5> QED BY <5>1, <5>2
      <4> QED BY <1>2, <4>1, <4>2 DEF Is
    <3> QED BY <3>1, <3>2
  <2>6. Is(nextResolution)' => Len(blocks') = 0
    <3>1. CASE r = nextResolution BY <3>1
    <3>2. CASE r # nextResolution
      <4>1. Is(nextResolution)' = Is(nextResolution) BY <1>2, <3>2, SlotTypes DEF Is
      <4> QED BY <4>1 DEF CursorInv, LinkInv
    <3> QED BY <3>1, <3>2
  <2> QED BY <2>1, <2>2, <2>4, <2>5, <2>6 DEF LinkInv
<1>9. \A q \in Places : Is(q)' => q <= r
  <2> TAKE q \in Places
  <2>1. q \in Slots BY PlaceTypes
  <2>2. CASE q = r BY <1>1, <2>2
  <2>3. CASE q # r BY <1>2, <2>1, <2>3
  <2> QED BY <2>2, <2>3
<1> QED BY <1>4, <1>5, <1>6, <1>8, <1>9
-----------------------------------------------------------------------------
(* Steps of the running function. *)

\* Nothing is marked or executed.
LEMMA SameWords ==
    ASSUME CursorInv, UNCHANGED <<word, log>>
    PROVE  ExecutedInv'
BY DEF CursorInv, ExecutedInv, RunInv, FinishInv

\* The resolution of the running closure is one of a reserved slot.
LEMMA CallPlace ==
    ASSUME IInv, call.pc \in {"publish", "store", "note", "promise"}
    PROVE  call.res \in Places /\ call.res # nextResolution /\ call.res # 0
<1>1. call.res \in Reserved BY CallFacts
<1>2. call.res \in Nat /\ 1 <= call.res /\ call.res < nextResolution BY <1>1, PlaceTypes
<1>3. call.res \in Places BY <1>2, SlotTypes DEF Places
<1> QED BY <1>2, <1>3, SlotTypes

\* What the closure notes: only its own resolution may be linked.
LEMMA NoteCursor ==
    ASSUME IInv, CursorInv, IInv', ExecutedInv', NEW seen, call.pc \in {"publish", "note"},
           NoteWrite(call.res, seen), UNCHANGED writeBatchStart,
           TXN_DELIMITER \in seen => FP(call.res) = Frontier,
           \A q \in Places : Is(q) => q <= call.res
    PROVE  CursorInv'
<1> DEFINE r == call.res
<1>1. /\ r \in Places /\ r # nextResolution /\ r # 0
  BY CallPlace
<1>2. /\ UNCHANGED <<nextResolution, blocks, log, uncommittedResolution, unwrittenResolution, caller>>
      /\ call'.res = r /\ call'.pc \in {"sweep", "promise"}
  BY DEF NoteWrite, reserveVars, batchVars, historyVars, IInv, TypeOK, TypeCall, Call
<1>3. /\ OrderInv' /\ LinkInv' /\ SweptInv' /\ AssignedInv'
      /\ \A q \in Places : Is(q)' => q <= r
  <2>1. CASE TXN_DELIMITER \in seen
    <3>1. QueueCommitResolution(r) BY <2>1 DEF NoteWrite
    <3> QED BY <1>1, <1>2, <2>1, <3>1, LinkStep
  <2>2. CASE TXN_DELIMITER \notin seen
    <3>1. UNCHANGED <<resolution, txnResolution>> BY <2>2 DEF NoteWrite
    <3>2. OrderInv' /\ LinkInv' /\ SweptInv' /\ AssignedInv'
      BY <1>2, <3>1, SlotTypes, KeepList DEF FP, Is, NextTxn
    <3> QED BY <3>1, <3>2 DEF Is
  <2> QED BY <2>1, <2>2
<1>4. TurnInv'
  <2>1. caller'.pc = "note" => call'.res < caller'.res BY <1>2 DEF CursorInv, TurnInv
  <2>2. \A q \in Places' : Is(q)' => q <= call'.res BY <1>2, <1>3 DEF Places
  <2> QED BY <1>2, <2>1, <2>2 DEF TurnInv
<1> QED BY <1>3, <1>4 DEF CursorInv

\* Publishing with an atomic, and noting what was published with a plain store.
LEMMA PublishCursor ==
    ASSUME IInv, CursorInv, IInv', PublishAtomic \/ NotePlainWrite
    PROVE  CursorInv'
<1>1. CASE PublishAtomic
  <2>1. /\ call.pc = "publish" /\ NoteWrite(call.res, word[CallSlot]) /\ UNCHANGED writeBatchStart
        /\ word' = [word EXCEPT ![CallSlot] = @ \cup {OP}]
    BY <1>1 DEF PublishAtomic
  <2>2. /\ call.res \in Places /\ CallSlot = FP(call.res) /\ CallSlot \in Slots /\ OP \notin word[CallSlot]
    BY <2>1, CallFacts, CallPlace
  <2>3. TXN_DELIMITER \in word[CallSlot] => FP(call.res) = Frontier
    BY <2>2 DEF IInv, FrontierInv, OpenDelimiters, AtFrontier, Frontier
  <2>4. \A q \in Places : Is(q) => q <= call.res
    BY <2>2, LinkedBefore DEF CursorInv
  <2> DEFINE new == word[CallSlot] \cup {OP}
  <2>5. /\ word' = [word EXCEPT ![CallSlot] = new] /\ OP \in new
        /\ FINISHED_OPERATION \in new => FINISHED_OPERATION \in word[CallSlot]
    BY <2>1 DEF FINISHED_OPERATION, OP
  <2>6. log' = log BY <2>1 DEF NoteWrite, historyVars
  <2> HIDE DEF new
  <2>7. ExecutedInv' BY <2>2, <2>5, <2>6, ExecutedWord DEF CursorInv
  <2> QED BY <2>1, <2>3, <2>4, <2>7, NoteCursor
<1>2. CASE NotePlainWrite
  <2>1. /\ call.pc = "note" /\ NoteWrite(call.res, call.seen) /\ UNCHANGED <<word, writeBatchStart>>
    BY <1>2 DEF NotePlainWrite
  <2>2. TXN_DELIMITER \notin call.seen BY <2>1 DEF IInv, CallInv
  <2>3. log' = log BY <2>1 DEF NoteWrite, historyVars
  <2>4. \A q \in Places : Is(q) => q <= call.res
    BY <2>1, CallFacts DEF CursorInv, TurnInv, Noting
  <2>5. ExecutedInv' BY <2>1, <2>3, SameWords
  <2> QED BY <2>1, <2>2, <2>4, <2>5, NoteCursor
<1> QED BY <1>1, <1>2

\* The plain store, which may hand over to the closure of the deferred start.
LEMMA StoreCursor ==
    ASSUME IInv, CursorInv, IInv', PublishStore
    PROVE  CursorInv'
<1>1. /\ call.pc = "store" /\ word' = [word EXCEPT ![CallSlot] = {OP}]
      /\ UNCHANGED <<reserveVars, resolution, blocks, settleVars, log>>
  BY DEF PublishStore, batchVars, historyVars
<1>2. /\ call.res \in Places /\ CallSlot = FP(call.res) /\ CallSlot \in Slots /\ OP \notin word[CallSlot]
      /\ Len(blocks) > 0
  <2>1. Len(blocks) # 0 BY <1>1 DEF IInv, CallInv
  <2>2. Len(blocks) > 0 BY <2>1, SlotTypes
  <2> QED BY <1>1, <2>2, CallFacts, CallPlace
<1>3. ExecutedInv'
  <2> DEFINE new == {OP}
  <2>1. word' = [word EXCEPT ![CallSlot] = new] /\ OP \in new /\ FINISHED_OPERATION \notin new
    BY <1>1 DEF FINISHED_OPERATION, OP
  <2> HIDE DEF new
  <2> QED BY <1>1, <1>2, <2>1, ExecutedWord DEF CursorInv
<1>4. OrderInv' /\ LinkInv' /\ SweptInv' /\ AssignedInv'
  BY <1>1, SlotTypes, KeepList DEF reserveVars, settleVars, FP, Is, NextTxn
<1>5. \A q \in Places : Is(q) => q <= call.res
  BY <1>2, LinkedBefore DEF CursorInv
<1>6. Places' = Places /\ \A q : Is(q)' = Is(q) BY <1>1 DEF reserveVars, Places, Is
<1>7. TurnInv'
  <2> DEFINE noted == [call EXCEPT !.pc = "note"]
  <2>1. noted.pc = "note" /\ noted.res = call.res BY DEF IInv, TypeOK, TypeCall, Call
  <2>2. \/ call' = noted /\ caller' = caller
        \/ /\ call' = WriteCall(writeBatchStart) /\ caller' = noted /\ writeBatchStart' = 0
           /\ writeBatchStart # 0
    BY DEF PublishStore
  <2>3. caller.pc # "note" BY <1>1 DEF IInv, CallInv
  <2> HIDE DEF noted
  <2>4. CASE call' = noted /\ caller' = caller
    BY <1>5, <1>6, <2>1, <2>3, <2>4 DEF TurnInv
  <2>5. CASE /\ call' = WriteCall(writeBatchStart) /\ caller' = noted /\ writeBatchStart' = 0
             /\ writeBatchStart # 0
    <3>1. call'.pc = "publish" /\ call'.res = writeBatchStart
      <4>1. writeBatchStart \in 0..(MaxSlots + 1) BY DEF IInv, TypeOK, TypeBatch
      <4> QED BY <2>5, <4>1, WriteCallRecord
    <3>2. writeBatchStart < call.res BY <1>1, <1>2, <2>5 DEF CursorInv, TurnInv
    <3> QED BY <2>1, <2>5, <3>1, <3>2 DEF TurnInv, Noting
  <2> QED BY <2>2, <2>4, <2>5
<1> QED BY <1>3, <1>4, <1>7 DEF CursorInv

\* The steps that change only the program counter.
LEMMA CounterCursor ==
    ASSUME IInv, CursorInv, IInv', PublishLoad \/ SweepEnd \/ SettleEnd
    PROVE  CursorInv'
<1>1. /\ UNCHANGED <<word, log, nextResolution, blocks, resolution, txnResolution,
                     unwrittenResolution, uncommittedResolution, writeBatchStart, caller>>
  BY DEF PublishLoad, SweepEnd, SettleEnd, reserveVars, batchVars, settleVars, historyVars
<1>2. /\ call'.res = call.res
      /\ call'.pc \in {"publish", "store"} => call.pc \in {"publish", "store"}
      /\ call'.pc \in {"note", "sweep", "settle", "promise"} =>
           call.pc \in {"note", "sweep", "settle", "promise"}
  BY DEF PublishLoad, SweepEnd, SettleEnd, IInv, TypeOK, TypeCall, Call
<1>3. ExecutedInv' BY <1>1, SameWords
<1>4. OrderInv' /\ LinkInv' /\ SweptInv' /\ AssignedInv'
  BY <1>1, SlotTypes, KeepList DEF FP, Is, NextTxn
<1>5. TurnInv' BY <1>1, <1>2 DEF CursorInv, TurnInv, Noting, Places, Is
<1> QED BY <1>3, <1>4, <1>5 DEF CursorInv

\* The closure ends, and the one it interrupted goes on.
LEMMA PromiseCursor ==
    ASSUME IInv, CursorInv, IInv', AssignPromise
    PROVE  CursorInv'
<1> DEFINE r == call.res
           immediate == ~Conditional(r) /\ instr[CallSlot].depth > 1
           own == ~immediate /\ (Conditional(r) \/ commitPromise = 0)
           p == IF immediate THEN PromiseSuccess ELSE IF own THEN r ELSE commitPromise
           x == IF own /\ SeparateFlushed THEN flushPromise ELSE 0
           e == [resolution[r] EXCEPT !.promise = p, !.flush = x]
<1>1. /\ call.pc = "promise" /\ call' = caller /\ caller' = Idle
      /\ UNCHANGED <<word, log, nextResolution, blocks, txnResolution, unwrittenResolution,
                     uncommittedResolution, writeBatchStart>>
      /\ resolution' = [resolution EXCEPT ![r] = e]
  BY DEF AssignPromise, reserveVars, batchVars, settleVars, historyVars
<1>2. r \in Slots /\ r # 0 /\ resolution[r] \in Resolution
  BY <1>1, CallFacts, PlaceTypes
<1>3. p # NoPromise
  <2>1. immediate \/ own \/ commitPromise # 0 OBVIOUS
  <2> QED BY <1>2, <2>1 DEF PromiseSuccess, NoPromise
<1>4. /\ e.flagPosition = resolution[r].flagPosition /\ e.isTxn = resolution[r].isTxn
      /\ e.nextTxn = resolution[r].nextTxn /\ e.released = resolution[r].released
      /\ e.promise = p
  BY <1>2 DEF Resolution
<1> HIDE DEF e, p
<1>5. resolution'[r] = e /\ \A q \in Slots : q # r => resolution'[q] = resolution[q]
  BY <1>1, <1>2 DEF IInv, TypeOK, TypeReserve
<1>6. \A q \in Slots : /\ FP(q)' = FP(q) /\ Is(q)' = Is(q) /\ NextTxn(q)' = NextTxn(q)
                       /\ resolution'[q].released = resolution[q].released
                       /\ resolution[q].promise # NoPromise => resolution'[q].promise # NoPromise
  BY <1>3, <1>4, <1>5 DEF FP, Is, NextTxn
<1>7. ExecutedInv' BY <1>1, SameWords
<1>8. OrderInv' /\ LinkInv' /\ SweptInv' /\ AssignedInv'
  BY <1>1, <1>6, SlotTypes, KeepList
<1>9. TurnInv'
  <2>1. caller.pc \in {"idle", "note"} BY DEF IInv, CallInv
  <2>2. caller'.pc = "idle" BY <1>1, IdleCall
  <2>3. caller.pc = "note" => \A q \in Places : Is(q) => q <= caller.res
    <3> HAVE caller.pc = "note"
    <3>1. r < caller.res /\ \A q \in Places : Is(q) => q <= r
      BY <1>1, <1>2 DEF CursorInv, TurnInv, Noting
    <3>2. ASSUME NEW q \in Places, Is(q) PROVE q <= caller.res
      <4>1. q \in Nat /\ q <= r BY <3>1, <3>2, PlaceTypes
      <4> QED BY <3>1, <4>1, SlotTypes
    <3> QED BY <3>2
  <2>4. \A q \in Places' : q \in Places /\ Is(q)' = Is(q)
    BY <1>1, <1>6, PlaceTypes DEF Places
  <2> QED BY <1>1, <2>1, <2>2, <2>3, <2>4 DEF TurnInv, Noting
<1> QED BY <1>7, <1>8, <1>9 DEF CursorInv

\* What is swept has been executed; a linked delimiter keeps its buffer.
LEMMA SweepCursor ==
    ASSUME IInv, CursorInv, IInv', SweepNext
    PROVE  CursorInv'
<1> DEFINE r == unwrittenResolution
           status == word[FP(r)]
           let == LetGo(r)
           e == [resolution[r] EXCEPT !.callbacks = 0, !.flag = status, !.released = let]
<1>1. /\ call.pc = "sweep" /\ FINISHED_OPERATION \in status /\ unwrittenResolution' = r + 1
      /\ UNCHANGED <<word, log, nextResolution, blocks, txnResolution, uncommittedResolution,
                     writeBatchStart, call, caller>>
      /\ resolution' = [resolution EXCEPT ![r] = e]
  BY DEF SweepNext, reserveVars, batchVars, historyVars, FP
<1>2. r \in Places /\ r \in Slots /\ r \in Nat /\ FP(r) \in Slots /\ resolution[r] \in Resolution
  <2>1. r \in Slots BY DEF IInv, TypeOK, TypeSettle
  <2>2. r \in Places BY <2>1, SlotTypes DEF Places
  <2> QED BY <2>1, <2>2, SlotTypes, PlaceTypes
<1>3. let = ~Is(r) BY DEF LetGo, Is
<1>4. /\ e.flagPosition = resolution[r].flagPosition /\ e.isTxn = resolution[r].isTxn
      /\ e.nextTxn = resolution[r].nextTxn /\ e.promise = resolution[r].promise
      /\ e.released = let
  BY <1>2 DEF Resolution
<1>5. FP(r) <= Len(log)
  BY <1>1, <1>2 DEF CursorInv, ExecutedInv, FinishInv
<1> HIDE DEF e, let
<1>6. resolution'[r] = e /\ \A q \in Slots : q # r => resolution'[q] = resolution[q]
  BY <1>1, <1>2 DEF IInv, TypeOK, TypeReserve
<1>7. \A q \in Slots : /\ FP(q)' = FP(q) /\ Is(q)' = Is(q) /\ NextTxn(q)' = NextTxn(q)
                       /\ resolution'[q].promise = resolution[q].promise
  BY <1>4, <1>6 DEF FP, Is, NextTxn
<1>8. Places' = Places /\ Frontier' = Frontier BY <1>1 DEF Places, Frontier
<1>9. ExecutedInv' BY <1>1, SameWords
<1>10. OrderInv' BY <1>7, <1>8, PlaceTypes DEF CursorInv, OrderInv
<1>11. LinkInv'
  <2>1. \A q \in Slots : Is(q)' => q \in Places' /\ FP(q)' <= Frontier' /\ ~resolution'[q].released
    <3> SUFFICES ASSUME NEW q \in Slots, Is(q)'
                 PROVE  q \in Places' /\ FP(q)' <= Frontier' /\ ~resolution'[q].released
      OBVIOUS
    <3>1. Is(q) BY <1>7
    <3>2. q \in Places /\ FP(q) <= Frontier /\ ~resolution[q].released
      BY <3>1 DEF CursorInv, LinkInv
    <3>3. ~resolution'[q].released
      <4>1. CASE q = r BY <1>3, <1>4, <1>6, <3>1, <4>1
      <4>2. CASE q # r BY <1>6, <3>2, <4>2
      <4> QED BY <4>1, <4>2
    <3> QED BY <1>7, <1>8, <3>2, <3>3
  <2>2. \A q \in Slots : NextTxn(q)' # 0 => Is(NextTxn(q))' /\ q < NextTxn(q)'
    <3> TAKE q \in Slots
    <3> HAVE NextTxn(q)' # 0
    <3>1. NextTxn(q)' = NextTxn(q) BY <1>7
    <3>2. Is(NextTxn(q)) /\ q < NextTxn(q) /\ NextTxn(q) \in Slots
      BY <3>1, SlotTypes, PlaceTypes DEF CursorInv, LinkInv
    <3>3. Is(NextTxn(q))' BY <1>7, <3>1, <3>2 DEF Is
    <3> QED BY <3>1, <3>2, <3>3
  <2>3. /\ txnResolution # 0 => /\ txnResolution \in Slots /\ Is(txnResolution)
                                /\ uncommittedResolution < txnResolution
        /\ uncommittedResolution # 0 => uncommittedResolution \in Slots /\ Is(uncommittedResolution)
        /\ Is(nextResolution) => Len(blocks) = 0
    BY PlaceTypes DEF CursorInv, LinkInv
  <2>4. /\ txnResolution' # 0 => Is(txnResolution)' /\ uncommittedResolution' < txnResolution'
        /\ uncommittedResolution' # 0 => Is(uncommittedResolution)'
        /\ Is(nextResolution)' => Len(blocks') = 0
    BY <1>1, <1>7, <2>3, SlotTypes DEF Is
  <2> QED BY <2>1, <2>2, <2>4 DEF LinkInv
<1>12. SweptInv'
  <2>1. ASSUME NEW q \in 1..(unwrittenResolution' - 1) PROVE FP(q)' <= Len(log')
    <3>1. q \in 1..(r - 1) \/ q = r BY <1>1, <1>2
    <3>2. q \in Slots
      <4>1. q \in Nat /\ q # 0 /\ q <= r BY <1>2, <3>1
      <4> QED BY <1>2, <4>1, SlotTypes
    <3>3. FP(q) <= Len(log) BY <1>5, <3>1 DEF CursorInv, SweptInv
    <3> QED BY <1>1, <1>7, <3>2, <3>3
  <2>2. ASSUME NEW q \in Slots, resolution'[q].released PROVE q < unwrittenResolution'
    <3>1. CASE q = r BY <1>1, <1>2, <3>1
    <3>2. CASE q # r
      <4>1. q < r BY <1>6, <2>2, <3>2 DEF CursorInv, SweptInv
      <4> QED BY <1>1, <1>2, <4>1, SlotTypes
    <3> QED BY <3>1, <3>2
  <2> QED BY <2>1, <2>2 DEF SweptInv
<1>13. AssignedInv'
  <2>1. \A q \in 1..(uncommittedResolution - 1) : q \in Slots BY SlotTypes, PlaceTypes
  <2> QED BY <1>1, <1>7, <2>1 DEF CursorInv, AssignedInv
<1>14. TurnInv' BY <1>1, <1>7, <1>8, PlaceTypes DEF CursorInv, TurnInv, Noting
<1> QED BY <1>9, <1>10, <1>11, <1>12, <1>13, <1>14 DEF CursorInv

\* Settling moves the cursors to the delimiter and to the one it is linked to:
\* everything before the delimiter has been published, so it has its promise.
LEMMA SettleCursorStep ==
    ASSUME IInv, CursorInv, IInv', SettleTxn
    PROVE  CursorInv'
<1> DEFINE t == txnResolution
           outcome(r) == IF TXN_FAILED \in TxnStatus THEN "rejected"
                         ELSE IF FAILED_CONDITION \in resolution[r].flag /\ Conditional(r) THEN "false"
                         ELSE "true"
<1>1. /\ call.pc = "settle" /\ t # 0 /\ uncommittedResolution' = t
      /\ txnResolution' = NextTxn(t)
      /\ UNCHANGED <<word, log, nextResolution, blocks, unwrittenResolution, writeBatchStart, call,
                     caller>>
      /\ resolution' = [r \in Slots |->
             IF r \in uncommittedResolution..(t - 1) /\ resolution[r].promise = r
             THEN [resolution[r] EXCEPT !.settled = outcome(r)] ELSE resolution[r]]
  BY DEF SettleTxn, TxnDone, reserveVars, batchVars, historyVars, NextTxn
<1>2. t \in Places /\ t \in Slots /\ Is(t) /\ FP(t) <= Frontier
  <2>1. t \in Slots /\ Is(t) BY <1>1, PlaceTypes DEF CursorInv, LinkInv
  <2> QED BY <2>1 DEF CursorInv, LinkInv
<1> HIDE DEF outcome
<1>3. \A q \in Slots : /\ FP(q)' = FP(q) /\ Is(q)' = Is(q) /\ NextTxn(q)' = NextTxn(q)
                       /\ resolution'[q].released = resolution[q].released
                       /\ resolution'[q].promise = resolution[q].promise
  <2> TAKE q \in Slots
  <2>1. resolution'[q] \in {resolution[q], [resolution[q] EXCEPT !.settled = outcome(q)]} BY <1>1
  <2>2. resolution[q] \in Resolution BY PlaceTypes
  <2> QED BY <2>1, <2>2 DEF Resolution, FP, Is, NextTxn
<1>4. Places' = Places /\ Frontier' = Frontier BY <1>1 DEF Places, Frontier
<1>5. ExecutedInv' BY <1>1, SameWords
<1>6. OrderInv' BY <1>3, <1>4, PlaceTypes DEF CursorInv, OrderInv
<1>7. LinkInv'
  <2>1. \A q \in Slots : Is(q)' => q \in Places' /\ FP(q)' <= Frontier' /\ ~resolution'[q].released
    BY <1>3, <1>4 DEF CursorInv, LinkInv
  <2>2. \A q \in Slots : NextTxn(q) # 0 => Is(NextTxn(q)) /\ q < NextTxn(q) /\ NextTxn(q) \in Slots
    BY SlotTypes, PlaceTypes DEF CursorInv, LinkInv
  <2>3. \A q \in Slots : NextTxn(q)' # 0 => Is(NextTxn(q))' /\ q < NextTxn(q)'
    BY <1>3, <2>2 DEF Is
  <2>4. txnResolution' # 0 => Is(txnResolution)' /\ uncommittedResolution' < txnResolution'
    BY <1>1, <1>2, <1>3, <2>2 DEF Is
  <2>5. Is(uncommittedResolution)' BY <1>1, <1>2, <1>3 DEF Is
  <2>6. Is(nextResolution)' => Len(blocks') = 0
    <3>1. Is(nextResolution)' = Is(nextResolution) BY <1>1, <1>3, SlotTypes DEF Is
    <3> QED BY <1>1, <3>1 DEF CursorInv, LinkInv
  <2> QED BY <2>1, <2>3, <2>4, <2>5, <2>6 DEF LinkInv
<1>8. SweptInv'
  <2>1. \A q \in 1..(unwrittenResolution - 1) : q \in Places BY SlotTypes DEF Places
  <2>2. \A q \in 1..(unwrittenResolution - 1) : q \in Slots /\ FP(q) <= Len(log)
    BY <2>1, PlaceTypes DEF CursorInv, SweptInv
  <2>3. \A q \in 1..(unwrittenResolution - 1) : FP(q)' <= Len(log') BY <1>1, <1>3, <2>2
  <2>4. \A q \in Slots : resolution'[q].released => q < unwrittenResolution'
    BY <1>1, <1>3 DEF CursorInv, SweptInv
  <2> QED BY <1>1, <2>3, <2>4 DEF SweptInv
<1>9. AssignedInv'
  <2> SUFFICES ASSUME NEW r \in 1..(t - 1) PROVE resolution'[r].promise # NoPromise
    BY <1>1 DEF AssignedInv
  <2>1. r \in Places /\ r \in Slots /\ r \in Nat /\ r < t /\ t \in Nat
    <3>1. t \in Nat /\ t <= nextResolution BY <1>2, PlaceTypes
    <3>2. r \in Nat /\ 1 <= r /\ r < t /\ r <= nextResolution BY <3>1, SlotTypes
    <3> QED BY <3>1, <3>2, PlaceTypes
  <2>2. r \in Reserved /\ Published(r)
    BY <1>2, <2>1, BeforePublished DEF CursorInv
  <2>3. \/ resolution[r].promise # NoPromise
        \/ call.res = r
        \/ caller.res = r /\ caller.pc = "note"
    BY <2>2 DEF IInv, PromiseInv
  <2>4. call.res # 0 => t <= call.res
    BY <1>1, <1>2 DEF CursorInv, TurnInv, Noting
  <2>5. caller.pc = "note" => call.res # 0 /\ call.res < caller.res
    BY DEF IInv, CallInv, CursorInv, TurnInv
  <2>6. call.res # r
    <3>1. call.res = r => call.res # 0 /\ ~(t <= call.res) BY <2>1
    <3> QED BY <2>4, <3>1
  <2>7. ~(caller.res = r /\ caller.pc = "note") BY <2>1, <2>4, <2>5, SlotTypes
  <2> QED BY <1>3, <2>1, <2>3, <2>6, <2>7
<1>10. TurnInv' BY <1>1, <1>3, <1>4, PlaceTypes DEF CursorInv, TurnInv, Noting
<1> QED BY <1>5, <1>6, <1>7, <1>8, <1>9, <1>10 DEF CursorInv

\* The steps of the running function.
LEMMA CallCursor ==
    ASSUME IInv, CursorInv, IInv', CallStep
    PROVE  CursorInv'
<1>1. CASE EndCallback
  <2>1. /\ UNCHANGED <<word, log, nextResolution, blocks, resolution, txnResolution,
                       unwrittenResolution, uncommittedResolution, writeBatchStart, caller>>
        /\ call.pc = "status" /\ call' = Idle
    BY <1>1 DEF EndCallback, reserveVars, batchVars
  <2>2. ExecutedInv' BY <2>1, SameWords
  <2>3. OrderInv' /\ LinkInv' /\ SweptInv' /\ AssignedInv'
    BY <2>1, SlotTypes, KeepList DEF FP, Is, NextTxn
  <2>4. caller.pc # "note" BY <2>1 DEF IInv, CallInv
  <2>5. TurnInv' BY <2>1, <2>4, IdleCall DEF TurnInv, Noting
  <2> QED BY <2>2, <2>3, <2>5 DEF CursorInv
<1> QED BY <1>1, PublishCursor, StoreCursor, CounterCursor, PromiseCursor, SweepCursor,
           SettleCursorStep DEF CallStep

-----------------------------------------------------------------------------
(* The tasks of the event loop. *)

\* A worker's callback may link the delimiter at the next free slot.
LEMMA TaskCursor ==
    ASSUME IInv, CursorInv, IInv',
           \/ RunEnqueuedCommit
           \/ \E w \in DOMAIN worker : CommitProgress(w) \/ CallbackProgress(w) \/ Complete(w)
    PROVE  CursorInv'
<1>1. CASE RunEnqueuedCommit
  <2>1. /\ UNCHANGED <<word, log, nextResolution, blocks, resolution, txnResolution,
                       unwrittenResolution, uncommittedResolution, writeBatchStart, call, caller>>
    BY <1>1 DEF RunEnqueuedCommit, reserveVars, batchVars, settleVars, historyVars
  <2>2. ExecutedInv' BY <2>1, SameWords
  <2>3. OrderInv' /\ LinkInv' /\ SweptInv' /\ AssignedInv'
    BY <2>1, SlotTypes, KeepList DEF FP, Is, NextTxn
  <2>4. TurnInv' BY <2>1 DEF CursorInv, TurnInv, Noting, Places, Is
  <2> QED BY <2>2, <2>3, <2>4 DEF CursorInv
<1>2. ASSUME NEW w \in DOMAIN worker, NEW status \in 0..3, Callback(w, status) PROVE CursorInv'
  <2> DEFINE r == nextResolution
  <2>1. /\ call.pc = "idle" /\ call' = CallbackCall(w, status)
        /\ UNCHANGED <<word, log, nextResolution, blocks, unwrittenResolution,
                       uncommittedResolution, writeBatchStart, caller>>
        /\ IF TXN_DELIMITER \in word[position] THEN QueueCommitResolution(nextResolution)
           ELSE UNCHANGED <<resolution, txnResolution>>
    BY <1>2 DEF Callback, EventLoopIdle, reserveVars, batchVars, historyVars
  <2>2. call'.pc = "sweep" /\ call'.res = 0
    <3>1. w \in Nat BY WorkerTypes DEF IInv
    <3> QED BY <1>2, <2>1, <3>1, CallbackCallRecord
  <2>3. ExecutedInv' BY <2>1, SameWords
  <2>4. OrderInv' /\ LinkInv' /\ SweptInv' /\ AssignedInv'
    <3>1. CASE TXN_DELIMITER \in word[position]
      <4>1. r \in Places /\ FP(r) = position /\ position \in Slots /\ OP \notin word[position]
        <5>1. position \in Slots /\ FP(r) = position BY DEF IInv, ResolutionInv, TypeOK, TypeReserve
        <5>2. r \in Places BY SlotTypes DEF Places
        <5>3. position >= position BY <5>1, SlotTypes
        <5>4. OP \notin word[position] BY <5>1, <5>3, Zenon DEF IInv, WordInv
        <5> QED BY <5>1, <5>2, <5>4
      <4>2. AtFrontier(position) BY <3>1, <4>1 DEF IInv, FrontierInv, OpenDelimiters
      <4>3. FP(r) = Frontier BY <4>1, <4>2 DEF AtFrontier, Frontier
      <4>4. Len(blocks) = 0
        <5>1. ~(position < position) BY <4>1, SlotTypes
        <5> QED BY <4>2, <5>1 DEF AtFrontier, Nest
      <4>5. \A q \in Places : Is(q) => q <= r BY PlaceTypes
      <4>6. QueueCommitResolution(r) BY <2>1, <3>1
      <4> QED BY <2>1, <4>1, <4>3, <4>4, <4>5, <4>6, LinkStep
    <3>2. CASE TXN_DELIMITER \notin word[position]
      <4>1. UNCHANGED <<resolution, txnResolution>> BY <2>1, <3>2
      <4> QED BY <2>1, <4>1, SlotTypes, KeepList DEF FP, Is, NextTxn
    <3> QED BY <3>1, <3>2
  <2>5. caller.pc # "note" BY <2>1 DEF IInv, CallInv
  <2>6. TurnInv' BY <2>1, <2>2, <2>5 DEF TurnInv, Noting
  <2> QED BY <2>3, <2>4, <2>6 DEF CursorInv
<1>3. ASSUME NEW w \in DOMAIN worker, CommitProgress(w) \/ CallbackProgress(w) \/ Complete(w)
      PROVE  \E status \in 0..3 : Callback(w, status)
  <2>1. CompletionStatus(w) \in 0..3 /\ ProgressCommitted \in 0..3 /\ 2 \in 0..3
    BY DEF CompletionStatus, ProgressCommitted
  <2> QED BY <1>3, <2>1 DEF CommitProgress, CallbackProgress, Complete
<1> QED BY <1>1, <1>2, <1>3

-----------------------------------------------------------------------------
(* The ends of blocks. *)

\* BLOCK_END at the next free slot: the placeholder moves on.
LEMMA FinishedPlace ==
    ASSUME IInv, CursorInv, NEW depth \in Nat, Len(blocks) > 0, FinishBatch(depth),
           UNCHANGED <<settleVars, startVars, worker, historyVars>>
    PROVE  /\ \A q \in Slots : /\ Is(q)' = Is(q) /\ NextTxn(q)' = NextTxn(q)
                               /\ resolution'[q].released = resolution[q].released
                               /\ resolution'[q].promise = resolution[q].promise
                               /\ resolution'[q].settled = resolution[q].settled
                               /\ resolution'[q].flag = resolution[q].flag
           /\ \A q \in Slots : q # nextResolution => FP(q)' = FP(q)
           /\ FP(nextResolution)' = position + 1 /\ ~Is(nextResolution)
           /\ \A s \in Slots : /\ OP \in word[s] => OP \in word'[s]
                               /\ FINISHED_OPERATION \in word'[s] => FINISHED_OPERATION \in word[s]
<1>1. PICK p \in Slots, n \in Slots : p = position /\ n = nextResolution
  BY DEF IInv, TypeOK, TypeReserve
<1>2. /\ resolution' = [resolution EXCEPT ![n].flagPosition = @ + 1]
      /\ nextResolution' = n
      /\ word' = [word EXCEPT ![p + 1] = {}, ![p] = IF depth = 0 THEN @ \cup {OP} ELSE {OP}]
  BY <1>1 DEF FinishBatch
<1> DEFINE e == [resolution[n] EXCEPT !.flagPosition = @ + 1]
<1>3. /\ e.flagPosition = p + 1 /\ e.isTxn = resolution[n].isTxn /\ e.nextTxn = resolution[n].nextTxn
      /\ e.released = resolution[n].released /\ e.promise = resolution[n].promise
      /\ e.settled = resolution[n].settled /\ e.flag = resolution[n].flag
  <2>1. resolution[n] \in Resolution BY DEF IInv, TypeOK, TypeReserve
  <2>2. resolution[n].flagPosition = p BY <1>1 DEF IInv, ResolutionInv, FP
  <2> QED BY <2>1, <2>2 DEF Resolution
<1>4. resolution' = [resolution EXCEPT ![n] = e] BY <1>2
<1> HIDE DEF e
<1>5. resolution'[n] = e /\ \A q \in Slots : q # n => resolution'[q] = resolution[q]
  <2>1. resolution \in [Slots -> Resolution] BY DEF IInv, TypeOK, TypeReserve
  <2> QED BY <1>4, <2>1
<1>6. \A q \in Slots : /\ Is(q)' = Is(q) /\ NextTxn(q)' = NextTxn(q)
                       /\ resolution'[q].released = resolution[q].released
                       /\ resolution'[q].promise = resolution[q].promise
                       /\ resolution'[q].settled = resolution[q].settled
                       /\ resolution'[q].flag = resolution[q].flag
  BY <1>3, <1>5 DEF Is, NextTxn
<1>7. (\A q \in Slots : q # n => FP(q)' = FP(q)) /\ resolution'[n].flagPosition = p + 1
  BY <1>3, <1>5 DEF FP
<1>8. FP(nextResolution)' = position + 1
  BY <1>1, <1>2, <1>7 DEF FP
<1>9. ~Is(n)
  <2>1. Len(blocks) # 0 BY SlotTypes
  <2> QED BY <1>1, <2>1 DEF CursorInv, LinkInv
<1>10. ASSUME NEW s \in Slots
       PROVE  /\ OP \in word[s] => OP \in word'[s]
              /\ FINISHED_OPERATION \in word'[s] => FINISHED_OPERATION \in word[s]
  <2>1. word \in [Slots -> SUBSET Bits] BY DEF IInv, TypeOK, TypeWord
  <2>2. OP \notin word[p] /\ (s = p + 1 => word[s] = {})
    <3>1. p \in Nat /\ p >= position /\ (s = p + 1 => s > position) BY <1>1, SlotTypes
    <3> QED BY <3>1, Zenon DEF IInv, WordInv
  <2>3. p # p + 1 BY <1>1, SlotTypes
  <2>4. CASE s = p + 1
    <3>1. word'[s] = {} BY <1>2, <2>1, <2>3, <2>4
    <3> QED BY <2>2, <2>4, <3>1
  <2>5. CASE s # p + 1 /\ s # p
    BY <1>2, <2>1, <2>5
  <2>6. CASE s = p
    <3>1. word'[s] = IF depth = 0 THEN word[p] \cup {OP} ELSE {OP}
      <4>1. [word EXCEPT ![p + 1] = {}][p] = word[p] BY <2>1, <2>3
      <4>2. word' = [word EXCEPT ![p + 1] = {}, ![p] = IF depth = 0 THEN word[p] \cup {OP} ELSE {OP}]
        BY <1>2, <4>1
      <4> QED BY <2>1, <2>6, <4>2
    <3>2. FINISHED_OPERATION # OP BY DEF FINISHED_OPERATION, OP
    <3> QED BY <2>2, <2>6, <3>1, <3>2
  <2> QED BY <2>4, <2>5, <2>6
<1> QED BY <1>1, <1>6, <1>7, <1>8, <1>9, <1>10

LEMMA FinishCursor ==
    ASSUME IInv, CursorInv, IInv', EndEventTurn \/ EndIfVersion
    PROVE  CursorInv'
<1>1. /\ call.pc = "idle" /\ Len(blocks) > 0 /\ batchDepth \in Nat
      /\ UNCHANGED <<settleVars, startVars, worker, historyVars, caller>>
  BY DEF EndEventTurn, EndIfVersion, EventLoopIdle, InUserBlock, IInv, TypeOK, TypeBatch, BatchInv
<1>2. PICK depth \in Nat : FinishBatch(depth)
  <2>1. CASE EndEventTurn
    BY <1>1, <2>1 DEF EndEventTurn, DepthAfterTurn, IInv, BatchInv
  <2>2. CASE EndIfVersion
    <3>1. batchDepth - 2 \in Nat
      BY <1>1, <2>2 DEF EndIfVersion, InUserBlock, IInv, BatchInv, TypeOK, TypeBatch
    <3> QED BY <1>1, <2>2, <3>1 DEF EndIfVersion
  <2> QED BY <2>1, <2>2
<1>0. PICK n \in Slots : n = nextResolution BY SlotTypes
<1>3. /\ nextResolution' = n /\ Len(blocks') = Len(blocks) - 1
      /\ UNCHANGED <<txnResolution, unwrittenResolution, uncommittedResolution, log>>
  BY <1>0, <1>1, <1>2, FinishBatchInv DEF settleVars, historyVars
<1>4. /\ \A q \in Slots : /\ Is(q)' = Is(q) /\ NextTxn(q)' = NextTxn(q)
                          /\ resolution'[q].released = resolution[q].released
                          /\ resolution'[q].promise = resolution[q].promise
      /\ \A q \in Slots : q # n => FP(q)' = FP(q)
      /\ FP(n)' = FP(n) + 1 /\ ~Is(n)
      /\ \A s \in Slots : /\ OP \in word[s] => OP \in word'[s]
                          /\ FINISHED_OPERATION \in word'[s] => FINISHED_OPERATION \in word[s]
  <2>1. FP(n) = position BY <1>0 DEF IInv, ResolutionInv
  <2>2. /\ FP(nextResolution)' = position + 1 /\ ~Is(nextResolution)
        /\ \A q \in Slots : q # nextResolution => FP(q)' = FP(q)
        /\ \A s \in Slots : /\ OP \in word[s] => OP \in word'[s]
                            /\ FINISHED_OPERATION \in word'[s] => FINISHED_OPERATION \in word[s]
    BY <1>1, <1>2, FinishedPlace
  <2>3. \A q \in Slots : /\ Is(q)' = Is(q) /\ NextTxn(q)' = NextTxn(q)
                         /\ resolution'[q].released = resolution[q].released
                         /\ resolution'[q].promise = resolution[q].promise
    BY <1>1, <1>2, FinishedPlace
  <2>4. FP(n)' = position + 1 BY <1>3, <2>2 DEF FP
  <2>5. FP(n)' = FP(n) + 1 /\ ~Is(n) BY <1>0, <2>1, <2>2, <2>4
  <2>6. \A q \in Slots : q # n => FP(q)' = FP(q) BY <1>0, <2>2
  <2> QED BY <2>2, <2>3, <2>5, <2>6
<1>5. n = nextResolution /\ n \in Nat /\ n \in Slots /\ Places' = Places
  BY <1>0, <1>3, SlotTypes DEF Places
<1>6. OrderInv'
  <2>1. \A r, q \in Places : r < q => FP(r) < FP(q) /\ FP(r) \in Nat /\ FP(q) \in Nat /\ r # n
                                      /\ r \in Slots /\ q \in Slots
    BY <1>5, SlotTypes, PlaceTypes DEF CursorInv, OrderInv
  <2>2. \A r, q \in Places : r < q => FP(r)' < FP(q)'
    BY <1>4, <2>1
  <2> QED BY <1>5, <2>2 DEF OrderInv
<1>7. ExecutedInv'
  <2>1. \A s \in Slots : /\ OP \in word[s] => OP \in word'[s]
                         /\ FINISHED_OPERATION \in word'[s] =>
                              FINISHED_OPERATION \in word[s] \/ s <= Len(log')
    BY <1>4
  <2> QED BY <1>3, <2>1, KeepExecuted DEF CursorInv
<1>8. LinkInv'
  <2>1. \A r \in Slots : Is(r) => r \in Places /\ FP(r) <= Frontier /\ ~resolution[r].released /\ r # n
    BY <1>4 DEF CursorInv, LinkInv
  <2>2. \A r \in Slots : NextTxn(r) # 0 => NextTxn(r) \in Slots /\ Is(NextTxn(r)) /\ r < NextTxn(r)
    BY SlotTypes, PlaceTypes DEF CursorInv, LinkInv
  <2>3. /\ txnResolution # 0 => /\ txnResolution \in Slots /\ Is(txnResolution)
                                /\ uncommittedResolution < txnResolution
        /\ uncommittedResolution # 0 => uncommittedResolution \in Slots /\ Is(uncommittedResolution)
    BY SlotTypes, PlaceTypes DEF CursorInv, LinkInv
  <2>4. \A r \in Slots : Is(r)' => r \in Places' /\ FP(r)' <= Frontier' /\ ~resolution'[r].released
    BY <1>3, <1>4, <1>5, <2>1 DEF Frontier
  <2>5. \A r \in Slots : NextTxn(r)' # 0 => Is(NextTxn(r))' /\ r < NextTxn(r)'
    BY <1>4, <2>2 DEF Is
  <2>6. /\ txnResolution' # 0 => Is(txnResolution)' /\ uncommittedResolution' < txnResolution'
        /\ uncommittedResolution' # 0 => Is(uncommittedResolution)'
        /\ ~Is(nextResolution)'
    BY <1>3, <1>4, <1>5, <2>3 DEF Is
  <2> QED BY <2>4, <2>5, <2>6 DEF LinkInv
<1>9. SweptInv'
  <2>1. \A r \in 1..(unwrittenResolution - 1) : r \in Slots /\ r # n /\ FP(r) <= Len(log)
    BY <1>5, SlotTypes, PlaceTypes DEF CursorInv, SweptInv
  <2>2. \A r \in 1..(unwrittenResolution - 1) : FP(r)' <= Len(log')
    BY <1>3, <1>4, <2>1
  <2> QED BY <1>3, <1>4, <2>2 DEF CursorInv, SweptInv
<1>10. AssignedInv'
  <2>1. \A r \in 1..(uncommittedResolution - 1) : r \in Slots
    <3>1. uncommittedResolution \in 0..(MaxSlots + 1) BY DEF IInv, TypeOK, TypeSettle
    <3> QED BY <3>1, SlotTypes
  <2>2. \A r \in 1..(uncommittedResolution - 1) : resolution[r].promise # NoPromise
    BY DEF CursorInv, AssignedInv
  <2> QED BY <2>2, <1>3, <1>4, <2>1 DEF AssignedInv
<1>11. TurnInv'
  <2>1. caller'.pc # "note" BY <1>1 DEF IInv, CallInv
  <2>2. call'.pc \in {"idle", "publish"}
    <3>1. writeBatchStart \in 0..(MaxSlots + 1) BY DEF IInv, TypeOK, TypeBatch
    <3>2. Len(blocks) > 0 => BlockResolution \in 0..(MaxSlots + 1)
      <4>1. Len(blocks) \in 1..Len(blocks) BY <1>1, SlotTypes
      <4>2. BlockResolution \in Reserved BY <4>1 DEF IInv, BatchInv, BlockResolution
      <4> QED BY <4>2, SlotTypes, PlaceTypes, SMTT(30)
    <3> QED BY <1>1, <3>1, <3>2, WriteCallRecord DEF EndEventTurn, EndIfVersion
  <2>3. Len(blocks') > 0 /\ writeBatchStart' # 0 => call'.pc = "idle"
    <3>1. CASE EndEventTurn
      <4>1. ~(Len(blocks) > 1)
        BY <3>1 DEF EndEventTurn, EventLoopIdle, InUserBlock
      <4> QED BY <1>1, <1>3, <4>1, SlotTypes
    <3>2. CASE EndIfVersion
      BY <1>1, <3>2 DEF EndIfVersion
    <3> QED BY <3>1, <3>2
  <2> QED BY <2>1, <2>2, <2>3 DEF TurnInv, Noting
<1> QED BY <1>6, <1>7, <1>8, <1>9, <1>10, <1>11 DEF CursorInv

-----------------------------------------------------------------------------
(* Reservations. *)

\* What a reservation leaves of the resolutions: the placeholder becomes the first
\* one reserved, and the ones after it are new.
LEMMA ReservedKeep ==
    ASSUME IInv, NEW kind \in Kinds, NEW opened \in Nat, WriteInstructions(kind, opened)
    PROVE  /\ \A q \in Slots : q <= nextResolution =>
                /\ FP(q)' = FP(q) /\ Is(q)' = Is(q) /\ NextTxn(q)' = NextTxn(q)
                /\ resolution'[q].released = resolution[q].released
                /\ resolution'[q].promise = resolution[q].promise
                /\ resolution'[q].settled = resolution[q].settled
                /\ resolution'[q].flag = resolution[q].flag
           /\ \A q \in Slots : q > nextResolution =>
                \/ /\ ~Is(q)' /\ NextTxn(q)' = 0 /\ ~resolution'[q].released
                   /\ resolution'[q].promise = NoPromise /\ resolution'[q].settled = "pending"
                \/ resolution'[q] = resolution[q]
<1> DEFINE called == IF kind = "CALL" THEN [resolution EXCEPT ![nextResolution].callbacks = InstrSlot]
                                      ELSE resolution
           own == IF OpensTurn THEN [called EXCEPT ![InstrRes] = NewResolution(InstrSlot)] ELSE called
<1>1. /\ InstrSlot + Len(Enclosing) + opened <= MaxSlots
      /\ resolution' = [own EXCEPT ![InstrRes + 1] = NewResolution(InstrSlot + 1)]
  BY DEF WriteInstructions
<1>2. PICK n \in Slots, m \in Slots, k \in Nat :
        /\ n = nextResolution /\ m = InstrRes /\ k = InstrSlot
        /\ (OpensTurn /\ m = n + 1) \/ (~OpensTurn /\ m = n)
  <2>1. /\ InstrSlot \in 1..MaxSlots /\ InstrRes \in 1..MaxSlots /\ nextResolution \in Slots
        /\ (OpensTurn /\ InstrRes = nextResolution + 1) \/ (~OpensTurn /\ InstrRes = nextResolution)
    BY <1>1, ReservedPlace
  <2>2. InstrSlot \in Nat /\ InstrRes \in Slots BY <2>1, SlotTypes
  <2> QED BY <2>1, <2>2
<1>3. n \in Nat /\ m \in Nat /\ n <= m /\ n # m + 1 BY <1>2, SlotTypes
<1>4. resolution \in [Slots -> Resolution] BY DEF IInv, TypeOK, TypeReserve
<1>5. \A s \in Nat : /\ NewResolution(s).isTxn = FALSE /\ NewResolution(s).nextTxn = 0
                     /\ NewResolution(s).released = FALSE /\ NewResolution(s).promise = NoPromise
                     /\ NewResolution(s).settled = "pending"
  BY DEF NewResolution
<1>6. /\ called \in [Slots -> Resolution]
      /\ \A q \in Slots : q # n => called[q] = resolution[q]
      /\ called[n].flagPosition = resolution[n].flagPosition
      /\ called[n].isTxn = resolution[n].isTxn /\ called[n].nextTxn = resolution[n].nextTxn
      /\ called[n].released = resolution[n].released /\ called[n].promise = resolution[n].promise
      /\ called[n].settled = resolution[n].settled /\ called[n].flag = resolution[n].flag
  <2> DEFINE e == [resolution[n] EXCEPT !.callbacks = k]
  <2>1. /\ e \in Resolution /\ e.flagPosition = resolution[n].flagPosition
        /\ e.isTxn = resolution[n].isTxn /\ e.nextTxn = resolution[n].nextTxn
        /\ e.released = resolution[n].released /\ e.promise = resolution[n].promise
        /\ e.settled = resolution[n].settled /\ e.flag = resolution[n].flag
    <3>1. resolution[n] \in Resolution BY <1>4
    <3>2. k \in 0..(MaxSlots + 1) BY <1>1, <1>2, ReservedPlace, SlotTypes
    <3> QED BY <3>1, <3>2 DEF Resolution
  <2>2. called = IF kind = "CALL" THEN [resolution EXCEPT ![n] = e] ELSE resolution
    BY <1>2
  <2> HIDE DEF e, called
  <2> QED BY <1>4, <2>1, <2>2
<1> HIDE DEF called
<1>7. /\ DOMAIN own = Slots
      /\ \A q \in Slots : (own[q] = called[q]) \/ (OpensTurn /\ q = m /\ own[q] = NewResolution(k))
  <2>1. CASE OpensTurn
    <3>1. own = [called EXCEPT ![m] = NewResolution(k)] BY <1>2, <2>1
    <3>2. DOMAIN called = Slots BY <1>6
    <3> HIDE DEF own
    <3> QED BY <2>1, <3>1, <3>2
  <2>2. CASE ~OpensTurn
    <3>1. own = called BY <2>2
    <3>2. DOMAIN called = Slots BY <1>6
    <3> HIDE DEF own
    <3> QED BY <3>1, <3>2
  <2> QED BY <2>1, <2>2
<1> HIDE DEF own
<1>8. \A q \in Slots : \/ resolution'[q] = called[q]
                       \/ OpensTurn /\ q = m /\ resolution'[q] = NewResolution(k)
                       \/ q = m + 1 /\ resolution'[q] = NewResolution(k + 1)
  BY <1>1, <1>2, <1>7
<1>9. ASSUME NEW q \in Slots, q <= nextResolution
      PROVE  /\ FP(q)' = FP(q) /\ Is(q)' = Is(q) /\ NextTxn(q)' = NextTxn(q)
             /\ resolution'[q].released = resolution[q].released
             /\ resolution'[q].promise = resolution[q].promise
             /\ resolution'[q].settled = resolution[q].settled
             /\ resolution'[q].flag = resolution[q].flag
  <2>1. q # m + 1 /\ (OpensTurn => q # m) BY <1>2, <1>3, <1>9, SlotTypes
  <2>2. resolution'[q] = called[q] BY <1>8, <2>1
  <2> QED BY <1>6, <2>2 DEF FP, Is, NextTxn
<1>10. ASSUME NEW q \in Slots, q > nextResolution
       PROVE  \/ /\ ~Is(q)' /\ NextTxn(q)' = 0 /\ ~resolution'[q].released
                 /\ resolution'[q].promise = NoPromise /\ resolution'[q].settled = "pending"
              \/ resolution'[q] = resolution[q]
  <2>1. q # n BY <1>2, <1>3, <1>10
  <2>2. k \in Nat /\ k + 1 \in Nat BY <1>2
  <2> QED BY <1>5, <1>6, <1>8, <2>1, <2>2 DEF Is, NextTxn
<1> QED BY <1>9, <1>10

\* The list after a reservation.
LEMMA ReserveList ==
    ASSUME IInv, CursorInv, IInv', NEW kind \in Kinds, NEW opened \in Nat,
           WriteInstructions(kind, opened)
    PROVE  OrderInv' /\ ExecutedInv' /\ LinkInv' /\ SweptInv' /\ AssignedInv'
<1>1. PICK n \in Slots, m \in Slots, p \in Slots, k \in Slots :
        /\ n = nextResolution /\ p = position /\ nextResolution' = m + 1
        /\ resolution'[n].flagPosition = p /\ resolution'[m].flagPosition = k
        /\ resolution'[m + 1].flagPosition = k + 1
        /\ (m = n + 1 /\ k = p + 1) \/ (m = n /\ k = p)
  <2>1. InstrSlot + Len(Enclosing) + opened <= MaxSlots BY DEF WriteInstructions
  <2>2. /\ position \in Slots /\ nextResolution \in Slots
        /\ InstrSlot \in 1..MaxSlots /\ InstrRes \in 1..MaxSlots
        /\ \/ InstrSlot = position + 1 /\ InstrRes = nextResolution + 1
           \/ InstrSlot = position /\ InstrRes = nextResolution
    BY <2>1, ReservedPlace
  <2>3. InstrSlot \in Slots /\ InstrRes \in Slots
    <3>1. \A i \in 1..MaxSlots : i \in Slots BY SlotTypes
    <3> QED BY <2>2, <3>1
  <2> QED BY <2>2, <2>3, ReservedRecords
<1>2. /\ UNCHANGED <<word, log, txnResolution, unwrittenResolution, uncommittedResolution>>
  BY DEF WriteInstructions, settleVars, historyVars
<1>3. /\ n \in Nat /\ m \in Nat /\ p \in Nat /\ k \in Nat /\ 1 <= n /\ n <= m /\ FP(n) = p
      /\ m + 1 \in Slots /\ n \in Places
      /\ \A r : r \in Places <=> r \in Nat /\ 1 <= r /\ r <= n
      /\ \A r : r \in Places' <=> r \in Nat /\ 1 <= r /\ r <= m + 1
      /\ \A r \in Places' : r \in Slots
  <2>1. n \in Nat /\ m \in Nat /\ p \in Nat /\ k \in Nat /\ 1 <= n /\ n <= m
    <3>1. n \in Nat /\ m \in Nat /\ p \in Nat /\ k \in Nat /\ 1 <= n BY SlotTypes
    <3>2. m = n + 1 \/ m = n BY <1>1
    <3> QED BY <3>1, <3>2
  <2>2. FP(n) = p BY <1>1 DEF IInv, ResolutionInv
  <2>3. \A r : r \in Places <=> r \in Nat /\ 1 <= r /\ r <= n BY <1>1, PlaceTypes
  <2>4. \A r : r \in Places' <=> r \in Nat /\ 1 <= r /\ r <= m + 1 BY <1>1, <2>1 DEF Places
  <2>5. m + 1 \in Slots BY <1>1 DEF IInv, TypeOK, TypeReserve
  <2>6. \A r \in Places' : r \in Slots BY <2>1, <2>4, <2>5, SlotTypes, SMTT(30)
  <2>7. n \in Places BY <2>1, <2>3
  <2> QED BY <2>1, <2>2, <2>3, <2>4, <2>5, <2>6, <2>7
<1>4. \A q \in Slots : q <= n =>
        /\ FP(q)' = FP(q) /\ Is(q)' = Is(q) /\ NextTxn(q)' = NextTxn(q)
        /\ resolution'[q].released = resolution[q].released
        /\ resolution'[q].promise = resolution[q].promise
  BY <1>1, ReservedKeep
<1>5. \A q \in Slots : q > n =>
        \/ ~Is(q)' /\ NextTxn(q)' = 0 /\ ~resolution'[q].released
        \/ resolution'[q] = resolution[q]
  BY <1>1, ReservedKeep
<1>6. OrderInv'
  <2>1. ASSUME NEW r \in Places', NEW q \in Places', r < q PROVE FP(r)' < FP(q)'
    <3>1. r \in Nat /\ q \in Nat /\ r \in Slots /\ q \in Slots BY <1>3
    <3>2. \A i \in Places : FP(i) \in Nat /\ FP(i)' = FP(i) /\ FP(i) <= p
      <4> TAKE i \in Places
      <4>1. i \in Slots /\ i <= n /\ i \in Nat /\ FP(i) \in Nat BY <1>3, PlaceTypes
      <4>2. n \in Places BY <1>3
      <4>3. i < n => FP(i) < FP(n) BY <4>2 DEF CursorInv, OrderInv
      <4>4. FP(i) <= p
        <5>1. CASE i = n BY <5>1, <1>3
        <5>2. CASE i # n
          <6>1. i < n BY <5>2, <4>1, <1>3
          <6> QED BY <6>1, <4>1, <4>3, <1>3
        <5> QED BY <5>1, <5>2
      <4> QED BY <4>1, <4>4, <1>4
    <3>3. FP(m)' = k /\ FP(m + 1)' = k + 1 BY <1>1 DEF FP
    <3>4. CASE q <= n
      <4>1. r \in Places /\ q \in Places BY <2>1, <3>1, <3>4, <1>3
      <4>2. FP(r) < FP(q) BY <4>1, <2>1 DEF CursorInv, OrderInv
      <4> QED BY <4>1, <4>2, <3>2
    <3>5. CASE q > n
      <4>1. q = m \/ q = m + 1 BY <1>1, <1>3, <3>1, <3>5
      <4>2. FP(q)' = IF q = m THEN k ELSE k + 1 BY <4>1, <3>3
      <4>3. CASE r <= n
        <5>1. r \in Places BY <4>3, <3>1, <1>3
        <5>2. FP(q)' > p BY <1>1, <1>3, <3>1, <3>5, <4>1, <4>2
        <5>3. FP(r)' <= p /\ FP(r)' \in Nat BY <5>1, <3>2
        <5>4. FP(q)' \in Nat BY <4>2, <1>3
        <5> QED BY <5>2, <5>3, <5>4, <1>3
      <4>4. CASE r > n
        <5>1. r = m /\ q = m + 1 BY <1>1, <1>3, <2>1, <3>1, <4>1, <4>4
        <5> QED BY <5>1, <3>3, <1>3
      <4> QED BY <4>3, <4>4, <3>1, <1>3
    <3> QED BY <3>4, <3>5, <3>1, <1>3
  <2> QED BY <2>1 DEF OrderInv
<1>7. ExecutedInv'
  BY <1>2, SameWords
<1>8. \A r \in Slots : Is(r)' => Is(r) /\ r <= n
  <2> SUFFICES ASSUME NEW r \in Slots, Is(r)' PROVE Is(r) /\ r <= n
    OBVIOUS
  <2>1. r \in Nat BY SlotTypes
  <2>2. CASE r <= n BY <1>4, <2>2
  <2>3. CASE r > n
    <3>1. Is(r) BY <1>5, <2>3 DEF Is
    <3>2. r \in Places BY <3>1 DEF CursorInv, LinkInv
    <3> QED BY <1>3, <3>1, <3>2
  <2> QED BY <1>3, <2>1, <2>2, <2>3
<1>9. LinkInv'
  <2>1. \A r \in Slots : Is(r) => r \in Places /\ FP(r) <= Frontier /\ ~resolution[r].released
    BY DEF CursorInv, LinkInv
  <2>2. \A r \in Slots : Is(r)' => r \in Places' /\ FP(r)' <= Frontier' /\ ~resolution'[r].released
    <3> SUFFICES ASSUME NEW r \in Slots, Is(r)'
                 PROVE  r \in Places' /\ FP(r)' <= Frontier' /\ ~resolution'[r].released
      OBVIOUS
    <3>1. Is(r) /\ r <= n BY <1>8
    <3>2. FP(r)' = FP(r) /\ resolution'[r].released = resolution[r].released BY <1>4, <3>1
    <3>3. Frontier' = Frontier BY <1>2 DEF Frontier
    <3>4. r \in Places' BY <2>1, <3>1, <1>3
    <3> QED BY <2>1, <3>1, <3>2, <3>3, <3>4
  <2>3. \A r \in Slots : NextTxn(r) # 0 =>
          /\ NextTxn(r) \in Slots /\ Is(NextTxn(r)) /\ r < NextTxn(r) /\ NextTxn(r) <= n
    BY <1>3, SlotTypes, PlaceTypes DEF CursorInv, LinkInv
  <2>4. \A r \in Slots : NextTxn(r)' # 0 => Is(NextTxn(r))' /\ r < NextTxn(r)'
    <3> SUFFICES ASSUME NEW r \in Slots, NextTxn(r)' # 0 PROVE Is(NextTxn(r))' /\ r < NextTxn(r)'
      OBVIOUS
    <3>1. NextTxn(r)' = NextTxn(r)
      <4>1. r \in Nat BY SlotTypes
      <4>2. CASE r <= n BY <1>4, <4>2
      <4>3. CASE r > n BY <1>5, <4>3 DEF NextTxn
      <4> QED BY <1>3, <4>1, <4>2, <4>3
    <3>2. PICK t \in Slots : t = NextTxn(r) /\ Is(t) /\ r < t /\ t <= n BY <2>3, <3>1
    <3>3. Is(t)' BY <1>4, <3>2
    <3> QED BY <3>1, <3>2, <3>3 DEF Is
  <2>5. /\ txnResolution # 0 => /\ txnResolution \in Slots /\ Is(txnResolution) /\ txnResolution <= n
                                /\ uncommittedResolution < txnResolution
        /\ uncommittedResolution # 0 => /\ uncommittedResolution \in Slots /\ Is(uncommittedResolution)
                                        /\ uncommittedResolution <= n
    BY <1>3, SlotTypes, PlaceTypes DEF CursorInv, LinkInv
  <2>6. /\ txnResolution' # 0 => Is(txnResolution)' /\ uncommittedResolution' < txnResolution'
        /\ uncommittedResolution' # 0 => Is(uncommittedResolution)'
    BY <1>2, <1>4, <2>5 DEF Is
  <2>7. ~Is(nextResolution)'
    <3>1. m + 1 \in Slots /\ ~(m + 1 <= n) BY <1>3
    <3>2. ~Is(m + 1)' BY <3>1, <1>8
    <3> QED BY <3>2, <1>1 DEF Is
  <2> QED BY <2>2, <2>4, <2>6, <2>7 DEF LinkInv
<1>10. SweptInv'
  <2>1. \A r \in 1..(unwrittenResolution - 1) : r \in Slots /\ r <= n /\ FP(r) <= Len(log)
    <3>1. unwrittenResolution \in Nat /\ unwrittenResolution <= n BY <1>1, SlotTypes
    <3>2. \A r \in 1..(unwrittenResolution - 1) : r \in Places' /\ r <= n BY <1>3, <3>1
    <3>3. \A r \in 1..(unwrittenResolution - 1) : FP(r) <= Len(log) BY DEF CursorInv, SweptInv
    <3> QED BY <1>3, <3>2, <3>3
  <2>2. \A r \in 1..(unwrittenResolution - 1) : FP(r)' <= Len(log')
    BY <1>2, <1>4, <2>1
  <2>3. ASSUME NEW r \in Slots, resolution'[r].released PROVE r < unwrittenResolution'
    <3>1. resolution[r].released
      <4>1. r \in Nat BY SlotTypes
      <4>2. CASE r <= n BY <1>4, <4>2, <2>3
      <4>3. CASE r > n
        BY <1>5, <4>3, <2>3
      <4> QED BY <1>3, <4>1, <4>2, <4>3
    <3> QED BY <3>1, <1>2 DEF CursorInv, SweptInv
  <2> QED BY <1>2, <2>2, <2>3 DEF SweptInv
<1>11. AssignedInv'
  <2>1. \A r \in 1..(uncommittedResolution - 1) : r \in Slots /\ r <= n
    <3>1. uncommittedResolution # 0 => uncommittedResolution <= n
      BY <1>3, SlotTypes, PlaceTypes DEF CursorInv, LinkInv
    <3>2. uncommittedResolution \in Nat BY SlotTypes
    <3>3. \A r \in 1..(uncommittedResolution - 1) : r \in Places' /\ r <= n BY <1>3, <3>1, <3>2
    <3> QED BY <1>3, <3>3
  <2>2. \A r \in 1..(uncommittedResolution - 1) : resolution[r].promise # NoPromise
    BY DEF CursorInv, AssignedInv
  <2> QED BY <1>2, <1>4, <2>1, <2>2 DEF AssignedInv
<1> QED BY <1>6, <1>7, <1>9, <1>10, <1>11

\* put, remove, transactionAsync, batch and ifVersion.
LEMMA ReserveCursor ==
    ASSUME IInv, CursorInv, IInv', NEW kind \in Operations, Write(kind) \/ IfVersion(kind)
    PROVE  CursorInv'
<1>1. PICK opened \in {0, 1} : /\ kind \in Kinds /\ WriteInstructions(kind, opened)
                               /\ IfVersion(kind) => opened = 1
  BY DEF Write, IfVersion, Kinds
<1>2. opened \in Nat BY <1>1
<1>3. OrderInv' /\ ExecutedInv' /\ LinkInv' /\ SweptInv' /\ AssignedInv'
  BY <1>1, <1>2, ReserveList
<1>4. /\ InstrSlot + Len(Enclosing) + opened <= MaxSlots /\ call.pc = "idle" /\ UNCHANGED caller
  BY <1>1 DEF WriteInstructions
<1>5. /\ nextResolution \in Nat /\ Len(Enclosing) \in Nat /\ (TurnDepth = 0 <=> Len(Enclosing) = 0)
      /\ \/ OpensTurn /\ InstrRes = nextResolution + 1
         \/ ~OpensTurn /\ InstrRes = nextResolution /\ Enclosing = blocks
      /\ InstrRes \in 0..(MaxSlots + 1) /\ TurnDepth \in Nat
  <2>1. /\ Len(Enclosing) \in Nat /\ (TurnDepth = 0 <=> Len(Enclosing) = 0)
        /\ \/ OpensTurn /\ InstrRes = nextResolution + 1
           \/ ~OpensTurn /\ InstrRes = nextResolution /\ Enclosing = blocks
        /\ InstrRes \in 1..MaxSlots /\ TurnDepth \in Nat
    BY <1>2, <1>4, ReservedPlace
  <2>2. \A i \in 1..MaxSlots : i \in 0..(MaxSlots + 1) BY SlotTypes
  <2> QED BY <2>1, <2>2, SlotTypes
<1>6. caller'.pc # "note" BY <1>4 DEF IInv, CallInv
<1>7. call' = WriteCall(InstrRes) \/ call' = call BY DEF Write, IfVersion
<1>8. call'.pc \in {"idle", "publish"} /\ (call'.pc = "publish" => call'.res = InstrRes)
  BY <1>4, <1>5, <1>7, WriteCallRecord
<1>9. ASSUME Len(blocks') > 0, writeBatchStart' # 0, call'.pc = "publish"
      PROVE  writeBatchStart' < call'.res
  <2>1. /\ writeBatchStart' = IF OpensTurn THEN nextResolution ELSE writeBatchStart
        /\ Len(Enclosing) > 0
    <3>1. CASE Write(kind) BY <1>9, <3>1 DEF Write
    <3>2. CASE IfVersion(kind)
      <4>1. TurnDepth + 2 > 2 BY <1>4, <1>9, <3>2 DEF IfVersion
      <4>2. TurnDepth # 0 BY <1>5, <4>1
      <4>3. Len(Enclosing) > 0 BY <1>5, <4>2
      <4> QED BY <3>2, <4>1, <4>3 DEF IfVersion
    <3> QED BY <3>1, <3>2
  <2>2. CASE OpensTurn BY <1>5, <1>8, <1>9, <2>1, <2>2
  <2>3. CASE ~OpensTurn
    <3>1. writeBatchStart # 0 /\ Len(blocks) > 0 /\ writeBatchStart' = writeBatchStart
      BY <1>5, <1>9, <2>1, <2>3
    <3>2. writeBatchStart \in Reserved BY <3>1, Zenon DEF IInv, DeferredInv
    <3>3. writeBatchStart < nextResolution BY <3>2, PlaceTypes
    <3> QED BY <1>5, <1>8, <1>9, <2>3, <3>1, <3>3
  <2> QED BY <2>2, <2>3
<1>10. TurnInv'
  <2>1. call'.pc \in {"publish", "store"} => call'.pc = "publish" BY <1>8
  <2>2. ~Noting' BY <1>8 DEF Noting
  <2> QED BY <1>6, <1>9, <2>1, <2>2 DEF TurnInv
<1> QED BY <1>3, <1>10 DEF CursorInv

-----------------------------------------------------------------------------
(* The theorems. *)

LEMMA InitCursor == Init => CursorInv
<1> SUFFICES ASSUME Init PROVE CursorInv
  OBVIOUS
<1>1. /\ nextResolution = 1 /\ log = <<>> /\ blocks = <<>> /\ call = Idle /\ caller = Idle
      /\ txnResolution = 0 /\ uncommittedResolution = 0 /\ unwrittenResolution = 1
  BY DEF Init
<1>2. \A r \in Slots : resolution[r] = NewResolution(IF r = 1 THEN 1 ELSE 0) BY DEF Init
<1>3. \A r \in Slots : ~Is(r) /\ NextTxn(r) = 0 /\ ~resolution[r].released
  <2>1. \A s : /\ NewResolution(s).isTxn = FALSE /\ NewResolution(s).nextTxn = 0
               /\ NewResolution(s).released = FALSE
    BY DEF NewResolution
  <2> TAKE r \in Slots
  <2>2. PICK s : resolution[r] = NewResolution(s) BY <1>2
  <2> QED BY <2>1, <2>2 DEF Is, NextTxn
<1>4. 1 \in Slots BY BoundsAssumption DEF Slots
<1>5. OrderInv BY <1>1 DEF OrderInv, Places
<1>6. ExecutedInv
  <2>1. Len(log) = 0 BY <1>1
  <2>2. \A s \in Slots : word[s] = IF s = 1 THEN {TXN_DELIMITER, TXN_COMMITTED} ELSE {} BY DEF Init
  <2>3. \A s \in Slots : FINISHED_OPERATION \notin word[s]
    BY <2>2 DEF FINISHED_OPERATION, TXN_DELIMITER, TXN_COMMITTED
  <2> QED BY <2>1, <2>3 DEF ExecutedInv, RunInv, FinishInv
<1>7. LinkInv BY <1>1, <1>3, <1>4 DEF LinkInv
<1>8. SweptInv BY <1>1, <1>3 DEF SweptInv
<1>9. TurnInv BY <1>1, IdleCall DEF TurnInv, Noting
<1>10. AssignedInv BY <1>1 DEF AssignedInv
<1> QED BY <1>5, <1>6, <1>7, <1>8, <1>9, <1>10 DEF CursorInv

LEMMA NextCursor == IInv /\ CursorInv /\ IInv' /\ [Next]_vars => CursorInv'
<1> SUFFICES ASSUME IInv, CursorInv, IInv', [Next]_vars PROVE CursorInv'
  OBVIOUS
<1>1. ASSUME NEW kind \in Operations, Write(kind) \/ IfVersion(kind) PROVE CursorInv'
  BY <1>1, ReserveCursor
<1>2. CASE EndEventTurn \/ EndIfVersion
  BY <1>2, FinishCursor
<1>3. CASE CallStep
  BY <1>3, CallCursor
<1>4. CASE RunEnqueuedCommit
  BY <1>4, TaskCursor
<1>5. ASSUME NEW w \in DOMAIN worker,
             WorkerStep(w) \/ CommitProgress(w) \/ CallbackProgress(w) \/ Complete(w)
      PROVE  CursorInv'
  BY <1>5, WorkerCursor, TaskCursor
<1>6. CASE UNCHANGED vars
  <2>1. UNCHANGED <<word, log, nextResolution, blocks, resolution, txnResolution,
                    unwrittenResolution, uncommittedResolution, writeBatchStart, call, caller>>
    BY <1>6 DEF vars, jsVars, reserveVars, batchVars, settleVars, historyVars
  <2>2. ExecutedInv' BY <2>1, SameWords
  <2>3. OrderInv' /\ LinkInv' /\ SweptInv' /\ AssignedInv'
    BY <2>1, SlotTypes, KeepList DEF FP, Is, NextTxn
  <2>4. TurnInv' BY <2>1 DEF CursorInv, TurnInv, Noting, Places, Is
  <2> QED BY <2>2, <2>3, <2>4 DEF CursorInv
<1> QED BY <1>1, <1>2, <1>3, <1>4, <1>5, <1>6 DEF Next

(* What is known of the cursors always holds: only a delimiter at which the  *)
(* execution stopped is linked, links lead ahead of everything settled, and  *)
(* a running closure is never behind a linked delimiter.                     *)
THEOREM CursorCorrect == Spec => []CursorInv
<1>1. Init => CursorInv BY InitCursor
<1>2. IInv /\ CursorInv /\ IInv' /\ [Next]_vars => CursorInv' BY NextCursor
<1> QED BY <1>1, <1>2, InvariantCorrect, PTL DEF Spec

(* resolveWrites never reads the delimiter of a resolution it let go, and    *)
(* passes by nothing whose promise was not assigned, even when a link of the *)
(* list of delimiters was overwritten (write.js resolveWrites).              *)
THEOREM SettleCursorCorrect == Spec => []SettleCursor
<1>1. ASSUME IInv, CursorInv PROVE SettleCursor
  <2>1. txnResolution # 0 => ~resolution[txnResolution].released /\ uncommittedResolution < txnResolution
    BY <1>1, PlaceTypes DEF CursorInv, LinkInv
  <2> QED BY <1>1, <2>1 DEF CursorInv, AssignedInv, SettleCursor
<1> QED BY <1>1, InvariantCorrect, CursorCorrect, PTL

-----------------------------------------------------------------------------
(* How transactions end, and what the words say of it, relative to IInv and  *)
(* CursorInv.                                                                *)

\* The transactions that were closed, 0 for the state in which the store was opened,
\* and the slots at which they were.
ClosedPc == {"commit", "report", "sync", "done", "gone"}
Ended == {0} \cup {w \in DOMAIN worker : worker[w].pc \in ClosedPc}
End(v) == IF v = 0 THEN 1 ELSE worker[v].instructions
Closed(s) == \E v \in Ended : End(v) = s

\* Transactions follow one another, and each executes what lies between the slot
\* at which the last one was closed and the slot at which it is closed itself.
LastInv == \A v \in DOMAIN worker : v \in Ended \/ v = Len(worker)
EndInv == \A v \in Ended : End(v) <= Frontier
StrictInv == \A v, w \in Ended : v < w => End(v) < End(w)
SpanInv == \A s \in 1..Len(log) :
    /\ txnOf[s] \in DOMAIN worker
    /\ \A v \in Ended : txnOf[s] <= v <=> s < End(v)
TxnInv == LastInv /\ EndInv /\ StrictInv /\ SpanInv

\* How they end.
Failed(v) == worker[v].outcome = "failed"
Acknowledged(v) ==
    worker[v].outcome = "ok" /\ (~SeparateFlushed /\ ~SyncCanFail => worker[v].durable)
OutcomeInv ==
    \A w \in DOMAIN worker :
        /\ worker[w].pc \notin ClosedPc \/ worker[w].pc = "commit" => worker[w].outcome = "none"
        /\ worker[w].pc = "report" =>
             Failed(w) \/ (worker[w].outcome = "ok" /\ (~OverlappingSync => worker[w].durable))
        /\ worker[w].pc = "sync" => worker[w].outcome = "ok"

\* The open delimiters are the slots of closed transactions nobody published into.
OpenInv == \A s \in Slots : OP \notin word[s] => (TXN_DELIMITER \in word[s] <=> Closed(s))

\* A word says how a transaction ended only where it was closed.
SaidDone(s) == \E v \in Ended : End(v) = s /\ (v = 0 \/ Acknowledged(v))
SaidFailed(s) == \E v \in Ended : v # 0 /\ End(v) = s /\ Failed(v)
MarkInv == \A s \in Slots : /\ TXN_COMMITTED \in word[s] => SaidDone(s)
                            /\ TXN_FAILED \in word[s] => SaidFailed(s)
LoadedInv == \A w \in DOMAIN worker : worker[w].pc = "store" =>
    /\ TXN_COMMITTED \in worker[w].loaded => SaidDone(worker[w].pos)
    /\ TXN_FAILED \in worker[w].loaded => SaidFailed(worker[w].pos)
    /\ FINISHED_OPERATION \in worker[w].loaded /\ txnOf[worker[w].pos] = w
    /\ FAILED_CONDITION \in worker[w].loaded <=> ~result[worker[w].pos]

\* It says of an executed instruction what happened.
ToldInv == \A s \in Slots :
    /\ FINISHED_OPERATION \in word[s] => (FAILED_CONDITION \in word[s] <=> ~result[s])
    /\ FAILED_CONDITION \in word[s] => FINISHED_OPERATION \in word[s]
FinishedInv == \A s \in 1..Len(log) :
    \/ FINISHED_OPERATION \in word[s] \/ instr[s].kind = "END"
    \/ \E w \in DOMAIN worker : worker[w].pc = "store" /\ worker[w].pos = s

HistoryInv ==
    TxnInv /\ OutcomeInv /\ OpenInv /\ MarkInv /\ LoadedInv /\ ToldInv /\ FinishedInv

-----------------------------------------------------------------------------
(* Workers, and the slots at which they closed their transactions. *)

\* The domain of a sequence.
LEMMA SeqDomain ==
    ASSUME NEW S, NEW seq \in Seq(S)
    PROVE  /\ Len(seq) \in Nat /\ DOMAIN seq = 1..Len(seq)
           /\ \A v : v \in DOMAIN seq <=> v \in Nat /\ 1 <= v /\ v <= Len(seq)
OBVIOUS

\* Sequences with the same domain have the same length.
LEMMA SameLength ==
    ASSUME NEW S, NEW seq \in Seq(S), NEW other \in Seq(S), DOMAIN seq = DOMAIN other
    PROVE  Len(seq) = Len(other)
<1>1. PICK n \in Nat, m \in Nat : n = Len(seq) /\ m = Len(other) BY SeqDomain
<1>2. \A v : (v \in Nat /\ 1 <= v /\ v <= n) <=> (v \in Nat /\ 1 <= v /\ v <= m)
  BY <1>1, SeqDomain
<1>3. CASE n < m
  <2>1. (m \in Nat /\ 1 <= m /\ m <= n) <=> (m \in Nat /\ 1 <= m /\ m <= m) BY <1>2, Zenon
  <2> QED BY <1>3, <2>1
<1>4. CASE m < n
  <2>1. (n \in Nat /\ 1 <= n /\ n <= n) <=> (n \in Nat /\ 1 <= n /\ n <= m) BY <1>2, Zenon
  <2> QED BY <1>4, <2>1
<1> QED BY <1>1, <1>3, <1>4

\* The workers are numbered as they were started; who has not closed its transaction
\* is active.
LEMMA EndTypes ==
    ASSUME IInv
    PROVE  /\ Len(worker) \in Nat /\ DOMAIN worker = 1..Len(worker) /\ 0 \in Ended
           /\ \A v : v \in DOMAIN worker <=> v \in Nat /\ 1 <= v /\ v <= Len(worker)
           /\ \A v \in DOMAIN worker : /\ worker[v] \in Worker
                                       /\ v \in Ended <=> worker[v].pc \in ClosedPc
                                       /\ v \notin Ended <=> v \in ActiveWorkers
           /\ \A v \in Ended : /\ v \in Nat /\ End(v) \in Slots /\ End(v) \in Nat /\ v <= Len(worker)
                               /\ v # 0 => v \in DOMAIN worker /\ End(v) = worker[v].instructions
           /\ End(0) = 1
<1>1. worker \in Seq(Worker) BY DEF IInv, TypeOK, TypeWorker
<1>2. Len(worker) \in Nat /\ DOMAIN worker = 1..Len(worker) /\ \A v \in DOMAIN worker : worker[v] \in Worker
  BY <1>1
<1>3. \A v : v \in DOMAIN worker <=> v \in Nat /\ 1 <= v /\ v <= Len(worker) BY <1>2
<1>4. 0 \in Ended /\ 0 \notin DOMAIN worker BY <1>3 DEF Ended
<1>5. \A v \in DOMAIN worker : v \in Ended <=> worker[v].pc \in ClosedPc
  BY <1>4 DEF Ended
<1>6. \A v \in DOMAIN worker : v \notin Ended <=> v \in ActiveWorkers
  <2> TAKE v \in DOMAIN worker
  <2>1. worker[v].pc \in {"queued", "run", "store", "wait", "commit", "report", "sync", "done", "gone"}
    BY <1>2 DEF Worker
  <2> QED BY <1>5, <2>1 DEF ActiveWorkers, ClosedPc
<1>7. End(0) = 1 /\ 1 \in Slots BY BoundsAssumption DEF End, Slots
<1>8. ASSUME NEW v \in Ended
      PROVE  /\ v \in Nat /\ End(v) \in Slots /\ End(v) \in Nat /\ v <= Len(worker)
             /\ v # 0 => v \in DOMAIN worker /\ End(v) = worker[v].instructions
  <2>1. v = 0 \/ v \in DOMAIN worker BY DEF Ended
  <2>2. CASE v = 0 BY <1>2, <1>7, <2>2
  <2>3. CASE v \in DOMAIN worker
    <3>1. v \in Nat /\ v # 0 /\ v <= Len(worker) BY <1>3, <2>3
    <3>2. worker[v].instructions \in Slots BY <1>2, <2>3 DEF Worker
    <3> QED BY <2>3, <3>1, <3>2, SlotTypes DEF End
  <2> QED BY <2>1, <2>2, <2>3
<1> QED BY <1>2, <1>3, <1>4, <1>5, <1>6, <1>7, <1>8

\* The resolutions of reserved slots.
LEMMA ReservedTypes ==
    ASSUME IInv
    PROVE  \A r \in Reserved : /\ r \in Places /\ r \in Slots /\ r \in Nat /\ r # 0 /\ r < nextResolution
                              /\ FP(r) \in Slots /\ FP(r) \in Nat /\ FP(r) < position
<1> TAKE r \in Reserved
<1>1. r \in Nat /\ 1 <= r /\ r < nextResolution BY PlaceTypes
<1>2. r <= nextResolution /\ r # 0 BY <1>1, SlotTypes
<1>3. r \in Places BY <1>1, <1>2, PlaceTypes
<1>4. FP(r) \in 1..(position - 1) /\ position \in Slots BY DEF IInv, ResolutionInv, TypeOK, TypeReserve
<1>5. FP(r) < position BY <1>4, SlotTypes
<1> QED BY <1>1, <1>2, <1>3, <1>5, PlaceTypes, SlotTypes

\* A closed slot nobody published into is the open delimiter at the frontier.
LEMMA ClosedOpen ==
    ASSUME IInv, OpenInv, NEW s \in Slots, Closed(s), OP \notin word[s]
    PROVE  s \in OpenDelimiters /\ s = Frontier /\ Nest(s) = 0 /\ TXN_DELIMITER \in word[s]
<1>1. TXN_DELIMITER \in word[s] BY DEF OpenInv
<1>2. s \in OpenDelimiters BY <1>1 DEF OpenDelimiters
<1> QED BY <1>1, <1>2 DEF IInv, FrontierInv, AtFrontier, Frontier

\* Nothing executed, and nothing published, is ahead of the last closed slot.
LEMMA ClosedTypes ==
    ASSUME IInv, EndInv, NEW s \in Slots, Closed(s)
    PROVE  s <= Frontier
BY DEF EndInv, Closed

\* What is said of the end of a slot holds of a closed slot.
LEMMA SaidClosed ==
    ASSUME NEW s
    PROVE  SaidDone(s) \/ SaidFailed(s) => Closed(s)
BY DEF SaidDone, SaidFailed, Closed

-----------------------------------------------------------------------------
(* Steps that close no transaction. *)

\* The transactions that were closed, and where.
EndsGrow == \A v \in Ended : v \in Ended' /\ End(v)' = End(v)
EndsKept == EndsGrow /\ Ended' = Ended

\* How they ended: failures stay, what was acknowledged stays so.
OutcomesKept ==
    \A v \in DOMAIN worker : /\ Failed(v) => Failed(v)'
                             /\ Acknowledged(v) => Acknowledged(v)'

\* Workers that close nothing keep the closed slots.
LEMMA KeepEnds ==
    ASSUME IInv, IInv', \A v \in DOMAIN worker : v \in DOMAIN worker',
           \A v \in DOMAIN worker : /\ worker'[v].pc \in ClosedPc <=> worker[v].pc \in ClosedPc
                                    /\ worker'[v].instructions = worker[v].instructions,
           \A v \in DOMAIN worker' : v \in DOMAIN worker \/ worker'[v].pc \notin ClosedPc
    PROVE  EndsKept /\ \A s : Closed(s)' <=> Closed(s)
<1>1. Ended' = Ended
  <2>1. \A v : v \in Ended <=> v = 0 \/ (v \in DOMAIN worker /\ worker[v].pc \in ClosedPc)
    BY DEF Ended
  <2>2. \A v : v \in Ended' <=> v = 0 \/ (v \in DOMAIN worker' /\ worker'[v].pc \in ClosedPc)
    BY DEF Ended
  <2>3. \A v : v \in Ended' <=> v \in Ended BY <2>1, <2>2
  <2> QED BY <2>3
<1>2. \A v \in Ended : End(v)' = End(v)
  <2> TAKE v \in Ended
  <2>1. v = 0 \/ v \in DOMAIN worker BY EndTypes
  <2> QED BY <2>1 DEF End
<1>3. \A s : Closed(s)' <=> Closed(s)
  <2>1. \A s : Closed(s) <=> \E v \in Ended : End(v) = s BY DEF Closed
  <2>2. \A s : Closed(s)' <=> \E v \in Ended' : End(v)' = s BY DEF Closed
  <2> QED BY <1>1, <1>2, <2>1, <2>2
<1> QED BY <1>1, <1>2, <1>3 DEF EndsKept, EndsGrow

\* What words said stays true.
LEMMA KeepSaid ==
    ASSUME IInv, EndsGrow, OutcomesKept, NEW s
    PROVE  /\ SaidDone(s) => SaidDone(s)'
           /\ SaidFailed(s) => SaidFailed(s)'
<1>1. \A v \in Ended : v = 0 \/ v \in DOMAIN worker BY EndTypes
<1>2. SaidDone(s) => SaidDone(s)'
  <2> SUFFICES ASSUME SaidDone(s) PROVE SaidDone(s)' OBVIOUS
  <2>1. PICK v \in Ended : End(v) = s /\ (v = 0 \/ Acknowledged(v)) BY DEF SaidDone
  <2>2. v \in Ended' /\ End(v)' = s /\ (v = 0 \/ Acknowledged(v)')
    BY <1>1, <2>1 DEF EndsGrow, OutcomesKept
  <2>3. \E u \in Ended' : End(u)' = s /\ (u = 0 \/ Acknowledged(u)') BY <2>2
  <2> QED BY <2>3 DEF SaidDone
<1>3. SaidFailed(s) => SaidFailed(s)'
  <2> SUFFICES ASSUME SaidFailed(s) PROVE SaidFailed(s)' OBVIOUS
  <2>1. PICK v \in Ended : v # 0 /\ End(v) = s /\ Failed(v) BY DEF SaidFailed
  <2>2. v \in Ended' /\ v # 0 /\ End(v)' = s /\ Failed(v)'
    BY <1>1, <2>1 DEF EndsGrow, OutcomesKept
  <2>3. \E u \in Ended' : u # 0 /\ End(u)' = s /\ Failed(u)' BY <2>2
  <2> QED BY <2>3 DEF SaidFailed
<1> QED BY <1>2, <1>3

-----------------------------------------------------------------------------
(* What a step of a worker does. *)

SameHistory == UNCHANGED <<txnOf, result, log>>
Others(w) == DOMAIN worker' = DOMAIN worker /\ \A v \in DOMAIN worker : v # w => worker'[v] = worker[v]

\* The worker takes or takes back the lock.
Moves(w) ==
    /\ worker[w].pc \in {"queued", "wait"} /\ worker'[w].pc = "run" /\ SameEnd(worker'[w], worker[w])
    /\ Others(w) /\ word' = word /\ SameHistory /\ lock = Free
\* It finds nothing to execute at the frontier.
Stops(w) ==
    /\ worker[w].pc = "run" /\ worker[w].pos = Frontier /\ OP \notin word[Frontier] /\ Frontier \in Slots
    /\ Others(w) /\ SameHistory /\ worker'[w].outcome = worker[w].outcome
    /\ worker'[w].durable = worker[w].durable /\ worker'[w].resolvers = worker[w].resolvers
Waits(w) ==
    /\ Stops(w) /\ worker'[w].pc = "wait" /\ worker'[w].instructions = worker[w].instructions
    /\ word' = [word EXCEPT ![Frontier] = {WAITING_OPERATION}]
Delimits(w) ==
    /\ Stops(w) /\ worker'[w].pc = "commit" /\ worker'[w].instructions = Frontier
    /\ word' = [word EXCEPT ![Frontier] = {TXN_DELIMITER}] /\ Nest(Frontier) = 0
Commits(w) ==
    /\ worker[w].pc = "commit" /\ worker'[w].pc = "report" /\ Others(w) /\ word' = word /\ SameHistory
    /\ worker'[w].instructions = worker[w].instructions
    /\ worker'[w].resolvers = worker[w].resolvers
    /\ worker'[w].outcome \in {"ok"} \cup IF CommitCanFail THEN {"failed"} ELSE {}
    /\ worker'[w].durable <=> worker'[w].outcome = "ok" /\ ~OverlappingSync
\* It marks the last executed instruction.
Stores(w) ==
    /\ worker[w].pc = "store" /\ worker'[w].pc = "run" /\ SameEnd(worker'[w], worker[w])
    /\ Others(w) /\ worker[w].pos \in Slots
    /\ word' = [word EXCEPT ![worker[w].pos] = worker[w].loaded] /\ SameHistory
Reports(w) ==
    /\ worker[w].pc = "report" /\ SameEnd(worker'[w], worker[w]) /\ Others(w) /\ SameHistory
    /\ worker'[w].pc = IF OverlappingSync /\ ~Failed(w) THEN "sync" ELSE "done"
    /\ worker[w].instructions \in Slots
    /\ word' = [word EXCEPT ![worker[w].instructions] = @ \cup ReportedBits(Failed(w))]
Syncs(w) ==
    /\ worker[w].pc = "sync" /\ DOMAIN worker' = DOMAIN worker /\ SameHistory
    /\ worker[w].instructions \in Slots
    /\ \E synced \in {TRUE} \cup IF SyncCanFail THEN {FALSE} ELSE {} :
         \A v \in DOMAIN worker :
            /\ worker'[v].pc = IF v = w THEN "done" ELSE worker[v].pc
            /\ worker'[v].outcome = worker[v].outcome
            /\ worker'[v].instructions = worker[v].instructions
            /\ worker'[v].pos = worker[v].pos /\ worker'[v].loaded = worker[v].loaded
            /\ worker'[v].resolvers = worker[v].resolvers
            /\ worker'[v].durable = (worker[v].durable \/ (synced /\ worker[v].outcome = "ok"))
    /\ word' = IF SeparateFlushed THEN word
               ELSE [word EXCEPT ![worker[w].instructions] = @ \cup {TXN_COMMITTED}]
Executing(w) == \E ok \in BOOLEAN : Runs(w, ok) /\ (RunsMarked(w, ok) \/ RunsEnd(w))

LEMMA WorkerEffect ==
    ASSUME IInv, NEW w \in DOMAIN worker, WorkerStep(w)
    PROVE  /\ UNCHANGED jsVars /\ DOMAIN worker' = DOMAIN worker
           /\ \/ Moves(w) \/ Waits(w) \/ Delimits(w) \/ Commits(w) \/ Stores(w) \/ Reports(w)
              \/ Syncs(w) \/ Executing(w)
<1>1. worker[w] \in Worker /\ worker \in Seq(Worker) /\ worker[w].instructions \in Slots
      /\ worker[w].pos \in Slots
  <2>1. worker[w] \in Worker /\ worker \in Seq(Worker) BY WorkerTypes DEF IInv, TypeOK, TypeWorker
  <2> QED BY <2>1 DEF Worker
<1>2. ASSUME NEW e, worker' = [worker EXCEPT ![w] = e]
      PROVE  Others(w) /\ worker'[w] = e
  BY <1>1, <1>2 DEF Others
<1>3. CASE BeginTxn(w) \/ WakeUp(w)
  <2> DEFINE e == [worker[w] EXCEPT !.pc = "run"]
  <2>1. /\ worker' = [worker EXCEPT ![w] = e] /\ worker[w].pc \in {"queued", "wait"} /\ lock = Free
        /\ UNCHANGED <<word, jsVars, historyVars>>
    BY <1>3 DEF BeginTxn, WakeUp
  <2>2. e.pc = "run" /\ SameEnd(e, worker[w]) BY <1>1 DEF Worker, SameEnd
  <2> HIDE DEF e
  <2>3. Moves(w) BY <1>2, <2>1, <2>2 DEF Moves, SameHistory, historyVars
  <2> QED BY <2>1, <2>3 DEF Moves, Others
<1>4. CASE WaitForOperation(w) \/ Delimit(w)
  <2>0. worker[w].pc = "run" /\ OP \notin word[worker[w].pos]
    BY <1>4 DEF WaitForOperation, Delimit, Running, Fetched
  <2>1. worker[w].pos = Frontier /\ Frontier \in Slots /\ Nest(Frontier) = worker[w].depth
    BY <1>1, <2>0, RunningWorker DEF Frontier
  <2>2. CASE WaitForOperation(w)
    <3> DEFINE e == [worker[w] EXCEPT !.pc = "wait"]
    <3>1. /\ worker' = [worker EXCEPT ![w] = e] /\ word' = [word EXCEPT ![Frontier] = {WAITING_OPERATION}]
          /\ UNCHANGED <<jsVars, historyVars>>
      BY <2>1, <2>2 DEF WaitForOperation
    <3>2. e.pc = "wait" /\ SameEnd(e, worker[w]) BY <1>1 DEF Worker, SameEnd
    <3> HIDE DEF e
    <3>3. Waits(w)
      BY <1>2, <2>0, <2>1, <3>1, <3>2 DEF Waits, Stops, SameEnd, SameHistory, historyVars
    <3> QED BY <3>1, <3>3 DEF Waits, Stops, Others
  <2>3. CASE Delimit(w)
    <3> DEFINE e == [worker[w] EXCEPT !.pc = "commit", !.instructions = worker[w].pos]
    <3>1. /\ worker' = [worker EXCEPT ![w] = e] /\ word' = [word EXCEPT ![Frontier] = {TXN_DELIMITER}]
          /\ worker[w].depth = 0
          /\ UNCHANGED <<jsVars, historyVars>>
      BY <2>1, <2>3 DEF Delimit, MustWait
    <3>2. /\ e.pc = "commit" /\ e.instructions = Frontier /\ e.outcome = worker[w].outcome
          /\ e.durable = worker[w].durable /\ e.resolvers = worker[w].resolvers
      BY <1>1, <2>1 DEF Worker
    <3> HIDE DEF e
    <3>3. Delimits(w)
      BY <1>2, <2>0, <2>1, <3>1, <3>2 DEF Delimits, Stops, SameHistory, historyVars
    <3> QED BY <3>1, <3>3 DEF Delimits, Stops, Others
  <2> QED BY <1>4, <2>2, <2>3
<1>5. CASE Commit(w)
  <2>1. PICK outcome \in {"ok"} \cup IF CommitCanFail THEN {"failed"} ELSE {} :
          /\ worker' = [worker EXCEPT ![w].pc = "report", ![w].outcome = outcome,
                                      ![w].durable = outcome = "ok" /\ ~OverlappingSync]
          /\ worker[w].pc = "commit" /\ UNCHANGED <<word, jsVars, historyVars>>
    BY <1>5 DEF Commit
  <2> DEFINE e == [worker[w] EXCEPT !.pc = "report", !.outcome = outcome,
                                    !.durable = outcome = "ok" /\ ~OverlappingSync]
  <2>2. worker' = [worker EXCEPT ![w] = e] BY <2>1
  <2>3. /\ e.pc = "report" /\ e.outcome = outcome /\ e.instructions = worker[w].instructions
        /\ e.durable = (outcome = "ok" /\ ~OverlappingSync) /\ e.resolvers = worker[w].resolvers
    BY <1>1 DEF Worker
  <2> HIDE DEF e
  <2>4. Commits(w) BY <1>2, <2>1, <2>2, <2>3 DEF Commits, SameHistory, historyVars
  <2> QED BY <2>1, <2>4 DEF Commits, Others
<1>6. CASE StoreFinished(w)
  <2> DEFINE e == [worker[w] EXCEPT !.pc = "run", !.pos = worker[w].pos + 1, !.loaded = {}]
  <2>1. /\ worker' = [worker EXCEPT ![w] = e] /\ worker[w].pc = "store"
        /\ word' = [word EXCEPT ![worker[w].pos] = worker[w].loaded]
        /\ UNCHANGED <<jsVars, historyVars>>
    BY <1>6 DEF StoreFinished
  <2>2. e.pc = "run" /\ SameEnd(e, worker[w]) BY <1>1 DEF Worker, SameEnd
  <2> HIDE DEF e
  <2>3. Stores(w) BY <1>1, <1>2, <2>1, <2>2 DEF Stores, SameHistory, historyVars
  <2> QED BY <2>1, <2>3 DEF Stores, Others
<1>7. CASE ReportCommit(w)
  <2> DEFINE next == IF OverlappingSync /\ ~Failed(w) THEN "sync" ELSE "done"
             more == OverlappingSync /\ ~Failed(w)
             e == [worker[w] EXCEPT !.pc = next, !.progress = more]
  <2>1. /\ worker' = [worker EXCEPT ![w] = e] /\ worker[w].pc = "report"
        /\ word' = [word EXCEPT ![worker[w].instructions] = @ \cup ReportedBits(Failed(w))]
        /\ UNCHANGED <<jsVars, historyVars>>
    BY <1>7 DEF ReportCommit, Failed
  <2>2. e.pc = next /\ SameEnd(e, worker[w]) BY <1>1 DEF Worker, SameEnd
  <2> HIDE DEF e
  <2>3. Reports(w) BY <1>1, <1>2, <2>1, <2>2 DEF Reports, SameHistory, historyVars
  <2> QED BY <2>1, <2>3 DEF Reports, Others
<1>8. CASE Sync(w)
  <2>1. PICK synced \in {TRUE} \cup IF SyncCanFail THEN {FALSE} ELSE {} :
          worker' = [v \in DOMAIN worker |->
                       [worker[v] EXCEPT !.durable = @ \/ (synced /\ worker[v].outcome = "ok"),
                                         !.pc = IF v = w THEN "done" ELSE @]]
    BY <1>8 DEF Sync
  <2>2. ASSUME NEW v \in DOMAIN worker
        PROVE  /\ worker'[v].pc = IF v = w THEN "done" ELSE worker[v].pc
               /\ worker'[v].outcome = worker[v].outcome
               /\ worker'[v].instructions = worker[v].instructions
               /\ worker'[v].pos = worker[v].pos /\ worker'[v].loaded = worker[v].loaded
               /\ worker'[v].resolvers = worker[v].resolvers
               /\ worker'[v].durable = (worker[v].durable \/ (synced /\ worker[v].outcome = "ok"))
    <3> DEFINE durable == worker[v].durable \/ (synced /\ worker[v].outcome = "ok")
               pc == IF v = w THEN "done" ELSE worker[v].pc
               e == [worker[v] EXCEPT !.durable = durable, !.pc = pc]
    <3>1. worker[v] \in Worker BY <1>1
    <3>2. worker'[v] = e BY <2>1
    <3>3. /\ e.pc = pc /\ e.outcome = worker[v].outcome /\ e.instructions = worker[v].instructions
          /\ e.pos = worker[v].pos /\ e.loaded = worker[v].loaded /\ e.durable = durable
          /\ e.resolvers = worker[v].resolvers
      BY <3>1 DEF Worker
    <3> HIDE DEF e
    <3> QED BY <3>2, <3>3
  <2>3. /\ worker[w].pc = "sync" /\ UNCHANGED <<jsVars, historyVars>>
        /\ word' = IF SeparateFlushed THEN word
                   ELSE [word EXCEPT ![worker[w].instructions] = @ \cup {TXN_COMMITTED}]
    BY <1>8 DEF Sync
  <2>4. DOMAIN worker' = DOMAIN worker BY <2>1
  <2>5. Syncs(w) BY <1>1, <2>2, <2>3, <2>4 DEF Syncs, SameHistory, historyVars
  <2> QED BY <2>3, <2>4, <2>5
<1>9. CASE ExecuteWrite(w) \/ ExecuteStart(w) \/ ExecuteCall(w) \/ ExecuteEnd(w)
  <2>1. Executing(w) BY <1>9, ExecuteEffect DEF Executing
  <2>2. UNCHANGED jsVars /\ DOMAIN worker' = DOMAIN worker BY <2>1 DEF Executing, Runs
  <2> QED BY <2>1, <2>2
<1> QED BY <1>3, <1>4, <1>5, <1>6, <1>7, <1>8, <1>9 DEF WorkerStep

-----------------------------------------------------------------------------
(* How transactions end. *)

\* Outcomes are decided once, and what was acknowledged stays so.
LEMMA WorkerOutcomes ==
    ASSUME IInv, OutcomeInv, NEW w \in DOMAIN worker, WorkerStep(w)
    PROVE  OutcomeInv' /\ OutcomesKept
<1>1. DOMAIN worker' = DOMAIN worker BY WorkerEffect
<1>2. \A v \in DOMAIN worker : worker[v] \in Worker BY EndTypes
<1>3. \A v \in DOMAIN worker : worker[v].durable \in BOOLEAN BY <1>2 DEF Worker
<1>4. ASSUME Others(w), worker'[w].outcome = worker[w].outcome, worker'[w].durable = worker[w].durable
      PROVE  OutcomesKept
  BY <1>4 DEF Others, OutcomesKept, Failed, Acknowledged
<1>5. ASSUME NEW v \in DOMAIN worker, worker'[v] = worker[v]
      PROVE  /\ worker'[v].pc \notin ClosedPc \/ worker'[v].pc = "commit" => worker'[v].outcome = "none"
             /\ worker'[v].pc = "report" =>
                  Failed(v)' \/ (worker'[v].outcome = "ok" /\ (~OverlappingSync => worker'[v].durable))
             /\ worker'[v].pc = "sync" => worker'[v].outcome = "ok"
  BY <1>5 DEF OutcomeInv, Failed
<1> DEFINE This ==
      /\ worker'[w].pc \notin ClosedPc \/ worker'[w].pc = "commit" => worker'[w].outcome = "none"
      /\ worker'[w].pc = "report" =>
           Failed(w)' \/ (worker'[w].outcome = "ok" /\ (~OverlappingSync => worker'[w].durable))
      /\ worker'[w].pc = "sync" => worker'[w].outcome = "ok"
<1>6. ASSUME Others(w), This PROVE OutcomeInv'
  BY <1>1, <1>5, <1>6 DEF Others, OutcomeInv
<1>7. CASE Moves(w) \/ Waits(w) \/ Delimits(w) \/ Stores(w)
  <2>1. /\ Others(w) /\ worker'[w].outcome = worker[w].outcome /\ worker'[w].durable = worker[w].durable
        /\ worker'[w].pc \in {"run", "wait", "commit"}
        /\ worker[w].pc \in {"queued", "run", "store", "wait"}
    BY <1>7 DEF Moves, Waits, Delimits, Stops, Stores, SameEnd
  <2>2. This BY <2>1 DEF OutcomeInv, ClosedPc
  <2> HIDE DEF This
  <2> QED BY <1>4, <1>6, <2>1, <2>2
<1>8. CASE Executing(w)
  <2>1. /\ Others(w) /\ worker'[w].outcome = worker[w].outcome /\ worker'[w].durable = worker[w].durable
        /\ worker'[w].pc \in {"run", "store"} /\ worker[w].pc = "run"
    BY <1>8 DEF Executing, Runs, RunsMarked, RunsEnd, SameEnd, Others
  <2>2. This BY <2>1 DEF OutcomeInv, ClosedPc
  <2> HIDE DEF This
  <2> QED BY <1>4, <1>6, <2>1, <2>2
<1>9. CASE Commits(w)
  <2>1. Others(w) /\ worker[w].outcome = "none" /\ worker'[w].pc = "report"
    BY <1>9 DEF Commits, OutcomeInv
  <2>2. This BY <1>9 DEF Commits, ClosedPc, Failed
  <2>3. OutcomesKept BY <2>1 DEF Others, OutcomesKept, Failed, Acknowledged
  <2> HIDE DEF This
  <2> QED BY <1>6, <2>1, <2>2, <2>3
<1>10. CASE Reports(w)
  <2>1. /\ Others(w) /\ worker'[w].outcome = worker[w].outcome /\ worker'[w].durable = worker[w].durable
        /\ worker[w].pc = "report"
        /\ worker'[w].pc = IF OverlappingSync /\ ~Failed(w) THEN "sync" ELSE "done"
    BY <1>10 DEF Reports, SameEnd
  <2>2. This BY <2>1 DEF OutcomeInv, ClosedPc, Failed
  <2> HIDE DEF This
  <2> QED BY <1>4, <1>6, <2>1, <2>2
<1>11. CASE Syncs(w)
  <2>1. PICK synced : \A v \in DOMAIN worker :
            /\ worker'[v].pc = IF v = w THEN "done" ELSE worker[v].pc
            /\ worker'[v].outcome = worker[v].outcome
            /\ worker'[v].durable = (worker[v].durable \/ (synced /\ worker[v].outcome = "ok"))
    BY <1>11 DEF Syncs
  <2>2. \A v \in DOMAIN worker : worker[v].durable => worker'[v].durable BY <1>3, <2>1
  <2>3. OutcomesKept BY <2>1, <2>2 DEF OutcomesKept, Failed, Acknowledged
  <2>4. ASSUME NEW v \in DOMAIN worker
        PROVE  /\ worker'[v].pc \notin ClosedPc \/ worker'[v].pc = "commit" => worker'[v].outcome = "none"
               /\ worker'[v].pc = "report" =>
                    Failed(v)' \/ (worker'[v].outcome = "ok" /\ (~OverlappingSync => worker'[v].durable))
               /\ worker'[v].pc = "sync" => worker'[v].outcome = "ok"
    BY <2>1, <2>2 DEF OutcomeInv, Failed, ClosedPc
  <2>5. OutcomeInv' BY <1>1, <2>4 DEF OutcomeInv
  <2> QED BY <2>3, <2>5
<1> QED BY <1>7, <1>8, <1>9, <1>10, <1>11, WorkerEffect

-----------------------------------------------------------------------------
(* Transactions follow one another. *)

\* A step that closes no transaction executes at most the next instruction, in the
\* transaction that was started last.
LEMMA KeepTxns ==
    ASSUME IInv, IInv', TxnInv, EndsKept,
           \A v : v \in DOMAIN worker => v \in DOMAIN worker',
           \/ Len(worker') = Len(worker)
           \/ ActiveWorkers = {} /\ Len(worker') = Len(worker) + 1,
           \/ UNCHANGED <<txnOf, log>>
           \/ \E w \in DOMAIN worker \ Ended :
                log' = Append(log, Frontier) /\ txnOf' = [txnOf EXCEPT ![Frontier] = w]
    PROVE  TxnInv'
<1>1. /\ Len(worker') \in Nat
      /\ \A v : v \in DOMAIN worker' <=> v \in Nat /\ 1 <= v /\ v <= Len(worker')
  <2>1. worker' \in Seq(Worker) BY DEF IInv, TypeOK, TypeWorker
  <2> QED BY <2>1, SeqDomain
<1>2. \A v \in Ended : v \in Nat /\ v <= Len(worker) BY EndTypes
<1>3. LastInv'
  <2> SUFFICES ASSUME NEW v \in DOMAIN worker', v # Len(worker') PROVE v \in Ended'
    BY DEF LastInv
  <2>0. Len(worker) \in Nat BY EndTypes
  <2>1. v \in Nat /\ 1 <= v /\ v < Len(worker') BY <1>1
  <2>2. v \in DOMAIN worker
    <3>1. v <= Len(worker) BY <1>1, <2>0, <2>1
    <3> QED BY <2>1, <3>1, EndTypes
  <2>3. v \in Ended
    <3>1. CASE Len(worker') = Len(worker) BY <2>2, <3>1 DEF TxnInv, LastInv
    <3>2. CASE ActiveWorkers = {} BY <2>2, <3>2, EndTypes
    <3> QED BY <3>1, <3>2
  <2> QED BY <2>3 DEF EndsKept
<1>4. Frontier <= Frontier' /\ Frontier' \in Nat
  <2>1. log \in Seq(Slots) /\ log' \in Seq(Slots) BY DEF IInv, TypeOK, TypeHistory
  <2> QED BY <2>1 DEF Frontier
<1>5. EndInv'
  <2>1. \A v \in Ended : End(v)' <= Frontier'
    <3> TAKE v \in Ended
    <3>1. End(v)' = End(v) /\ End(v) <= Frontier /\ End(v) \in Nat
      BY EndTypes DEF EndsKept, EndsGrow, TxnInv, EndInv
    <3> QED BY <1>4, <3>1, SlotTypes
  <2> QED BY <2>1 DEF EndInv, EndsKept
<1>6. StrictInv'
  BY DEF StrictInv, EndsKept, EndsGrow, TxnInv
<1>7. SpanInv'
  <2>1. ASSUME NEW s \in 1..Len(log), txnOf'[s] = txnOf[s]
        PROVE  txnOf'[s] \in DOMAIN worker' /\ \A v \in Ended' : txnOf'[s] <= v <=> s < End(v)'
    BY <2>1 DEF TxnInv, SpanInv, EndsKept, EndsGrow
  <2>2. CASE UNCHANGED <<txnOf, log>>
    BY <2>1, <2>2 DEF SpanInv
  <2>3. ASSUME NEW w \in DOMAIN worker \ Ended,
               log' = Append(log, Frontier), txnOf' = [txnOf EXCEPT ![Frontier] = w]
        PROVE  SpanInv'
    <3>1. Len(log') = Len(log) + 1 /\ Len(log) \in Nat /\ Frontier = Len(log) + 1
      <4>1. log \in Seq(Slots) BY DEF IInv, TypeOK, TypeHistory
      <4> QED BY <2>3, <4>1, SlotTypes
    <3>2. Frontier \in 1..MaxSlots
      <4>1. Len(log) < position /\ position \in Slots /\ position' \in Slots /\ Len(log') < position'
        BY DEF IInv, FrontierInv, TypeOK, TypeReserve
      <4>2. position' <= MaxSlots + 1 /\ position' \in Nat /\ MaxSlots \in Nat BY <4>1, SlotTypes
      <4> QED BY <3>1, <4>1, <4>2
    <3>3. /\ txnOf'[Frontier] = w
          /\ \A s \in 1..MaxSlots : s # Frontier => txnOf'[s] = txnOf[s]
      BY <2>3, <3>2 DEF IInv, TypeOK, TypeHistory
    <3>4. \A s \in 1..Len(log) : s # Frontier /\ s \in 1..MaxSlots
      BY <3>1, SlotTypes, SMTT(30)
    <3>5. ASSUME NEW v \in Ended' PROVE w <= v <=> Frontier < End(v)'
      <4>1. v \in Ended /\ v \in Nat /\ v <= Len(worker) /\ End(v)' = End(v) /\ End(v) <= Frontier
            /\ End(v) \in Nat
        BY EndTypes DEF EndsKept, EndsGrow, TxnInv, EndInv
      <4>2. w = Len(worker) /\ w \in Nat BY EndTypes DEF TxnInv, LastInv
      <4>3. v # w BY <4>1
      <4> QED BY <4>1, <4>2, <4>3, SlotTypes
    <3>6. ASSUME NEW s \in 1..Len(log')
          PROVE  txnOf'[s] \in DOMAIN worker' /\ \A v \in Ended' : txnOf'[s] <= v <=> s < End(v)'
      <4>1. CASE s = Frontier BY <3>3, <3>5, <4>1
      <4>2. CASE s # Frontier
        <5>1. s \in 1..Len(log) BY <3>1, <4>2
        <5>2. txnOf'[s] = txnOf[s] BY <3>3, <3>4, <5>1
        <5> QED BY <2>1, <5>1, <5>2
      <4> QED BY <4>1, <4>2
    <3> QED BY <3>6 DEF SpanInv
  <2> QED BY <2>2, <2>3
<1> QED BY <1>3, <1>5, <1>6, <1>7 DEF TxnInv

\* Closing a transaction at the frontier: every closed slot lies before.
LEMMA DelimitTxns ==
    ASSUME IInv, IInv', ExecutedInv, TxnInv, OpenInv, NEW w \in DOMAIN worker, Delimits(w)
    PROVE  /\ TxnInv' /\ EndsGrow
           /\ \A s : Closed(s)' <=> Closed(s) \/ s = Frontier
<1>1. /\ worker[w].pc = "run" /\ worker'[w].pc = "commit" /\ worker'[w].instructions = Frontier
      /\ DOMAIN worker' = DOMAIN worker /\ \A v \in DOMAIN worker : v # w => worker'[v] = worker[v]
      /\ UNCHANGED <<txnOf, log>> /\ OP \notin word[Frontier] /\ Frontier \in Slots
  BY DEF Delimits, Stops, Others, SameHistory
<1>2. w \notin Ended /\ w = Len(worker) /\ w \in Nat /\ w # 0
  <2>1. w \notin Ended BY <1>1, EndTypes DEF ClosedPc
  <2> QED BY <2>1, EndTypes DEF TxnInv, LastInv
<1>3. Ended' = Ended \cup {w}
  <2>1. \A v : v \in Ended <=> v = 0 \/ (v \in DOMAIN worker /\ worker[v].pc \in ClosedPc)
    BY DEF Ended
  <2>2. \A v : v \in Ended' <=> v = 0 \/ (v \in DOMAIN worker /\ worker'[v].pc \in ClosedPc)
    BY <1>1 DEF Ended
  <2>3. worker'[w].pc \in ClosedPc BY <1>1 DEF ClosedPc
  <2>4. \A v : v \in Ended' <=> v \in Ended \/ v = w BY <1>1, <2>1, <2>2, <2>3
  <2> QED BY <2>4
<1>4. EndsGrow /\ End(w)' = Frontier
  <2>1. ASSUME NEW v \in Ended PROVE v \in Ended' /\ End(v)' = End(v)
    <3>1. v # w /\ (v = 0 \/ v \in DOMAIN worker) BY <1>2, EndTypes
    <3> QED BY <1>1, <1>3, <3>1 DEF End
  <2>2. End(w)' = Frontier BY <1>1, <1>2 DEF End
  <2> QED BY <2>1, <2>2 DEF EndsGrow
<1>5. \A s : Closed(s)' <=> Closed(s) \/ s = Frontier
  <2>1. \A s : Closed(s)' <=> \E v \in Ended' : End(v)' = s BY DEF Closed
  <2>2. \A s : Closed(s) <=> \E v \in Ended : End(v) = s BY DEF Closed
  <2> QED BY <1>3, <1>4, <2>1, <2>2 DEF EndsGrow
<1>6. Frontier' = Frontier /\ Len(worker) \in Nat /\ Frontier \in Nat BY <1>1, EndTypes, SlotTypes DEF Frontier
<1>7. ASSUME NEW v \in Ended PROVE End(v) < Frontier /\ v < w /\ v \in Nat
  <2>1. End(v) <= Frontier /\ End(v) \in Slots /\ End(v) \in Nat /\ v \in Nat /\ v <= Len(worker)
    BY EndTypes DEF TxnInv, EndInv
  <2>2. End(v) # Frontier
    <3> SUFFICES ASSUME End(v) = Frontier PROVE FALSE OBVIOUS
    <3>1. Closed(Frontier) BY DEF Closed
    <3>2. Frontier \in OpenDelimiters BY <1>1, <3>1, ClosedOpen
    <3>3. OpenDelimiters = {} BY <1>1, RunningWorker
    <3> QED BY <3>2, <3>3
  <2>3. v # w BY <1>2
  <2> QED BY <1>2, <1>6, <2>1, <2>2, <2>3
<1>8. LastInv'
  <2>1. Len(worker') = Len(worker)
    <3>1. worker \in Seq(Worker) /\ worker' \in Seq(Worker) BY DEF IInv, TypeOK, TypeWorker
    <3> QED BY <1>1, <3>1, SameLength
  <2> QED BY <1>1, <1>3, <2>1 DEF TxnInv, LastInv
<1>9. EndInv'
  <2>1. \A v \in Ended' : End(v)' <= Frontier'
    <3> TAKE v \in Ended'
    <3>1. CASE v = w BY <1>4, <1>6, <3>1
    <3>2. CASE v \in Ended
      <4>1. End(v)' = End(v) /\ End(v) <= Frontier BY <1>4, <3>2 DEF EndsGrow, TxnInv, EndInv
      <4> QED BY <1>6, <4>1
    <3> QED BY <1>3, <3>1, <3>2
  <2> QED BY <2>1 DEF EndInv
<1>10. StrictInv'
  <2>1. ASSUME NEW v \in Ended', NEW u \in Ended', v < u PROVE End(v)' < End(u)'
    <3>1. CASE v = w
      <4>1. u = w \/ u < w BY <1>3, <1>7
      <4> QED BY <1>2, <2>1, <3>1, <4>1, <1>3, <1>7
    <3>2. CASE v \in Ended /\ u = w BY <1>4, <1>7, <3>2 DEF EndsGrow
    <3>3. CASE v \in Ended /\ u \in Ended BY <1>4, <2>1, <3>3 DEF EndsGrow, TxnInv, StrictInv
    <3> QED BY <1>3, <3>1, <3>2, <3>3
  <2> QED BY <2>1 DEF StrictInv
<1>11. SpanInv'
  <2>1. ASSUME NEW s \in 1..Len(log)
        PROVE  txnOf[s] \in DOMAIN worker /\ \A v \in Ended' : txnOf[s] <= v <=> s < End(v)'
    <3>1. txnOf[s] \in DOMAIN worker /\ \A v \in Ended : txnOf[s] <= v <=> s < End(v)
      BY DEF TxnInv, SpanInv
    <3>2. txnOf[s] <= w /\ s < Frontier
      <4>1. txnOf[s] \in Nat /\ txnOf[s] <= Len(worker) BY <3>1, EndTypes
      <4> QED BY <1>2, <4>1, SlotTypes
    <3>3. ASSUME NEW v \in Ended' PROVE txnOf[s] <= v <=> s < End(v)'
      <4>1. CASE v = w BY <1>4, <3>2, <4>1
      <4>2. CASE v \in Ended BY <1>4, <3>1, <4>2 DEF EndsGrow
      <4> QED BY <1>3, <4>1, <4>2
    <3> QED BY <3>1, <3>3
  <2> QED BY <1>1, <2>1 DEF SpanInv
<1> QED BY <1>4, <1>5, <1>8, <1>9, <1>10, <1>11 DEF TxnInv

\* What the steps of the workers do to the transactions.
LEMMA WorkerTxns ==
    ASSUME IInv, IInv', ExecutedInv, TxnInv, OpenInv, NEW w \in DOMAIN worker, WorkerStep(w)
    PROVE  /\ TxnInv' /\ EndsGrow /\ \A s : Closed(s) => Closed(s)'
           /\ \/ \A s : Closed(s)' <=> Closed(s)
              \/ Delimits(w) /\ \A s : Closed(s)' <=> Closed(s) \/ s = Frontier
<1>1. CASE Delimits(w) BY <1>1, DelimitTxns
<1>2. ASSUME \A v \in DOMAIN worker : /\ worker'[v].pc \in ClosedPc <=> worker[v].pc \in ClosedPc
                                      /\ worker'[v].instructions = worker[v].instructions,
             \/ UNCHANGED <<txnOf, log>>
             \/ \E u \in DOMAIN worker \ Ended :
                  log' = Append(log, Frontier) /\ txnOf' = [txnOf EXCEPT ![Frontier] = u]
      PROVE  TxnInv' /\ EndsGrow /\ \A s : Closed(s)' <=> Closed(s)
  <2>1. DOMAIN worker' = DOMAIN worker /\ worker \in Seq(Worker) /\ worker' \in Seq(Worker)
    BY WorkerEffect DEF IInv, TypeOK, TypeWorker
  <2>2. Len(worker') = Len(worker) BY <2>1, SameLength
  <2>3. EndsKept /\ \A s : Closed(s)' <=> Closed(s) BY <1>2, <2>1, KeepEnds
  <2>4. TxnInv' BY <1>2, <2>1, <2>2, <2>3, KeepTxns
  <2> QED BY <2>3, <2>4 DEF EndsKept
<1>3. CASE Moves(w) \/ Waits(w) \/ Commits(w) \/ Stores(w) \/ Reports(w)
  <2>1. \A v \in DOMAIN worker : /\ worker'[v].pc \in ClosedPc <=> worker[v].pc \in ClosedPc
                                 /\ worker'[v].instructions = worker[v].instructions
    BY <1>3 DEF Moves, Waits, Stops, Commits, Stores, Reports, Others, SameEnd, ClosedPc
  <2>2. UNCHANGED <<txnOf, log>>
    BY <1>3 DEF Moves, Waits, Stops, Commits, Stores, Reports, SameHistory
  <2> QED BY <1>2, <2>1, <2>2
<1>4. CASE Syncs(w)
  <2>1. \A v \in DOMAIN worker : /\ worker'[v].pc \in ClosedPc <=> worker[v].pc \in ClosedPc
                                 /\ worker'[v].instructions = worker[v].instructions
    BY <1>4 DEF Syncs, ClosedPc
  <2>2. UNCHANGED <<txnOf, log>> BY <1>4 DEF Syncs, SameHistory
  <2> QED BY <1>2, <2>1, <2>2
<1>5. CASE Executing(w)
  <2>1. /\ worker[w].pc = "run" /\ worker'[w].pc \in {"run", "store"}
        /\ \A v \in DOMAIN worker : v # w => worker'[v] = worker[v]
        /\ worker'[w].instructions = worker[w].instructions
        /\ log' = Append(log, Frontier) /\ txnOf' = [txnOf EXCEPT ![Frontier] = w]
    BY <1>5 DEF Executing, Runs, RunsMarked, RunsEnd, SameEnd
  <2>2. \A v \in DOMAIN worker : /\ worker'[v].pc \in ClosedPc <=> worker[v].pc \in ClosedPc
                                 /\ worker'[v].instructions = worker[v].instructions
    BY <2>1 DEF ClosedPc
  <2>3. w \notin Ended BY <2>1, EndTypes DEF ClosedPc
  <2> QED BY <1>2, <2>1, <2>2, <2>3
<1> QED BY <1>1, <1>3, <1>4, <1>5, WorkerEffect

-----------------------------------------------------------------------------
(* What the words say. *)

\* The word of one slot is replaced.
LEMMA OneWord ==
    ASSUME IInv, NEW k \in Slots, NEW new, word' = [word EXCEPT ![k] = new]
    PROVE  word'[k] = new /\ \A s \in Slots : s # k => word'[s] = word[s]
BY DEF IInv, TypeOK, TypeWord

\* The bits are different.
LEMMA BitsDiffer ==
    /\ OP # WAITING_OPERATION /\ OP # TXN_DELIMITER /\ OP # TXN_COMMITTED /\ OP # TXN_FAILED
    /\ OP # FINISHED_OPERATION /\ OP # FAILED_CONDITION
    /\ TXN_DELIMITER # WAITING_OPERATION /\ TXN_DELIMITER # TXN_COMMITTED
    /\ TXN_DELIMITER # TXN_FAILED /\ TXN_DELIMITER # FINISHED_OPERATION
    /\ TXN_DELIMITER # FAILED_CONDITION
    /\ TXN_COMMITTED # WAITING_OPERATION /\ TXN_COMMITTED # TXN_FAILED
    /\ TXN_COMMITTED # FINISHED_OPERATION /\ TXN_COMMITTED # FAILED_CONDITION
    /\ TXN_FAILED # WAITING_OPERATION /\ TXN_FAILED # FINISHED_OPERATION
    /\ TXN_FAILED # FAILED_CONDITION /\ FINISHED_OPERATION # WAITING_OPERATION
    /\ FINISHED_OPERATION # FAILED_CONDITION /\ FAILED_CONDITION # WAITING_OPERATION
BY DEF OP, WAITING_OPERATION, TXN_DELIMITER, TXN_COMMITTED, TXN_FAILED, FINISHED_OPERATION,
       FAILED_CONDITION

\* What a worker changes in the words of slots nobody published into.
LEMMA WorkerOpen ==
    ASSUME IInv, IInv', ExecutedInv, TxnInv, OpenInv, NEW w \in DOMAIN worker, WorkerStep(w)
    PROVE  OpenInv'
<1>2. ASSUME \A v : Closed(v)' <=> Closed(v),
             \A s \in Slots : OP \notin word'[s] =>
                OP \notin word[s] /\ (TXN_DELIMITER \in word'[s] <=> TXN_DELIMITER \in word[s])
      PROVE  OpenInv'
  BY <1>2 DEF OpenInv
<1>3. CASE Delimits(w)
  <2>1. word' = [word EXCEPT ![Frontier] = {TXN_DELIMITER}] /\ Frontier \in Slots
    BY <1>3 DEF Delimits, Stops
  <2>2. \A s : Closed(s)' <=> Closed(s) \/ s = Frontier BY <1>3, DelimitTxns
  <2>3. word'[Frontier] = {TXN_DELIMITER} /\ \A s \in Slots : s # Frontier => word'[s] = word[s]
    BY <2>1, OneWord
  <2> QED BY <2>2, <2>3 DEF OpenInv
<1>4. ASSUME ~Delimits(w) PROVE \A v : Closed(v)' <=> Closed(v)
  BY <1>4, WorkerTxns
<1>5. CASE Moves(w) \/ Commits(w)
  <2>1. word' = word /\ ~Delimits(w) BY <1>5 DEF Moves, Commits, Delimits, Stops
  <2> QED BY <1>2, <1>4, <2>1
<1>6. CASE Waits(w)
  <2>1. /\ word' = [word EXCEPT ![Frontier] = {WAITING_OPERATION}] /\ Frontier \in Slots
        /\ worker[w].pc = "run" /\ OP \notin word[Frontier] /\ ~Delimits(w)
    BY <1>6 DEF Waits, Stops, Delimits
  <2>2. word'[Frontier] = {WAITING_OPERATION} /\ \A s \in Slots : s # Frontier => word'[s] = word[s]
    BY <2>1, OneWord
  <2>3. TXN_DELIMITER \notin word[Frontier] BY <2>1, RunningWorker DEF OpenDelimiters
  <2> QED BY <1>2, <1>4, <2>1, <2>2, <2>3, BitsDiffer
<1>7. CASE Stores(w)
  <2>1. /\ word' = [word EXCEPT ![worker[w].pos] = worker[w].loaded] /\ worker[w].pos \in Slots
        /\ worker[w].pc = "store" /\ ~Delimits(w)
    BY <1>7 DEF Stores, Delimits, Stops
  <2>2. OP \in worker[w].loaded BY <2>1, OneActive DEF IInv, FrontierInv, WorkerAtFrontier
  <2> QED BY <1>2, <1>4, <2>1, <2>2, OneWord
<1>8. CASE Reports(w)
  <2>1. /\ word' = [word EXCEPT ![worker[w].instructions] = @ \cup ReportedBits(Failed(w))]
        /\ worker[w].instructions \in Slots /\ ~Delimits(w)
    BY <1>8 DEF Reports, Delimits, Stops
  <2>2. \A s \in Slots : word'[s] = word[s] \/ word'[s] = word[s] \cup ReportedBits(Failed(w))
    BY <2>1, OneWord
  <2>3. OP \notin ReportedBits(Failed(w)) /\ TXN_DELIMITER \notin ReportedBits(Failed(w))
    BY BitsDiffer DEF ReportedBits
  <2> QED BY <1>2, <1>4, <2>1, <2>2, <2>3
<1>9. CASE Syncs(w)
  <2>1. /\ word' = word \/ word' = [word EXCEPT ![worker[w].instructions] = @ \cup {TXN_COMMITTED}]
        /\ worker[w].instructions \in Slots /\ ~Delimits(w)
    BY <1>9 DEF Syncs, Delimits, Stops
  <2>2. \A s \in Slots : word'[s] = word[s] \/ word'[s] = word[s] \cup {TXN_COMMITTED}
    BY <2>1, OneWord
  <2> QED BY <1>2, <1>4, <2>1, <2>2, BitsDiffer
<1>10. CASE Executing(w)
  <2>1. PICK ok \in BOOLEAN : Runs(w, ok) /\ (RunsMarked(w, ok) \/ RunsEnd(w)) BY <1>10 DEF Executing
  <2>2. /\ OP \in word[Frontier] /\ ~Delimits(w) /\ Frontier \in Slots
        /\ word' = word \/ word' = [word EXCEPT ![Frontier] = @ \cup Flags(ok)]
    BY <2>1, SlotTypes DEF Runs, RunsMarked, RunsEnd, Delimits, Stops
  <2>3. word'[Frontier] = word[Frontier] \/ word'[Frontier] = word[Frontier] \cup Flags(ok)
    BY <2>2, OneWord
  <2>4. \A s \in Slots : s # Frontier => word'[s] = word[s] BY <2>2, OneWord
  <2> QED BY <1>2, <1>4, <2>2, <2>3, <2>4
<1> QED BY <1>3, <1>5, <1>6, <1>7, <1>8, <1>9, <1>10, WorkerEffect

\* What is executed was not marked before.
LEMMA FrontierUnmarked ==
    ASSUME IInv, ExecutedInv, ToldInv
    PROVE  FINISHED_OPERATION \notin word[Frontier] /\ FAILED_CONDITION \notin word[Frontier]
<1>1. Frontier \in Slots /\ ~(Frontier <= Len(log)) BY SlotTypes
<1>2. FINISHED_OPERATION \notin word[Frontier] BY <1>1 DEF ExecutedInv, FinishInv
<1> QED BY <1>1, <1>2 DEF ToldInv

\* The marks of a transaction appear where it was closed, and say how it ended.
LEMMA WorkerMarks ==
    ASSUME IInv, IInv', ExecutedInv, HistoryInv, NEW w \in DOMAIN worker, WorkerStep(w)
    PROVE  MarkInv'
<1>1. EndsGrow /\ OutcomesKept BY WorkerTxns, WorkerOutcomes DEF HistoryInv
<1>2. \A s : (SaidDone(s) => SaidDone(s)') /\ (SaidFailed(s) => SaidFailed(s)') BY <1>1, KeepSaid
<1>3. ASSUME \A s \in Slots :
               /\ TXN_COMMITTED \in word'[s] => TXN_COMMITTED \in word[s] \/ SaidDone(s) \/ SaidDone(s)'
               /\ TXN_FAILED \in word'[s] => TXN_FAILED \in word[s] \/ SaidFailed(s)
      PROVE  MarkInv'
  BY <1>2, <1>3 DEF MarkInv, HistoryInv
<1>4. CASE Moves(w) \/ Commits(w)
  BY <1>3, <1>4 DEF Moves, Commits
<1>5. CASE Waits(w) \/ Delimits(w)
  <2>1. PICK b \in {TXN_DELIMITER, WAITING_OPERATION} :
          word' = [word EXCEPT ![Frontier] = {b}] /\ Frontier \in Slots
    BY <1>5 DEF Waits, Delimits, Stops
  <2>2. b # TXN_COMMITTED /\ b # TXN_FAILED BY BitsDiffer
  <2>3. \A s \in Slots : word'[s] = word[s] \/ word'[s] = {b} BY <2>1, OneWord
  <2> QED BY <1>3, <2>2, <2>3
<1>6. CASE Stores(w)
  <2>1. /\ word' = [word EXCEPT ![worker[w].pos] = worker[w].loaded] /\ worker[w].pos \in Slots
        /\ worker[w].pc = "store"
    BY <1>6 DEF Stores
  <2>2. \A s \in Slots : word'[s] = word[s] \/ (s = worker[w].pos /\ word'[s] = worker[w].loaded)
    BY <2>1, OneWord
  <2>3. /\ TXN_COMMITTED \in worker[w].loaded => SaidDone(worker[w].pos)
        /\ TXN_FAILED \in worker[w].loaded => SaidFailed(worker[w].pos)
    BY <2>1 DEF HistoryInv, LoadedInv
  <2> QED BY <1>3, <2>2, <2>3
<1>7. CASE Reports(w)
  <2>1. /\ worker[w].pc = "report" /\ worker[w].instructions \in Slots
        /\ word' = [word EXCEPT ![worker[w].instructions] = @ \cup ReportedBits(Failed(w))]
    BY <1>7 DEF Reports
  <2>2. \A s \in Slots : \/ word'[s] = word[s]
                         \/ s = worker[w].instructions /\ word'[s] = word[s] \cup ReportedBits(Failed(w))
    BY <2>1, OneWord
  <2>3. w \in Ended /\ w # 0 /\ End(w) = worker[w].instructions BY <2>1, EndTypes DEF ClosedPc
  <2>4. TXN_FAILED \in ReportedBits(Failed(w)) => SaidFailed(worker[w].instructions)
    <3>1. TXN_FAILED \in ReportedBits(Failed(w)) => Failed(w) BY BitsDiffer DEF ReportedBits
    <3> QED BY <2>3, <3>1 DEF SaidFailed
  <2>5. TXN_COMMITTED \in ReportedBits(Failed(w)) => SaidDone(worker[w].instructions)
    <3>1. TXN_COMMITTED \in ReportedBits(Failed(w)) =>
            ~Failed(w) /\ ~(OverlappingSync /\ ~SeparateFlushed)
      BY BitsDiffer DEF ReportedBits
    <3>2. Failed(w) \/ (worker[w].outcome = "ok" /\ (~OverlappingSync => worker[w].durable))
      BY <2>1 DEF HistoryInv, OutcomeInv
    <3>3. TXN_COMMITTED \in ReportedBits(Failed(w)) => Acknowledged(w)
      BY <3>1, <3>2 DEF Acknowledged
    <3> QED BY <2>3, <3>3 DEF SaidDone
  <2> QED BY <1>3, <2>2, <2>4, <2>5
<1>8. CASE Syncs(w)
  <2>1. /\ word' = word \/ (~SeparateFlushed /\ word' = [word EXCEPT ![worker[w].instructions] = @ \cup {TXN_COMMITTED}])
        /\ worker[w].instructions \in Slots /\ worker[w].pc = "sync"
    BY <1>8 DEF Syncs
  <2>2. \A s \in Slots : \/ word'[s] = word[s]
                         \/ s = worker[w].instructions /\ word'[s] = word[s] \cup {TXN_COMMITTED}
    BY <2>1, OneWord
  <2>3. w \in Ended /\ w # 0 /\ End(w) = worker[w].instructions BY <2>1, EndTypes DEF ClosedPc
  <2>4. w \in Ended' /\ End(w)' = worker[w].instructions BY <1>1, <2>3 DEF EndsGrow
  <2>5. Acknowledged(w)'
    <3>1. worker[w].outcome = "ok" BY <2>1 DEF HistoryInv, OutcomeInv
    <3>2. PICK synced \in {TRUE} \cup IF SyncCanFail THEN {FALSE} ELSE {} :
            /\ worker'[w].outcome = worker[w].outcome
            /\ worker'[w].durable = (worker[w].durable \/ (synced /\ worker[w].outcome = "ok"))
      BY <1>8 DEF Syncs
    <3>3. ~SyncCanFail => synced OBVIOUS
    <3>4. ~SyncCanFail => worker'[w].durable BY <3>1, <3>2, <3>3
    <3> QED BY <3>1, <3>2, <3>4 DEF Acknowledged
  <2>6. SaidDone(worker[w].instructions)'
    <3>1. \E v \in Ended' : End(v)' = worker[w].instructions /\ (v = 0 \/ Acknowledged(v)')
      BY <2>4, <2>5
    <3>2. worker'[w].instructions = worker[w].instructions BY <1>8 DEF Syncs
    <3> QED BY <3>1, <3>2 DEF SaidDone
  <2>7. \A s \in Slots : s = worker[w].instructions => SaidDone(s)'
    <3> SUFFICES ASSUME NEW s \in Slots, s = worker[w].instructions PROVE SaidDone(s)' OBVIOUS
    <3>1. \E v \in Ended' : End(v)' = s /\ (v = 0 \/ Acknowledged(v)') BY <2>4, <2>5
    <3> QED BY <3>1 DEF SaidDone
  <2> QED BY <1>3, <2>2, <2>7, BitsDiffer
<1>9. CASE Executing(w)
  <2>1. PICK ok \in BOOLEAN : Runs(w, ok) /\ (RunsMarked(w, ok) \/ RunsEnd(w)) BY <1>9 DEF Executing
  <2>2. word' = word \/ word' = [word EXCEPT ![Frontier] = @ \cup Flags(ok)]
    BY <2>1 DEF Runs, RunsMarked, RunsEnd
  <2>3. \A s \in Slots : word'[s] = word[s] \/ word'[s] = word[s] \cup Flags(ok)
    BY <2>2, SlotTypes, OneWord
  <2>4. TXN_COMMITTED \notin Flags(ok) /\ TXN_FAILED \notin Flags(ok) BY BitsDiffer DEF Flags
  <2> QED BY <1>3, <2>3, <2>4
<1> QED BY <1>4, <1>5, <1>6, <1>7, <1>8, <1>9, WorkerEffect

\* What a worker loaded and is about to store.
LEMMA WorkerLoaded ==
    ASSUME IInv, IInv', ExecutedInv, HistoryInv, NEW w \in DOMAIN worker, WorkerStep(w)
    PROVE  LoadedInv'
<1>1. EndsGrow /\ OutcomesKept BY WorkerTxns, WorkerOutcomes DEF HistoryInv
<1>2. \A s : (SaidDone(s) => SaidDone(s)') /\ (SaidFailed(s) => SaidFailed(s)') BY <1>1, KeepSaid
<1> DEFINE Good(v, s, loaded) ==
      /\ TXN_COMMITTED \in loaded => SaidDone(s)'
      /\ TXN_FAILED \in loaded => SaidFailed(s)'
      /\ FINISHED_OPERATION \in loaded /\ txnOf'[s] = v
      /\ FAILED_CONDITION \in loaded <=> ~result'[s]
<1>3. DOMAIN worker' = DOMAIN worker BY WorkerEffect
<1>4. ASSUME \A v \in DOMAIN worker : worker'[v].pc = "store" =>
               \E s, loaded : worker'[v].pos = s /\ worker'[v].loaded = loaded /\ Good(v, s, loaded)
      PROVE  LoadedInv'
  <2> SUFFICES ASSUME NEW v \in DOMAIN worker, worker'[v].pc = "store"
               PROVE  /\ TXN_COMMITTED \in worker'[v].loaded => SaidDone(worker[v].pos)'
                      /\ TXN_FAILED \in worker'[v].loaded => SaidFailed(worker[v].pos)'
                      /\ FINISHED_OPERATION \in worker'[v].loaded /\ txnOf'[worker'[v].pos] = v
                      /\ FAILED_CONDITION \in worker'[v].loaded <=> ~result'[worker'[v].pos]
    BY <1>3 DEF LoadedInv
  <2>1. PICK s, loaded : worker'[v].pos = s /\ worker'[v].loaded = loaded /\ Good(v, s, loaded)
    BY <1>4
  <2>2. (SaidDone(worker[v].pos)' <=> SaidDone(s)') /\ (SaidFailed(worker[v].pos)' <=> SaidFailed(s)')
    BY <2>1 DEF SaidDone, SaidFailed
  <2> QED BY <2>1, <2>2
<1>5. ASSUME SameHistory, NEW v \in DOMAIN worker, worker[v].pc = "store"
      PROVE  \E s, loaded : worker[v].pos = s /\ worker[v].loaded = loaded /\ Good(v, s, loaded)
  <2>1. PICK s, loaded : worker[v].pos = s /\ worker[v].loaded = loaded OBVIOUS
  <2>2. /\ TXN_COMMITTED \in loaded => SaidDone(s)
        /\ TXN_FAILED \in loaded => SaidFailed(s)
        /\ FINISHED_OPERATION \in loaded /\ txnOf[s] = v
        /\ FAILED_CONDITION \in loaded <=> ~result[s]
    BY <1>5, <2>1 DEF HistoryInv, LoadedInv
  <2>3. Good(v, s, loaded) BY <1>2, <1>5, <2>2 DEF SameHistory
  <2> QED BY <2>1, <2>3
<1> HIDE DEF Good
<1>6. CASE Moves(w) \/ Waits(w) \/ Delimits(w) \/ Commits(w) \/ Stores(w) \/ Reports(w)
  <2>1. /\ SameHistory /\ worker'[w].pc # "store"
        /\ \A v \in DOMAIN worker : v # w => worker'[v] = worker[v]
    BY <1>6 DEF Moves, Waits, Delimits, Stops, Commits, Stores, Reports, Others
  <2> QED BY <1>4, <1>5, <2>1
<1>7. CASE Syncs(w)
  <2>1. /\ SameHistory
        /\ \A v \in DOMAIN worker : worker'[v].pc = "store" =>
             /\ worker[v].pc = "store" /\ worker'[v].pos = worker[v].pos
             /\ worker'[v].loaded = worker[v].loaded
    BY <1>7 DEF Syncs
  <2> QED BY <1>4, <1>5, <2>1
<1>8. CASE Executing(w)
  <2>1. PICK ok \in BOOLEAN : Runs(w, ok) /\ (RunsMarked(w, ok) \/ RunsEnd(w)) BY <1>8 DEF Executing
  <2>2. /\ worker[w].pc = "run" /\ \A v \in DOMAIN worker : v # w => worker'[v] = worker[v]
        /\ txnOf' = [txnOf EXCEPT ![Frontier] = w]
    BY <2>1 DEF Runs
  <2>3. ASSUME NEW v \in DOMAIN worker, worker'[v].pc = "store" PROVE v = w
    <3> SUFFICES ASSUME v # w PROVE FALSE OBVIOUS
    <3>1. v \in ActiveWorkers /\ ActiveWorkers = {w}
      BY <2>2, <2>3, RunningWorker DEF ActiveWorkers
    <3> QED BY <3>1
  <2>4. ASSUME worker'[w].pc = "store"
        PROVE  /\ worker'[w].pos = Frontier /\ worker'[w].loaded = word[Frontier] \cup Flags(ok)
               /\ result' = [result EXCEPT ![Frontier] = ok]
    BY <2>1, <2>4 DEF RunsMarked, RunsEnd
  <2>5. Frontier \in 1..MaxSlots
    <3>1. OP \in word[Frontier] /\ Frontier \in Slots /\ position \in Slots
      BY <2>1, SlotTypes DEF Runs, IInv, TypeOK, TypeReserve
    <3>2. ~(Frontier >= position) BY <3>1 DEF IInv, WordInv
    <3> QED BY <3>1, <3>2, SlotTypes
  <2>6. txnOf'[Frontier] = w /\ (worker'[w].pc = "store" => result'[Frontier] = ok)
    BY <2>2, <2>4, <2>5 DEF IInv, TypeOK, TypeHistory
  <2>7. /\ TXN_COMMITTED \in word[Frontier] => SaidDone(Frontier)
        /\ TXN_FAILED \in word[Frontier] => SaidFailed(Frontier)
    BY SlotTypes DEF HistoryInv, MarkInv
  <2>8. FAILED_CONDITION \notin word[Frontier] BY FrontierUnmarked DEF HistoryInv
  <2>9. PICK s : s = Frontier OBVIOUS
  <2>10. ASSUME NEW loaded, loaded = word[s] \cup Flags(ok), worker'[w].pc = "store"
         PROVE  Good(w, s, loaded)
    <3>1. /\ TXN_COMMITTED \notin Flags(ok) /\ TXN_FAILED \notin Flags(ok)
          /\ FINISHED_OPERATION \in Flags(ok) /\ (FAILED_CONDITION \in Flags(ok) <=> ~ok)
      BY BitsDiffer DEF Flags
    <3>2. /\ TXN_COMMITTED \in word[s] => SaidDone(s)'
          /\ TXN_FAILED \in word[s] => SaidFailed(s)'
      BY <1>2, <2>7, <2>9
    <3>3. txnOf'[s] = w /\ result'[s] = ok /\ FAILED_CONDITION \notin word[s]
      BY <2>6, <2>8, <2>9, <2>10
    <3>4. \A b : b \in loaded <=> b \in word[s] \/ b \in Flags(ok) BY <2>10
    <3>5. /\ TXN_COMMITTED \in loaded => SaidDone(s)'
          /\ TXN_FAILED \in loaded => SaidFailed(s)'
      BY <3>1, <3>2, <3>4, Zenon
    <3>6. FINISHED_OPERATION \in loaded /\ (FAILED_CONDITION \in loaded <=> ~result'[s])
      BY <3>1, <3>3, <3>4
    <3> QED BY <3>3, <3>5, <3>6 DEF Good
  <2>11. ASSUME NEW v \in DOMAIN worker, worker'[v].pc = "store"
         PROVE  \E p, loaded : worker'[v].pos = p /\ worker'[v].loaded = loaded /\ Good(v, p, loaded)
    <3>1. v = w BY <2>3, <2>11
    <3>2. PICK loaded : loaded = word[s] \cup Flags(ok) OBVIOUS
    <3>3. Good(w, s, loaded) BY <2>10, <2>11, <3>1, <3>2
    <3>4. worker'[w].pos = s /\ worker'[w].loaded = loaded BY <2>4, <2>9, <2>11, <3>1, <3>2
    <3> QED BY <3>1, <3>3, <3>4
  <2> QED BY <1>4, <2>11
<1> QED BY <1>6, <1>7, <1>8, WorkerEffect

\* What the words say of executed instructions.
LEMMA WorkerTold ==
    ASSUME IInv, IInv', ExecutedInv, HistoryInv, NEW w \in DOMAIN worker, WorkerStep(w)
    PROVE  ToldInv'
<1> DEFINE Told(bits, res) ==
      /\ FINISHED_OPERATION \in bits => (FAILED_CONDITION \in bits <=> ~res)
      /\ FAILED_CONDITION \in bits => FINISHED_OPERATION \in bits
<1>1. \A s \in Slots : Told(word[s], result[s]) BY DEF HistoryInv, ToldInv
<1>2. ASSUME \A s \in Slots : Told(word'[s], result'[s]) PROVE ToldInv'
  BY <1>2 DEF ToldInv
<1>3. ASSUME NEW bits, NEW more, NEW res, Told(bits, res),
             FINISHED_OPERATION \notin more, FAILED_CONDITION \notin more
      PROVE  Told(bits \cup more, res)
  BY <1>3
<1>4. ASSUME NEW bits, NEW res, FINISHED_OPERATION \notin bits, FAILED_CONDITION \notin bits
      PROVE  Told(bits, res)
  BY <1>4
<1> HIDE DEF Told
<1>5. CASE Moves(w) \/ Commits(w)
  <2>1. word' = word /\ result' = result BY <1>5 DEF Moves, Commits, SameHistory
  <2> QED BY <1>1, <1>2, <2>1
<1>6. CASE Waits(w) \/ Delimits(w)
  <2>1. PICK b \in {TXN_DELIMITER, WAITING_OPERATION} :
          word' = [word EXCEPT ![Frontier] = {b}] /\ Frontier \in Slots /\ result' = result
    BY <1>6 DEF Waits, Delimits, Stops, SameHistory
  <2>2. b # FINISHED_OPERATION /\ b # FAILED_CONDITION BY BitsDiffer
  <2>3. \A s \in Slots : word'[s] = word[s] \/ word'[s] = {b} BY <2>1, OneWord
  <2>4. \A s \in Slots : Told({b}, result[s]) BY <1>4, <2>2
  <2> QED BY <1>1, <1>2, <2>1, <2>3, <2>4
<1>7. CASE Stores(w)
  <2>1. /\ word' = [word EXCEPT ![worker[w].pos] = worker[w].loaded] /\ worker[w].pos \in Slots
        /\ worker[w].pc = "store" /\ result' = result
    BY <1>7 DEF Stores, SameHistory
  <2>2. \A s \in Slots : word'[s] = word[s] \/ (s = worker[w].pos /\ word'[s] = worker[w].loaded)
    BY <2>1, OneWord
  <2>3. Told(worker[w].loaded, result[worker[w].pos]) BY <2>1 DEF HistoryInv, LoadedInv, Told
  <2> QED BY <1>1, <1>2, <2>1, <2>2, <2>3
<1>8. CASE Reports(w)
  <2>1. /\ worker[w].instructions \in Slots /\ result' = result
        /\ word' = [word EXCEPT ![worker[w].instructions] = @ \cup ReportedBits(Failed(w))]
    BY <1>8 DEF Reports, SameHistory
  <2>2. \A s \in Slots : word'[s] = word[s] \/ word'[s] = word[s] \cup ReportedBits(Failed(w))
    BY <2>1, OneWord
  <2>3. /\ FINISHED_OPERATION \notin ReportedBits(Failed(w))
        /\ FAILED_CONDITION \notin ReportedBits(Failed(w))
    BY BitsDiffer DEF ReportedBits
  <2>4. \A s \in Slots : Told(word[s] \cup ReportedBits(Failed(w)), result[s])
    BY <1>1, <1>3, <2>3
  <2> QED BY <1>1, <1>2, <2>1, <2>2, <2>4
<1>9. CASE Syncs(w)
  <2>1. /\ word' = word \/ word' = [word EXCEPT ![worker[w].instructions] = @ \cup {TXN_COMMITTED}]
        /\ worker[w].instructions \in Slots /\ result' = result
    BY <1>9 DEF Syncs, SameHistory
  <2>2. \A s \in Slots : word'[s] = word[s] \/ word'[s] = word[s] \cup {TXN_COMMITTED}
    BY <2>1, OneWord
  <2>3. FINISHED_OPERATION \notin {TXN_COMMITTED} /\ FAILED_CONDITION \notin {TXN_COMMITTED}
    BY BitsDiffer
  <2>4. \A s \in Slots : Told(word[s] \cup {TXN_COMMITTED}, result[s]) BY <1>1, <1>3, <2>3
  <2> QED BY <1>1, <1>2, <2>1, <2>2, <2>4
<1>10. CASE Executing(w)
  <2>1. PICK ok \in BOOLEAN : Runs(w, ok) /\ (RunsMarked(w, ok) \/ RunsEnd(w)) BY <1>10 DEF Executing
  <2>2. Frontier \in Slots /\ FINISHED_OPERATION \notin word[Frontier] /\ FAILED_CONDITION \notin word[Frontier]
    BY SlotTypes, FrontierUnmarked DEF HistoryInv
  <2>3. /\ word' = word \/ word' = [word EXCEPT ![Frontier] = @ \cup Flags(ok)]
        /\ result' = result \/ result' = [result EXCEPT ![Frontier] = ok]
    BY <2>1 DEF Runs, RunsMarked, RunsEnd
  <2>4. ASSUME NEW s \in Slots, s # Frontier PROVE Told(word'[s], result'[s])
    <3>1. word'[s] = word[s] BY <2>2, <2>3, <2>4, OneWord
    <3>2. CASE s \in 1..MaxSlots
      <4>1. result'[s] = result[s] BY <2>3, <2>4, <3>2 DEF IInv, TypeOK, TypeHistory
      <4> QED BY <1>1, <3>1, <4>1
    <3>3. CASE s \notin 1..MaxSlots
      <4>1. ~(s <= Len(log)) BY <3>3, SlotTypes
      <4>2. FINISHED_OPERATION \notin word[s] BY <4>1 DEF ExecutedInv, FinishInv
      <4>3. FAILED_CONDITION \notin word[s] BY <4>2 DEF HistoryInv, ToldInv
      <4> QED BY <1>4, <3>1, <4>2, <4>3
    <3> QED BY <3>2, <3>3
  <2>5. Told(word'[Frontier], result'[Frontier])
    <3>1. CASE word' = word BY <1>4, <2>2, <3>1
    <3>2. CASE word' # word
      <4>1. RunsMarked(w, ok) BY <2>1, <3>2 DEF RunsEnd
      <4>2. word' = [word EXCEPT ![Frontier] = @ \cup Flags(ok)] /\ result' = [result EXCEPT ![Frontier] = ok]
        BY <3>2, <4>1 DEF RunsMarked
      <4>3. Frontier \in 1..MaxSlots
        <5>1. OP \in word[Frontier] /\ Frontier \in Slots /\ position \in Slots
          BY <2>1, SlotTypes DEF Runs, IInv, TypeOK, TypeReserve
        <5>2. ~(Frontier >= position) BY <5>1 DEF IInv, WordInv
        <5> QED BY <5>1, <5>2, SlotTypes
      <4>4. result'[Frontier] = ok BY <4>2, <4>3 DEF IInv, TypeOK, TypeHistory
      <4>5. word'[Frontier] = word[Frontier] \cup Flags(ok) BY <2>2, <4>2, OneWord
      <4>6. FINISHED_OPERATION \in Flags(ok) /\ (FAILED_CONDITION \in Flags(ok) <=> ~ok)
        BY BitsDiffer DEF Flags
      <4> QED BY <2>2, <4>4, <4>5, <4>6 DEF Told
    <3> QED BY <3>1, <3>2
  <2> QED BY <1>2, <2>4, <2>5
<1> QED BY <1>5, <1>6, <1>7, <1>8, <1>9, <1>10, WorkerEffect

\* Everything executed is marked, but the instruction whose mark is being stored.
LEMMA WorkerFinished ==
    ASSUME IInv, IInv', ExecutedInv, HistoryInv, NEW w \in DOMAIN worker, WorkerStep(w)
    PROVE  FinishedInv'
<1>1. DOMAIN worker' = DOMAIN worker /\ instr' = instr
  BY WorkerEffect DEF jsVars, reserveVars
<1> DEFINE Stored(s) == \E v \in DOMAIN worker : worker'[v].pc = "store" /\ worker'[v].pos = s
<1>2. ASSUME NEW s \in 1..Len(log), FINISHED_OPERATION \in word[s] => FINISHED_OPERATION \in word'[s],
             \A v \in DOMAIN worker : worker[v].pc = "store" /\ worker[v].pos = s =>
                (worker'[v].pc = "store" /\ worker'[v].pos = s) \/ FINISHED_OPERATION \in word'[s]
      PROVE  FINISHED_OPERATION \in word'[s] \/ instr[s].kind = "END" \/ Stored(s)
  BY <1>2 DEF HistoryInv, FinishedInv
<1>3. ASSUME \A s \in 1..Len(log') : FINISHED_OPERATION \in word'[s] \/ instr[s].kind = "END" \/ Stored(s)
      PROVE  FinishedInv'
  BY <1>1, <1>3 DEF FinishedInv
<1>4. ASSUME NEW v \in DOMAIN worker, worker[v].pc = "store",
             worker[w].pc \in {"queued", "run", "store", "wait"}
      PROVE  v = w
  BY <1>4, OneActive DEF IInv, ActiveWorkers
<1> HIDE DEF Stored
<1>5. \A s \in 1..Len(log) : s \in Slots /\ s # Frontier BY SlotTypes
<1>6. CASE Moves(w) \/ Commits(w)
  <2>1. /\ word' = word /\ log' = log /\ worker[w].pc # "store"
        /\ \A v \in DOMAIN worker : v # w => worker'[v] = worker[v]
    BY <1>6 DEF Moves, Commits, SameHistory, Others
  <2> QED BY <1>2, <1>3, <2>1
<1>7. CASE Waits(w) \/ Delimits(w)
  <2>1. PICK b : /\ word' = [word EXCEPT ![Frontier] = {b}] /\ Frontier \in Slots /\ log' = log
                 /\ worker[w].pc # "store"
                 /\ \A v \in DOMAIN worker : v # w => worker'[v] = worker[v]
    BY <1>7 DEF Waits, Delimits, Stops, SameHistory, Others
  <2>2. \A s \in 1..Len(log) : word'[s] = word[s] BY <1>5, <2>1, OneWord
  <2> QED BY <1>2, <1>3, <2>1, <2>2
<1>8. CASE Stores(w)
  <2>1. /\ word' = [word EXCEPT ![worker[w].pos] = worker[w].loaded] /\ worker[w].pos \in Slots
        /\ worker[w].pc = "store" /\ log' = log
        /\ \A v \in DOMAIN worker : v # w => worker'[v] = worker[v]
    BY <1>8 DEF Stores, SameHistory, Others
  <2>2. FINISHED_OPERATION \in worker[w].loaded BY <2>1 DEF HistoryInv, LoadedInv
  <2>3. \A s \in Slots : word'[s] = word[s] \/ FINISHED_OPERATION \in word'[s] BY <2>1, <2>2, OneWord
  <2>4. FINISHED_OPERATION \in word'[worker[w].pos] BY <2>1, <2>2, OneWord
  <2>5. ASSUME NEW s \in 1..Len(log)
        PROVE  FINISHED_OPERATION \in word'[s] \/ instr[s].kind = "END" \/ Stored(s)
    <3>1. FINISHED_OPERATION \in word[s] => FINISHED_OPERATION \in word'[s] BY <1>5, <2>3
    <3>2. ASSUME NEW v \in DOMAIN worker, worker[v].pc = "store", worker[v].pos = s
          PROVE  FINISHED_OPERATION \in word'[s]
      BY <1>4, <2>1, <2>4, <3>2
    <3> QED BY <1>2, <3>1, <3>2
  <2> QED BY <1>3, <2>1, <2>5
<1>9. CASE Reports(w)
  <2>1. /\ worker[w].instructions \in Slots /\ log' = log /\ worker[w].pc # "store"
        /\ word' = [word EXCEPT ![worker[w].instructions] = @ \cup ReportedBits(Failed(w))]
        /\ \A v \in DOMAIN worker : v # w => worker'[v] = worker[v]
    BY <1>9 DEF Reports, SameHistory, Others
  <2>2. \A s \in Slots : word[s] \subseteq word'[s] BY <2>1, OneWord
  <2> QED BY <1>2, <1>3, <1>5, <2>1, <2>2
<1>10. CASE Syncs(w)
  <2>1. /\ word' = word \/ word' = [word EXCEPT ![worker[w].instructions] = @ \cup {TXN_COMMITTED}]
        /\ worker[w].instructions \in Slots /\ log' = log
        /\ \A v \in DOMAIN worker : worker[v].pc = "store" =>
             worker'[v].pc = "store" /\ worker'[v].pos = worker[v].pos
    BY <1>10 DEF Syncs, SameHistory
  <2>2. \A s \in Slots : word[s] \subseteq word'[s] BY <2>1, OneWord
  <2> QED BY <1>2, <1>3, <1>5, <2>1, <2>2
<1>11. CASE Executing(w)
  <2>1. PICK ok \in BOOLEAN : Runs(w, ok) /\ (RunsMarked(w, ok) \/ RunsEnd(w)) BY <1>11 DEF Executing
  <2>2. /\ worker[w].pc = "run" /\ \A v \in DOMAIN worker : v # w => worker'[v] = worker[v]
        /\ Frontier \in Slots /\ log' = Append(log, Frontier)
        /\ word' = word \/ word' = [word EXCEPT ![Frontier] = @ \cup Flags(ok)]
    BY <2>1, SlotTypes DEF Runs, RunsMarked, RunsEnd
  <2>3. \A s \in 1..Len(log) : word'[s] = word[s] BY <1>5, <2>2, OneWord
  <2>4. FINISHED_OPERATION \in word'[Frontier] \/ instr[Frontier].kind = "END" \/ Stored(Frontier)
    <3>1. CASE RunsEnd(w) BY <3>1 DEF RunsEnd
    <3>2. CASE RunsMarked(w, ok)
      <4>1. CASE worker'[w].pc = "store" /\ worker'[w].pos = Frontier BY <4>1 DEF Stored
      <4>2. CASE word' = [word EXCEPT ![Frontier] = @ \cup Flags(ok)]
        <5>1. word'[Frontier] = word[Frontier] \cup Flags(ok) BY <2>2, <4>2, OneWord
        <5> QED BY <5>1 DEF Flags
      <4> QED BY <3>2, <4>1, <4>2 DEF RunsMarked
    <3> QED BY <2>1, <3>1, <3>2
  <2>5. \A s \in 1..Len(log') : s \in 1..Len(log) \/ s = Frontier
    <3>1. log \in Seq(Slots) BY DEF IInv, TypeOK, TypeHistory
    <3>2. Len(log') = Len(log) + 1 BY <2>2, <3>1
    <3> QED BY <3>2, SlotTypes
  <2>6. \A s \in 1..Len(log) : FINISHED_OPERATION \in word'[s] \/ instr[s].kind = "END" \/ Stored(s)
    BY <1>2, <2>2, <2>3
  <2> QED BY <1>3, <2>4, <2>5, <2>6
<1> QED BY <1>6, <1>7, <1>8, <1>9, <1>10, <1>11, WorkerEffect

\* A step of a worker keeps the history.
LEMMA WorkerHistory ==
    ASSUME IInv, IInv', ExecutedInv, HistoryInv, NEW w \in DOMAIN worker, WorkerStep(w)
    PROVE  HistoryInv'
<1>1. TxnInv' /\ OutcomeInv' /\ OpenInv'
  BY WorkerTxns, WorkerOutcomes, WorkerOpen DEF HistoryInv
<1> QED BY <1>1, WorkerMarks, WorkerLoaded, WorkerTold, WorkerFinished DEF HistoryInv
=============================================================================
