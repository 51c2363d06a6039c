----------------------- MODULE WriteQueueTruthProofs -----------------------
(***************************************************************************)
(* Proofs about the promises and the user callbacks of WriteQueue, for      *)
(* every value of its constants.  How writes are grouped into transactions, *)
(* and with whom they share a promise, is known of every behaviour          *)
(* (GroupInv).  So is how they are answered (TruthInv), whatever links of   *)
(* the list of delimiters queueCommitResolution replaces: what is settled   *)
(* has been executed and its transaction has ended, and is settled rightly  *)
(* unless the list passes by the delimiter of its transaction (Bypassed,    *)
(* PromiseTruth).  Where no sync fails it is settled only once it is on     *)
(* disk, bypassed or not (DiskInv, ResolvedIsDurable).                      *)
(*                                                                         *)
(* Every user callback is kept until it runs, and while a worker waits for  *)
(* one nobody else executes or commits (CallbackCorrect); what a callback   *)
(* reads and writes is then the state of its own transaction, if it takes   *)
(* effect (EffectiveInOwnTxn), and every callback runs in its own           *)
(* transaction if the program has no conditional block (CallbackInOwnTxn;   *)
(* SkippedCallback.cfg shows what goes wrong otherwise).                   *)
(*                                                                         *)
(* A flush promise resolves only once the writes that carry it are on disk  *)
(* or failed, where no sync fails and no block is published behind what it  *)
(* contains (FlushedIsDurable; StaleFlush.cfg is about the other case).     *)
(***************************************************************************)
EXTENDS WriteQueueProofs

-----------------------------------------------------------------------------
(* What is known of the promises, relative to IInv and CursorInv.            *)

\* Every slot at which a transaction was closed is linked once it was published into.
ListedInv ==
    /\ \A s \in Slots : Closed(s) /\ OP \in word[s] => \E r \in Places : Is(r) /\ FP(r) = s
    /\ \A r \in Places : Is(r) => Closed(FP(r))

\* A slot strictly inside a link is skipped.  At most two of the slots ahead of what is
\* settled are not: the one at hand and the one it is linked to.
Skipped(e) == \E q \in Slots : NextTxn(q) # 0 /\ FP(q) < e /\ e < FP(NextTxn(q))
ChainInv ==
    /\ \A r \in Places : Is(r) => \/ r <= uncommittedResolution \/ r = txnResolution
                                  \/ txnResolution # 0 /\ r = NextTxn(txnResolution)
                                  \/ Skipped(FP(r))
    /\ \A r \in Slots : NextTxn(r) # 0 =>
         Is(r) /\ (r <= uncommittedResolution \/ r = txnResolution)

\* resolveWrites read the marks, and settles only what it has read.
ReadInv ==
    /\ \A r \in 1..(unwrittenResolution - 1) :
         FAILED_CONDITION \in resolution[r].flag <=> ~result[FP(r)]
    /\ call.pc = "settle" => \A r \in Places : Is(r) => r <= unwrittenResolution

ListInv == ListedInv /\ ReadInv

\* Every reserved slot is published but the one that is being published and the
\* deferred start of the outermost block.
Publishing == call.pc \in {"publish", "store"}
Deferred == Len(blocks) > 0 /\ writeBatchStart # 0
UnpublishedInv ==
    \A s \in 1..(position - 1) :
        OP \in word[s] \/ (Publishing /\ s = FP(call.res)) \/ (Deferred /\ s = FP(writeBatchStart))

\* What is inside the block whose start is deferred.
Inside(s) == Nest(s) > 0
DeferInv ==
    Deferred =>
        /\ writeBatchStart = blocks[1]
        /\ \A s \in Slots : FP(writeBatchStart) < s /\ s < position => Inside(s)
        /\ ~EventTurnBatching =>
             \A r \in Reserved : r > writeBatchStart => instr[FP(r)].depth > 1
        /\ EventTurnBatching /\ commitPromise # 0 => commitPromise >= writeBatchStart
        /\ Noting \/ Publishing => writeBatchStart < call.res

\* A closure may find a shared promise of a write behind its own only if it
\* publishes the start of the block that write is in.
Nested(x) == commitPromise > x =>
    /\ instr[FP(x)].depth = 0
    /\ \A s \in Slots : FP(x) < s /\ s <= FP(commitPromise) => Inside(s)
NestedInv ==
    /\ Noting \/ Publishing => Nested(call.res)
    /\ caller.pc = "note" => commitPromise <= caller.res

\* Since x was published, nobody published at a later slot at which a transaction was closed.
Holding(x) == \A s \in Slots : Closed(s) /\ s > FP(x) => OP \notin word[s]
Promise(r) == resolution[r].promise
Unassigned(r) == Published(r) /\ Promise(r) = NoPromise /\ Holding(r)
SharedInv == commitPromise # 0 =>
    /\ commitPromise \in Reserved /\ Promise(commitPromise) = commitPromise
    /\ ~Conditional(commitPromise) /\ Holding(commitPromise)
HoldInv == /\ Noting => Unassigned(call.res)
           /\ caller.pc = "note" => Unassigned(caller.res)

\* Writes that share a promise are in one transaction for good.
Joined(p, q) ==
    \A s \in Slots : (FP(p) < s /\ s <= FP(q)) \/ (FP(q) < s /\ s <= FP(p)) =>
        s < position /\ (OP \in word[s] \/ Inside(s)) /\ ~Closed(s)
Shares(q) == Promise(q) > 0 /\ Promise(q) # q
AssignedTo == \A q \in Slots : Promise(q) # NoPromise => q \in Reserved /\ Published(q)
SharesWith(q, p) ==
    /\ p \in Reserved /\ Promise(p) = p /\ Promise(q) = p
    /\ ~Conditional(q) /\ ~Conditional(p) /\ Joined(p, q)
JoinInv == \A q \in Slots : Shares(q) => \E p \in Reserved : SharesWith(q, p)

\* What is settled is settled rightly: an answer agrees with the transaction of the write
\* or, if the slot at which that was closed was skipped, with a later one.
Settled(r) == resolution[r].settled
Agrees(a, v) == IF a = "rejected" THEN Failed(v) ELSE Acknowledged(v)
Answered(a, v) ==
    Agrees(a, v) \/ (Skipped(End(v)) /\ \E u \in Ended : v < u /\ Agrees(a, u))
SettledInv ==
    \A r \in Slots : Settled(r) # "pending" =>
        /\ Promise(r) = r /\ r \in Reserved /\ FP(r) <= Len(log) /\ txnOf[FP(r)] \in Ended
        /\ Answered(Settled(r), txnOf[FP(r)])
        /\ Conditional(r) /\ Settled(r) # "rejected" => (Settled(r) = "true") = result[FP(r)]

PromisesInv == UnpublishedInv /\ DeferInv /\ NestedInv /\ SharedInv /\ HoldInv /\ AssignedTo
               /\ JoinInv

\* How writes are grouped into transactions, and how they are answered.
GroupInv == HistoryInv /\ ListInv /\ PromisesInv
AnswerInv == ChainInv /\ SettledInv
TruthInv == GroupInv /\ AnswerInv

\* What a step keeps; what was skipped once is never unskipped.
SkipsKept == \A e \in Nat : Skipped(e) => Skipped(e)'
TruthKept == GroupInv' /\ (AnswerInv => AnswerInv')

-----------------------------------------------------------------------------
(* Steps of the workers keep what is known of the promises. *)

\* Workers publish nothing, and take nothing back.
LEMMA WorkerOps ==
    ASSUME IInv, NEW w \in DOMAIN worker, WorkerStep(w)
    PROVE  \A s \in Slots : OP \in word'[s] <=> OP \in word[s]
<1>1. CASE Moves(w) \/ Commits(w) BY <1>1 DEF Moves, Commits
<1>2. CASE Waits(w) \/ Delimits(w)
  <2>1. PICK b \in {TXN_DELIMITER, WAITING_OPERATION} :
          word' = [word EXCEPT ![Frontier] = {b}] /\ Frontier \in Slots /\ OP \notin word[Frontier]
    BY <1>2 DEF Waits, Delimits, Stops
  <2>2. b # OP BY BitsDiffer
  <2>3. word'[Frontier] = {b} /\ \A s \in Slots : s # Frontier => word'[s] = word[s] BY <2>1, OneWord
  <2> QED BY <2>1, <2>2, <2>3
<1>3. CASE Stores(w)
  <2>1. /\ word' = [word EXCEPT ![worker[w].pos] = worker[w].loaded] /\ worker[w].pos \in Slots
        /\ worker[w].pc = "store"
    BY <1>3 DEF Stores
  <2>2. OP \in worker[w].loaded /\ OP \in word[worker[w].pos]
    BY <2>1, OneActive DEF IInv, FrontierInv, WorkerAtFrontier
  <2> QED BY <2>1, <2>2, OneWord
<1>4. CASE Reports(w)
  <2>1. /\ worker[w].instructions \in Slots
        /\ word' = [word EXCEPT ![worker[w].instructions] = @ \cup ReportedBits(Failed(w))]
    BY <1>4 DEF Reports
  <2>2. \A s \in Slots : word'[s] = word[s] \/ word'[s] = word[s] \cup ReportedBits(Failed(w))
    BY <2>1, OneWord
  <2>3. OP \notin ReportedBits(Failed(w)) BY BitsDiffer DEF ReportedBits
  <2> QED BY <2>2, <2>3
<1>5. CASE Syncs(w)
  <2>1. /\ word' = word \/ word' = [word EXCEPT ![worker[w].instructions] = @ \cup {TXN_COMMITTED}]
        /\ worker[w].instructions \in Slots
    BY <1>5 DEF Syncs
  <2>2. \A s \in Slots : word'[s] = word[s] \/ word'[s] = word[s] \cup {TXN_COMMITTED}
    BY <2>1, OneWord
  <2> QED BY <2>2, BitsDiffer
<1>6. CASE Executing(w)
  <2>1. PICK ok \in BOOLEAN : Runs(w, ok) /\ (RunsMarked(w, ok) \/ RunsEnd(w)) BY <1>6 DEF Executing
  <2>2. word' = word \/ word' = [word EXCEPT ![Frontier] = @ \cup Flags(ok)]
    BY <2>1 DEF RunsMarked, RunsEnd
  <2>3. \A s \in Slots : word'[s] = word[s] \/ word'[s] = word[s] \cup Flags(ok)
    BY <2>2, SlotTypes, OneWord
  <2>4. OP \notin Flags(ok) BY BitsDiffer DEF Flags
  <2> QED BY <2>3, <2>4
<1> QED BY <1>1, <1>2, <1>3, <1>4, <1>5, <1>6, WorkerEffect

\* The log grows; what it holds stays.
LEMMA WorkerLog ==
    ASSUME IInv, NEW w \in DOMAIN worker, WorkerStep(w)
    PROVE  /\ Len(log) <= Len(log')
           /\ \A s \in 1..Len(log) : txnOf'[s] = txnOf[s] /\ result'[s] = result[s]
<1>1. log \in Seq(Slots) BY DEF IInv, TypeOK, TypeHistory
<1>2. \A s \in 1..Len(log) : s # Frontier /\ s \in 1..MaxSlots BY SlotTypes
<1>3. CASE SameHistory BY <1>1, <1>3 DEF SameHistory
<1>4. CASE Executing(w)
  <2>1. PICK ok \in BOOLEAN : Runs(w, ok) /\ (RunsMarked(w, ok) \/ RunsEnd(w)) BY <1>4 DEF Executing
  <2>2. /\ log' = Append(log, Frontier) /\ txnOf' = [txnOf EXCEPT ![Frontier] = w]
        /\ result' = result \/ result' = [result EXCEPT ![Frontier] = ok]
    BY <2>1 DEF Runs, RunsMarked, RunsEnd
  <2>3. Len(log') = Len(log) + 1 BY <1>1, <2>2
  <2>4. \A s \in 1..MaxSlots : s # Frontier => txnOf'[s] = txnOf[s] /\ result'[s] = result[s]
    BY <2>2 DEF IInv, TypeOK, TypeHistory
  <2> QED BY <1>2, <2>3, <2>4, SlotTypes
<1>5. SameHistory \/ Executing(w)
  BY WorkerEffect DEF Moves, Waits, Delimits, Stops, Commits, Stores, Reports, Syncs
<1> QED BY <1>3, <1>4, <1>5

\* A worker closes only a slot that is outside of every block and not published.
LEMMA WorkerCloses ==
    ASSUME IInv, IInv', ExecutedInv, HistoryInv, NEW w \in DOMAIN worker, WorkerStep(w)
    PROVE  \A s \in Slots : /\ Closed(s) => Closed(s)'
                            /\ Closed(s)' => Closed(s) \/ (OP \notin word[s] /\ Nest(s) = 0)
<1>1. CASE Delimits(w)
  <2>1. OP \notin word[Frontier] /\ Nest(Frontier) = 0 BY <1>1 DEF Delimits, Stops
  <2>2. \A s : Closed(s)' <=> Closed(s) \/ s = Frontier BY <1>1, DelimitTxns DEF HistoryInv
  <2> QED BY <2>1, <2>2
<1>2. CASE ~Delimits(w) BY <1>2, WorkerTxns DEF HistoryInv
<1> QED BY <1>1, <1>2

\* Steps of the workers link nothing.
LEMMA WorkerList ==
    ASSUME IInv, IInv', CursorInv, HistoryInv, ListInv, NEW w \in DOMAIN worker, WorkerStep(w)
    PROVE  ListInv' /\ SkipsKept /\ (ChainInv => ChainInv')
<1>1. UNCHANGED <<resolution, nextResolution, txnResolution, unwrittenResolution,
                  uncommittedResolution, call>>
  BY WorkerEffect DEF jsVars, reserveVars, settleVars
<1>2. \A s \in Slots : OP \in word'[s] <=> OP \in word[s] BY WorkerOps
<1>3. \A s \in Slots : /\ Closed(s) => Closed(s)'
                       /\ Closed(s)' => Closed(s) \/ (OP \notin word[s] /\ Nest(s) = 0)
  BY WorkerCloses DEF CursorInv
<1>4. ListedInv'
  <2>1. ASSUME NEW s \in Slots, Closed(s)', OP \in word'[s]
        PROVE  \E r \in Places : Is(r) /\ FP(r) = s
    <3>1. Closed(s) /\ OP \in word[s] BY <1>2, <1>3, <2>1
    <3> QED BY <3>1 DEF ListInv, ListedInv
  <2>2. ASSUME NEW r \in Places, Is(r) PROVE Closed(FP(r))'
    <3>1. PICK s \in Slots : s = FP(r) BY PlaceTypes
    <3>2. Closed(s) BY <2>2, <3>1 DEF ListInv, ListedInv
    <3>3. Closed(s)' BY <1>3, <3>2
    <3>4. FP(r)' = s BY <1>1, <3>1 DEF FP
    <3> QED BY <3>3, <3>4 DEF Closed
  <2> QED BY <1>1, <2>1, <2>2 DEF ListedInv, Places, Is, FP
<1>5. SkipsKept /\ (ChainInv => ChainInv')
  BY <1>1 DEF ChainInv, SkipsKept, Skipped, Places, Is, NextTxn, FP
<1>6. ReadInv'
  <2>1. \A r \in 1..(unwrittenResolution - 1) : FP(r) \in 1..Len(log)
    <3> TAKE r \in 1..(unwrittenResolution - 1)
    <3>1. r \in Places BY SlotTypes DEF Places
    <3>2. FP(r) \in Slots /\ FP(r) <= Len(log) BY <3>1, PlaceTypes DEF CursorInv, SweptInv
    <3> QED BY <3>2, SlotTypes
  <2>2. \A r \in 1..(unwrittenResolution - 1) : result'[FP(r)] = result[FP(r)] BY <2>1, WorkerLog
  <2> QED BY <1>1, <2>2 DEF ListInv, ReadInv, FP, Places, Is
<1> QED BY <1>4, <1>5, <1>6 DEF ListInv

\* Whose promise is still to be assigned.
LEMMA CallReserved ==
    ASSUME IInv
    PROVE  /\ Noting \/ Publishing => /\ call.res \in Reserved /\ call.res \in Places /\ call.res \in Slots
                                     /\ call.res \in Nat /\ FP(call.res) \in Slots
                                     /\ FP(call.res) < position /\ FP(call.res) \in Nat
           /\ caller.pc = "note" => /\ caller.res \in Reserved /\ caller.res \in Places
                                    /\ caller.res \in Slots /\ caller.res \in Nat
                                    /\ FP(caller.res) \in Slots /\ FP(caller.res) \in Nat
                                    /\ FP(caller.res) < position
<1>2. Noting \/ Publishing => call.res \in Reserved
  <2>1. Noting => call.res \in 0..(nextResolution - 1) /\ call.res # 0
    BY DEF IInv, CallInv, Noting
  <2>2. Noting => call.res \in Reserved
    <3>1. call.res \in 0..(nextResolution - 1) /\ call.res # 0 =>
            call.res \in Nat /\ 1 <= call.res /\ call.res < nextResolution
      BY SlotTypes
    <3> QED BY <2>1, <3>1, PlaceTypes
  <2> QED BY <2>2 DEF IInv, CallInv, Publishing
<1>3. caller.pc = "note" => caller.res \in Reserved BY DEF IInv, CallInv
<1> QED BY <1>2, <1>3, ReservedTypes

\* Nor do they split what shares a promise, or unsay what was settled.
LEMMA WorkerPromises ==
    ASSUME IInv, IInv', CursorInv, HistoryInv, PromisesInv, NEW w \in DOMAIN worker, WorkerStep(w)
    PROVE  PromisesInv'
<1>1. /\ UNCHANGED <<resolution, instr, position, nextResolution, blocks, writeBatchStart,
                     commitPromise, call, caller>>
      /\ \A r : FP(r)' = FP(r)
  BY WorkerEffect DEF jsVars, reserveVars, batchVars, promiseVars, FP
<1>2. \A s \in Slots : OP \in word'[s] <=> OP \in word[s] BY WorkerOps
<1>3. \A s \in Slots : /\ Closed(s) => Closed(s)'
                       /\ Closed(s)' => Closed(s) \/ (OP \notin word[s] /\ Nest(s) = 0)
  BY WorkerCloses DEF CursorInv
<1>4. /\ \A s : Inside(s)' <=> Inside(s)
      /\ \A r : Conditional(r)' <=> Conditional(r)
      /\ \A r : Promise(r)' = Promise(r)
  BY <1>1 DEF Inside, Nest, Conditional, Promise
<1>5. \A r \in Slots : r \in Reserved => (Published(r)' <=> Published(r))
  <2> TAKE r \in Slots
  <2>1. r \in Reserved => FP(r) \in Slots BY ReservedTypes
  <2> QED BY <1>1, <1>2, <2>1 DEF Published
<1>6. \A x : Holding(x) => Holding(x)'
  BY <1>1, <1>2, <1>3 DEF Holding
<1>7. \A p, q : Joined(p, q) => Joined(p, q)'
  <2> SUFFICES ASSUME NEW p, NEW q, Joined(p, q) PROVE Joined(p, q)' OBVIOUS
  <2>1. ASSUME NEW s \in Slots, (FP(p) < s /\ s <= FP(q)) \/ (FP(q) < s /\ s <= FP(p))
        PROVE  s < position /\ (OP \in word'[s] \/ Inside(s)') /\ ~Closed(s)'
    <3>1. s < position /\ (OP \in word[s] \/ Inside(s)) /\ ~Closed(s) BY <2>1 DEF Joined
    <3>2. ~(OP \notin word[s] /\ Nest(s) = 0) BY <3>1 DEF Inside
    <3> QED BY <1>2, <1>3, <1>4, <3>1, <3>2
  <2> QED BY <1>1, <2>1 DEF Joined
<1>8. UnpublishedInv'
  <2>1. \A s \in 1..(position - 1) : s \in Slots
    <3>1. position \in Slots BY DEF IInv, TypeOK, TypeReserve
    <3> QED BY <3>1, SlotTypes
  <2> QED BY <1>1, <1>2, <2>1 DEF PromisesInv, UnpublishedInv, Publishing, Deferred
<1>9. DeferInv'
  BY <1>1, <1>4 DEF PromisesInv, DeferInv, Deferred, Reserved, Noting, Publishing
<1>10. NestedInv'
  BY <1>1, <1>4 DEF PromisesInv, NestedInv, Nested, Noting, Publishing
<1>11. SharedInv'
  BY <1>1, <1>4, <1>6 DEF PromisesInv, SharedInv, Reserved
<1>12. HoldInv'
  <2>1. \A r \in Reserved : r \in Slots /\ (Unassigned(r) => Unassigned(r)')
    <3>1. \A r \in Reserved : r \in Slots BY ReservedTypes
    <3> QED BY <1>1, <1>4, <1>5, <1>6, <3>1 DEF Unassigned
  <2>2. (Noting => call.res \in Reserved) /\ (caller.pc = "note" => caller.res \in Reserved)
    BY CallReserved
  <2> QED BY <1>1, <2>1, <2>2 DEF PromisesInv, HoldInv, Noting
<1>13. AssignedTo' /\ JoinInv'
  <2>1. AssignedTo' BY <1>1, <1>4, <1>5 DEF PromisesInv, AssignedTo, Reserved
  <2>2. ASSUME NEW q \in Slots, Shares(q)' PROVE \E p \in Reserved' : SharesWith(q, p)'
    <3>1. Shares(q) BY <1>4, <2>2 DEF Shares
    <3>2. PICK p \in Reserved : SharesWith(q, p) BY <3>1 DEF PromisesInv, JoinInv
    <3>3. p \in Slots BY ReservedTypes
    <3>4. SharesWith(q, p)' BY <1>1, <1>4, <1>7, <3>2, <3>3 DEF SharesWith, Reserved
    <3> QED BY <1>1, <3>4 DEF Reserved
  <2> QED BY <2>1, <2>2 DEF JoinInv
<1> QED BY <1>8, <1>9, <1>10, <1>11, <1>12, <1>13 DEF PromisesInv

\* A right answer stays right.
LEMMA KeepAnswered ==
    ASSUME IInv, EndsGrow, OutcomesKept, SkipsKept, NEW a, NEW v \in Ended, v \in DOMAIN worker,
           Answered(a, v)
    PROVE  Answered(a, v)'
<1>1. ASSUME NEW u \in DOMAIN worker, Agrees(a, u) PROVE Agrees(a, u)'
  BY <1>1 DEF Agrees, OutcomesKept
<1>2. CASE Agrees(a, v) BY <1>1, <1>2 DEF Answered
<1>3. ASSUME Skipped(End(v)), NEW u \in Ended, v < u, Agrees(a, u) PROVE Answered(a, v)'
  <2>1. u \in DOMAIN worker
    <3>1. v \in Nat /\ 1 <= v /\ u \in Nat BY <1>3, EndTypes
    <3>2. u # 0 BY <1>3, <3>1
    <3> QED BY <3>2, EndTypes
  <2>2. PICK e \in Nat : e = End(v) BY EndTypes
  <2>3. Skipped(e)' /\ End(v)' = e BY <1>3, <2>2 DEF SkipsKept, EndsGrow
  <2>4. Skipped(End(v))' BY <2>3 DEF Skipped
  <2>5. u \in Ended' /\ Agrees(a, u)' BY <1>1, <1>3, <2>1 DEF EndsGrow
  <2> QED BY <1>3, <2>4, <2>5 DEF Answered
<1> QED BY <1>2, <1>3 DEF Answered

\* Nor do they unsay what was settled.
LEMMA WorkerSettled ==
    ASSUME IInv, IInv', CursorInv, HistoryInv, SettledInv, SkipsKept, NEW w \in DOMAIN worker, WorkerStep(w)
    PROVE  SettledInv'
<1>1. UNCHANGED <<resolution, instr, nextResolution>> /\ \A r : FP(r)' = FP(r)
  BY WorkerEffect DEF jsVars, reserveVars, FP
<1>2. \A r : (Conditional(r)' <=> Conditional(r)) /\ Promise(r)' = Promise(r)
  BY <1>1 DEF Conditional, Promise
<1> SUFFICES ASSUME NEW r \in Slots, Settled(r) # "pending"
             PROVE  /\ Promise(r) = r /\ r \in Reserved /\ FP(r) <= Len(log') /\ txnOf'[FP(r)] \in Ended'
                    /\ Answered(Settled(r), txnOf[FP(r)])'
                    /\ Conditional(r) /\ Settled(r) # "rejected" => (Settled(r) = "true") = result'[FP(r)]
  BY <1>1, <1>2 DEF SettledInv, Settled, Reserved
<1>3. /\ Promise(r) = r /\ r \in Reserved /\ FP(r) <= Len(log) /\ txnOf[FP(r)] \in Ended
      /\ Answered(Settled(r), txnOf[FP(r)])
      /\ Conditional(r) /\ Settled(r) # "rejected" => (Settled(r) = "true") = result[FP(r)]
  BY DEF SettledInv
<1>4. FP(r) \in 1..Len(log) /\ FP(r) \in Nat
  <2>1. FP(r) \in Slots /\ FP(r) \in Nat BY <1>3, ReservedTypes
  <2> QED BY <1>3, <2>1, SlotTypes
<1>5. txnOf'[FP(r)] = txnOf[FP(r)] /\ result'[FP(r)] = result[FP(r)] /\ Len(log) <= Len(log')
  BY <1>4, WorkerLog
<1>6. Len(log) \in Nat /\ Len(log') \in Nat BY DEF IInv, TypeOK, TypeHistory
<1>7. FP(r) <= Len(log') BY <1>3, <1>4, <1>5, <1>6
<1>8. PICK v \in Ended : v = txnOf[FP(r)] BY <1>3
<1>9. v \in Ended' /\ v \in DOMAIN worker
  <2>1. v \in Ended' BY WorkerTxns DEF CursorInv, HistoryInv, EndsGrow
  <2>2. v \in DOMAIN worker BY <1>4, <1>8 DEF HistoryInv, TxnInv, SpanInv
  <2> QED BY <2>1, <2>2
<1>10. PICK a : a = Settled(r) /\ a = Settled(r)' BY <1>1 DEF Settled
<1>11. Answered(a, v)'
  <2>1. Answered(a, v) BY <1>3, <1>8, <1>10
  <2>2. EndsGrow /\ OutcomesKept BY WorkerTxns, WorkerOutcomes DEF CursorInv, HistoryInv
  <2> QED BY <1>9, <2>1, <2>2, KeepAnswered
<1>12. Answered(Settled(r), txnOf[FP(r)])'
  <2>1. txnOf'[FP(r)'] = v BY <1>1, <1>5, <1>8
  <2> QED BY <1>10, <1>11, <2>1
<1> QED BY <1>3, <1>5, <1>7, <1>8, <1>9, <1>12

-----------------------------------------------------------------------------
(* Steps of the JavaScript thread keep the history. *)

\* They publish, or drop what a worker wrote into an empty slot.
JsWords ==
    \A s \in Slots : \/ word'[s] = word[s]
                     \/ word'[s] = word[s] \cup {OP}
                     \/ OP \notin word[s] /\ word'[s] = {OP}

\* They take note of a worker that is done, or start one.
Noted(e, d) ==
    /\ SameEnd(e, d) /\ e.pos = d.pos /\ e.loaded = d.loaded
    /\ e.pc = d.pc \/ (d.pc = "done" /\ e.pc = "gone")
JsWorkers ==
    /\ \A v \in DOMAIN worker : v \in DOMAIN worker' /\ Noted(worker'[v], worker[v])
    /\ \/ DOMAIN worker' = DOMAIN worker /\ Len(worker') = Len(worker)
       \/ /\ ActiveWorkers = {} /\ Len(worker') = Len(worker) + 1
          /\ \A v \in DOMAIN worker' :
               v \in DOMAIN worker \/ (worker'[v].pc = "queued" /\ worker'[v].outcome = "none")

LEMMA SameWorkers ==
    ASSUME UNCHANGED worker
    PROVE  JsWorkers
BY SMTT(30) DEF JsWorkers, Noted, SameEnd

LEMMA StartedWorker ==
    ASSUME IInv, NEW address, NEW resolvers, ActiveWorkers = {},
           worker' = Append(worker, NewWorker(address, resolvers))
    PROVE  JsWorkers
<1>1. worker \in Seq(Worker) /\ Len(worker) \in Nat BY EndTypes DEF IInv, TypeOK, TypeWorker
<1> DEFINE e == NewWorker(address, resolvers)
<1>2. e.pc = "queued" /\ e.outcome = "none" BY DEF NewWorker
<1> HIDE DEF e
<1>3. /\ Len(worker') = Len(worker) + 1 /\ DOMAIN worker' = 1..(Len(worker) + 1)
      /\ DOMAIN worker = 1..Len(worker)
      /\ worker'[Len(worker) + 1] = e /\ \A v \in 1..Len(worker) : worker'[v] = worker[v]
  BY <1>1 DEF e
<1>4. \A v \in DOMAIN worker' : v \in DOMAIN worker \/ v = Len(worker) + 1 BY <1>1, <1>3
<1>5. \A v \in DOMAIN worker : v \in DOMAIN worker' /\ worker'[v] = worker[v] BY <1>1, <1>3, SMTT(30)
<1> QED BY <1>2, <1>3, <1>4, <1>5 DEF JsWorkers, Noted, SameEnd

LEMMA NotedWorker ==
    ASSUME IInv, IInv', NEW w \in DOMAIN worker, NEW e, worker' = [worker EXCEPT ![w] = e],
           Noted(e, worker[w])
    PROVE  JsWorkers
<1>1. worker \in Seq(Worker) /\ worker' \in Seq(Worker) BY DEF IInv, TypeOK, TypeWorker
<1>2. /\ DOMAIN worker' = DOMAIN worker /\ worker'[w] = e
      /\ \A v \in DOMAIN worker : v # w => worker'[v] = worker[v]
  BY <1>1
<1>3. Len(worker') = Len(worker) BY <1>1, <1>2, SameLength
<1>4. \A v \in DOMAIN worker : Noted(worker'[v], worker[v]) BY <1>2 DEF Noted, SameEnd
<1> QED BY <1>2, <1>3, <1>4 DEF JsWorkers

LEMMA JsHistory ==
    ASSUME IInv, IInv', ExecutedInv, HistoryInv, JsWords, JsWorkers, SameHistory,
           \A s \in 1..Len(log) : instr'[s].kind = instr[s].kind
    PROVE  /\ HistoryInv' /\ EndsKept /\ OutcomesKept
           /\ \A s : Closed(s)' <=> Closed(s)
<1>1. \A v \in DOMAIN worker : /\ v \in DOMAIN worker' /\ Noted(worker'[v], worker[v])
                               /\ worker'[v].pc \in ClosedPc <=> worker[v].pc \in ClosedPc
                               /\ worker'[v].instructions = worker[v].instructions
  BY DEF JsWorkers, Noted, SameEnd, ClosedPc
<1>2. \A v \in DOMAIN worker' :
        v \in DOMAIN worker \/ (worker'[v].pc = "queued" /\ worker'[v].outcome = "none")
  BY DEF JsWorkers
<1>3. EndsKept /\ \A s : Closed(s)' <=> Closed(s)
  <2>1. \A v \in DOMAIN worker' : v \in DOMAIN worker \/ worker'[v].pc \notin ClosedPc
    BY <1>2 DEF ClosedPc
  <2> QED BY <1>1, <2>1, KeepEnds
<1>4. OutcomesKept
  BY <1>1 DEF OutcomesKept, Failed, Acknowledged, Noted, SameEnd
<1>5. \A s : (SaidDone(s) => SaidDone(s)') /\ (SaidFailed(s) => SaidFailed(s)')
  BY <1>3, <1>4, KeepSaid DEF EndsKept
<1>6. TxnInv'
  BY <1>1, <1>3, KeepTxns DEF HistoryInv, SameHistory, JsWorkers
<1>7. OutcomeInv'
  <2>1. ASSUME NEW v \in DOMAIN worker'
        PROVE  /\ worker'[v].pc \notin ClosedPc \/ worker'[v].pc = "commit" => worker'[v].outcome = "none"
               /\ worker'[v].pc = "report" =>
                    Failed(v)' \/ (worker'[v].outcome = "ok" /\ (~OverlappingSync => worker'[v].durable))
               /\ worker'[v].pc = "sync" => worker'[v].outcome = "ok"
    <3>1. CASE v \in DOMAIN worker
      BY <1>1, <3>1 DEF HistoryInv, OutcomeInv, Noted, SameEnd, Failed, ClosedPc
    <3>2. CASE v \notin DOMAIN worker BY <1>2, <3>2 DEF ClosedPc
    <3> QED BY <3>1, <3>2
  <2> QED BY <2>1 DEF OutcomeInv
<1>8. OpenInv'
  <2>1. \A s \in Slots : OP \notin word'[s] => word'[s] = word[s] BY DEF JsWords
  <2> QED BY <1>3, <2>1 DEF HistoryInv, OpenInv
<1>9. MarkInv'
  <2>1. \A s \in Slots : /\ TXN_COMMITTED \in word'[s] => TXN_COMMITTED \in word[s]
                         /\ TXN_FAILED \in word'[s] => TXN_FAILED \in word[s]
    BY BitsDiffer DEF JsWords
  <2> QED BY <1>5, <2>1 DEF HistoryInv, MarkInv
<1>10. LoadedInv'
  <2> SUFFICES ASSUME NEW v \in DOMAIN worker', worker'[v].pc = "store"
               PROVE  /\ TXN_COMMITTED \in worker'[v].loaded => SaidDone(worker[v].pos)'
                      /\ TXN_FAILED \in worker'[v].loaded => SaidFailed(worker[v].pos)'
                      /\ FINISHED_OPERATION \in worker'[v].loaded /\ txnOf'[worker'[v].pos] = v
                      /\ FAILED_CONDITION \in worker'[v].loaded <=> ~result'[worker'[v].pos]
    BY DEF LoadedInv
  <2>1. v \in DOMAIN worker BY <1>2
  <2>2. worker[v].pc = "store" /\ worker'[v].pos = worker[v].pos /\ worker'[v].loaded = worker[v].loaded
    BY <1>1, <2>1 DEF Noted
  <2>3. PICK s : s = worker[v].pos OBVIOUS
  <2>4. /\ TXN_COMMITTED \in worker[v].loaded => SaidDone(s)
        /\ TXN_FAILED \in worker[v].loaded => SaidFailed(s)
        /\ FINISHED_OPERATION \in worker[v].loaded /\ txnOf[s] = v
        /\ FAILED_CONDITION \in worker[v].loaded <=> ~result[s]
    BY <2>1, <2>2, <2>3 DEF HistoryInv, LoadedInv
  <2>5. (SaidDone(worker[v].pos)' <=> SaidDone(s)') /\ (SaidFailed(worker[v].pos)' <=> SaidFailed(s)')
    BY <2>2, <2>3 DEF SaidDone, SaidFailed
  <2> QED BY <1>5, <2>2, <2>3, <2>4, <2>5 DEF SameHistory
<1>11. ToldInv'
  <2>1. ASSUME NEW s \in Slots
        PROVE  /\ FINISHED_OPERATION \in word'[s] => (FAILED_CONDITION \in word'[s] <=> ~result[s])
               /\ FAILED_CONDITION \in word'[s] => FINISHED_OPERATION \in word'[s]
    <3>1. CASE OP \notin word[s] /\ word'[s] = {OP} BY <3>1, BitsDiffer
    <3>2. CASE word'[s] = word[s] \/ word'[s] = word[s] \cup {OP}
      <4>1. /\ FINISHED_OPERATION \in word'[s] <=> FINISHED_OPERATION \in word[s]
            /\ FAILED_CONDITION \in word'[s] <=> FAILED_CONDITION \in word[s]
        BY <3>2, BitsDiffer
      <4>2. /\ FINISHED_OPERATION \in word[s] => (FAILED_CONDITION \in word[s] <=> ~result[s])
            /\ FAILED_CONDITION \in word[s] => FINISHED_OPERATION \in word[s]
        BY DEF HistoryInv, ToldInv
      <4> QED BY <4>1, <4>2
    <3> QED BY <3>1, <3>2 DEF JsWords
  <2> QED BY <2>1 DEF ToldInv, SameHistory
<1>12. FinishedInv'
  <2>1. ASSUME NEW s \in 1..Len(log)
        PROVE  \/ FINISHED_OPERATION \in word'[s] \/ instr'[s].kind = "END"
               \/ \E w \in DOMAIN worker' : worker'[w].pc = "store" /\ worker'[w].pos = s
    <3>1. s \in Slots /\ OP \in word[s] BY SlotTypes DEF ExecutedInv, RunInv
    <3>2. FINISHED_OPERATION \in word[s] => FINISHED_OPERATION \in word'[s] BY <3>1 DEF JsWords
    <3>3. ASSUME NEW w \in DOMAIN worker, worker[w].pc = "store", worker[w].pos = s
          PROVE  w \in DOMAIN worker' /\ worker'[w].pc = "store" /\ worker'[w].pos = s
      BY <1>1, <3>3 DEF Noted
    <3> QED BY <3>2, <3>3 DEF HistoryInv, FinishedInv
  <2> QED BY <2>1 DEF FinishedInv, SameHistory
<1> QED BY <1>3, <1>4, <1>6, <1>7, <1>8, <1>9, <1>10, <1>11, <1>12 DEF HistoryInv

\* The slots reserved so far.
LEMMA PositionTypes ==
    ASSUME IInv
    PROVE  /\ position \in Slots /\ position \in Nat
           /\ \A s \in 1..(position - 1) : s \in Slots /\ s < position /\ s \in Nat
<1>1. position \in Slots BY DEF IInv, TypeOK, TypeReserve
<1>2. position \in Nat /\ position <= MaxSlots + 1 /\ MaxSlots \in Nat BY <1>1, SlotTypes
<1>3. ASSUME NEW s \in 1..(position - 1) PROVE s \in Slots /\ s < position /\ s \in Nat
  <2>1. s \in Nat /\ s # 0 /\ s < position /\ s <= MaxSlots + 1 BY <1>2
  <2> QED BY <2>1, SlotTypes
<1> QED BY <1>1, <1>2, <1>3

-----------------------------------------------------------------------------
(* Steps of the JavaScript thread that reserve nothing. *)

\* What happened so far stays as it is.
Steady == EndsKept /\ OutcomesKept /\ SameHistory /\ \A s : Closed(s)' <=> Closed(s)

\* So do the reserved slots.
SamePlaces ==
    /\ UNCHANGED <<instr, position, nextResolution, blocks>>
    /\ \A r \in Slots : FP(r)' = FP(r)

LEMMA PlacesKept ==
    ASSUME IInv, SamePlaces
    PROVE  /\ Places' = Places /\ Reserved' = Reserved /\ \A s : Inside(s)' <=> Inside(s)
           /\ \A r \in Slots : Conditional(r)' <=> Conditional(r)
           /\ \A r \in Slots : instr'[FP(r)'] = instr[FP(r)]
<1>1. \A r \in Slots : instr'[FP(r)'] = instr[FP(r)] BY DEF SamePlaces
<1>2. \A r \in Slots : Conditional(r)' <=> Conditional(r) BY <1>1 DEF Conditional, FP
<1> QED BY <1>1, <1>2 DEF SamePlaces, Places, Reserved, Inside, Nest

\* What is settled stays settled.
LEMMA KeepSettled ==
    ASSUME IInv, TxnInv, SettledInv, Steady, SkipsKept,
           \A r \in Reserved : r \in Reserved',
           \A r \in Slots : /\ Settled(r) = "pending" => Settled(r)' = "pending"
                            /\ Settled(r) # "pending" => /\ Settled(r)' = Settled(r) /\ FP(r)' = FP(r)
                                                         /\ Promise(r)' = Promise(r)
                                                         /\ (Conditional(r)' <=> Conditional(r))
    PROVE  SettledInv'
<1> SUFFICES ASSUME NEW r \in Slots, Settled(r)' # "pending"
             PROVE  /\ Promise(r)' = r /\ r \in Reserved' /\ FP(r)' <= Len(log') /\ txnOf'[FP(r)'] \in Ended'
                    /\ Answered(Settled(r), txnOf[FP(r)])'
                    /\ Conditional(r)' /\ Settled(r)' # "rejected" =>
                         (Settled(r)' = "true") = result'[FP(r)']
  BY DEF SettledInv
<1>1. Settled(r) # "pending" OBVIOUS
<1>2. /\ Settled(r)' = Settled(r) /\ FP(r)' = FP(r) /\ Promise(r)' = Promise(r)
      /\ (Conditional(r)' <=> Conditional(r))
  BY <1>1
<1>3. /\ Promise(r) = r /\ r \in Reserved /\ FP(r) <= Len(log) /\ txnOf[FP(r)] \in Ended
      /\ Answered(Settled(r), txnOf[FP(r)])
      /\ Conditional(r) /\ Settled(r) # "rejected" => (Settled(r) = "true") = result[FP(r)]
  BY <1>1 DEF SettledInv
<1>4. PICK v \in Ended : v = txnOf[FP(r)] BY <1>3
<1>5. v \in DOMAIN worker
  <2>1. FP(r) \in 1..Len(log) BY <1>3, ReservedTypes, SlotTypes
  <2> QED BY <1>4, <2>1 DEF TxnInv, SpanInv
<1>6. PICK a : a = Settled(r) /\ a = Settled(r)' BY <1>2
<1>7. txnOf'[FP(r)'] = v /\ v \in Ended' BY <1>2, <1>4 DEF Steady, SameHistory, EndsKept
<1>8. Answered(Settled(r), txnOf[FP(r)])'
  <2>1. Answered(a, v) BY <1>3, <1>4, <1>6
  <2>2. Answered(a, v)' BY <1>5, <2>1, KeepAnswered DEF Steady, EndsKept
  <2> QED BY <1>6, <1>7, <2>2
<1> QED BY <1>2, <1>3, <1>7, <1>8 DEF Steady, SameHistory

\* Links that stay skip what they skipped.
LEMMA SameLinksSkip ==
    ASSUME IInv, \A r \in Slots : NextTxn(r)' = NextTxn(r) /\ FP(r)' = FP(r)
    PROVE  SkipsKept
<1> SUFFICES ASSUME NEW e \in Nat, Skipped(e) PROVE Skipped(e)' BY DEF SkipsKept
<1>1. PICK q \in Slots : NextTxn(q) # 0 /\ FP(q) < e /\ e < FP(NextTxn(q)) BY DEF Skipped
<1>2. PICK n \in Slots : n = NextTxn(q) BY <1>1, PlaceTypes, SlotTypes
<1>3. NextTxn(q)' = n /\ FP(n)' = FP(n) /\ FP(q)' = FP(q) BY <1>2
<1>4. FP(NextTxn(q))' = FP(n) BY <1>3 DEF FP
<1>5. NextTxn(q)' # 0 /\ FP(q)' < e /\ e < FP(NextTxn(q))' BY <1>1, <1>2, <1>3, <1>4
<1> QED BY <1>5 DEF Skipped

LEMMA SkippedKept ==
    ASSUME IInv, SkipsKept, NEW r \in Slots, FP(r)' = FP(r), Skipped(FP(r))
    PROVE  Skipped(FP(r))'
<1>1. PICK e \in Nat : e = FP(r) BY PlaceTypes
<1>2. Skipped(e)' /\ FP(r)' = e BY <1>1 DEF SkipsKept
<1> QED BY <1>2 DEF Skipped

\* The list of delimiters stays, and no closed slot is published.
LEMMA KeepLinks ==
    ASSUME IInv, CursorInv, ListInv, Steady, SamePlaces,
           UNCHANGED <<txnResolution, uncommittedResolution>>,
           \A r \in Slots : Is(r)' = Is(r) /\ NextTxn(r)' = NextTxn(r),
           \A s \in Slots : OP \in word'[s] => OP \in word[s] \/ ~Closed(s)
    PROVE  ListedInv' /\ SkipsKept /\ (ChainInv => ChainInv')
<1>1. /\ Places' = Places /\ \A r \in Places : r \in Slots /\ FP(r) \in Slots /\ FP(r)' = FP(r)
  BY PlacesKept, PlaceTypes DEF SamePlaces
<1>2. ListedInv'
  <2>1. ASSUME NEW s \in Slots, Closed(s)', OP \in word'[s]
        PROVE  \E r \in Places : Is(r)' /\ FP(r)' = s
    <3>1. Closed(s) /\ OP \in word[s] BY <2>1 DEF Steady
    <3> QED BY <1>1, <3>1 DEF ListInv, ListedInv
  <2>2. ASSUME NEW r \in Places, Is(r)' PROVE Closed(FP(r))'
    <3>1. PICK s \in Slots : s = FP(r) BY <1>1
    <3>2. Is(r) BY <1>1, <2>2
    <3>3. Closed(s) BY <3>1, <3>2 DEF ListInv, ListedInv
    <3>4. Closed(s)' BY <3>3 DEF Steady
    <3>5. FP(r)' = s BY <1>1, <3>1
    <3> QED BY <3>4, <3>5 DEF Closed
  <2> QED BY <1>1, <2>1, <2>2 DEF ListedInv
<1>3. SkipsKept
  <2>1. \A r \in Slots : FP(r)' = FP(r) BY DEF SamePlaces
  <2> QED BY <2>1, SameLinksSkip
<1>4. ChainInv => ChainInv'
  <2>1. txnResolution # 0 => NextTxn(txnResolution)' = NextTxn(txnResolution)
    <3>1. txnResolution # 0 => txnResolution \in Slots BY PlaceTypes
    <3>2. UNCHANGED txnResolution OBVIOUS
    <3> QED BY <3>1, <3>2 DEF NextTxn
  <2>2. \A r \in Places : Skipped(FP(r)) => Skipped(FP(r))' BY <1>1, <1>3, SkippedKept
  <2> QED BY <1>1, <2>1, <2>2 DEF ChainInv
<1> QED BY <1>2, <1>3, <1>4

\* What was read stays as it was read.
LEMMA KeepRead ==
    ASSUME IInv, ListInv, Steady, SamePlaces, UNCHANGED unwrittenResolution,
           \A r \in Slots : resolution'[r].flag = resolution[r].flag,
           call'.pc = "settle" => \A r \in Places : Is(r)' => r <= unwrittenResolution
    PROVE  ReadInv'
<1>1. \A r \in 1..(unwrittenResolution - 1) : r \in Slots
  <2> TAKE r \in 1..(unwrittenResolution - 1)
  <2>1. r \in Places BY SlotTypes DEF Places
  <2> QED BY <2>1, PlaceTypes
<1>2. Places' = Places /\ \A r \in Places : r \in Slots BY PlacesKept, PlaceTypes
<1> QED BY <1>1, <1>2 DEF ListInv, ReadInv, Steady, SameHistory, SamePlaces

\* Writes that share a promise are in one transaction for good.
LEMMA KeepJoined ==
    ASSUME IInv, Steady, position <= position', position' \in Nat,
           NEW p, NEW q, FP(p)' = FP(p), FP(q)' = FP(q),
           \A s \in Slots : s < position => /\ Inside(s) => Inside(s)'
                                            /\ OP \in word[s] => OP \in word'[s],
           Joined(p, q)
    PROVE  Joined(p, q)'
<1> SUFFICES ASSUME NEW s \in Slots, (FP(p) < s /\ s <= FP(q)) \/ (FP(q) < s /\ s <= FP(p))
             PROVE  s < position' /\ (OP \in word'[s] \/ Inside(s)') /\ ~Closed(s)'
  BY DEF Joined
<1>1. s < position /\ (OP \in word[s] \/ Inside(s)) /\ ~Closed(s) BY DEF Joined
<1>2. position \in Nat /\ s \in Nat
  <2>1. position \in Slots BY DEF IInv, TypeOK, TypeReserve
  <2> QED BY <2>1, SlotTypes
<1>3. s < position' BY <1>1, <1>2
<1>4. s < position BY <1>1
<1>5. (Inside(s) => Inside(s)') /\ (OP \in word[s] => OP \in word'[s]) BY <1>4, Zenon
<1>6. OP \in word'[s] \/ Inside(s)' BY <1>1, <1>5, Zenon
<1>7. ~Closed(s)' BY <1>1 DEF Steady
<1> QED BY <1>3, <1>6, <1>7, Zenon

LEMMA KeepShares ==
    ASSUME IInv, IInv', Steady, AssignedTo, position <= position',
           \A r \in Reserved : /\ r \in Reserved' /\ FP(r)' = FP(r)
                               /\ Conditional(r)' <=> Conditional(r),
           \A s \in Slots : s < position => /\ Inside(s) => Inside(s)'
                                            /\ OP \in word[s] => OP \in word'[s],
           NEW q \in Slots, NEW p \in Reserved, SharesWith(q, p), Promise(p)' = p, Promise(q)' = p
    PROVE  SharesWith(q, p)'
<1>1. q \in Reserved
  <2>1. Promise(q) # NoPromise BY ReservedTypes DEF SharesWith, NoPromise
  <2> QED BY <2>1 DEF AssignedTo
<1>2. position' \in Nat
  <2>1. position' \in Slots BY DEF IInv, TypeOK, TypeReserve
  <2> QED BY <2>1, SlotTypes
<1>3. FP(p)' = FP(p) /\ FP(q)' = FP(q) /\ Joined(p, q) BY <1>1 DEF SharesWith
<1>4. Joined(p, q)' BY <1>2, <1>3, KeepJoined
<1> QED BY <1>1, <1>4 DEF SharesWith

\* Nothing is published or promised, and the running closure stays the same or returns.
LEMMA KeepPromises ==
    ASSUME IInv, IInv', PromisesInv, Steady, SamePlaces, UNCHANGED <<word, commitPromise, writeBatchStart, caller>>,
           \A r \in Slots : Promise(r)' = Promise(r),
           Noting' => Noting /\ call'.res = call.res,
           Publishing' <=> Publishing, Publishing => call'.res = call.res
    PROVE  PromisesInv'
<1>1. /\ Reserved' = Reserved /\ Places' = Places /\ \A s : Inside(s)' <=> Inside(s)
      /\ \A r \in Slots : Conditional(r)' <=> Conditional(r)
      /\ \A r \in Slots : instr'[FP(r)'] = instr[FP(r)]
      /\ position' = position /\ blocks' = blocks
      /\ \A r \in Slots : FP(r)' = FP(r)
  BY PlacesKept DEF SamePlaces
<1>2. \A r \in Reserved : r \in Slots BY ReservedTypes
<1>3. \A r \in Slots : (Published(r)' <=> Published(r)) /\ (Holding(r) => Holding(r)')
  BY <1>1 DEF Published, Holding, Steady
<1>4. \A r \in Slots : Unassigned(r) => Unassigned(r)' BY <1>3 DEF Unassigned
<1>5. /\ Deferred' <=> Deferred
      /\ Deferred => writeBatchStart \in Slots /\ writeBatchStart \in Reserved
  BY <1>1, <1>2 DEF Deferred, IInv, DeferredInv
<1>6. /\ Noting \/ Publishing => call.res \in Slots
      /\ caller.pc = "note" => caller.res \in Slots
  BY CallReserved
<1>7. commitPromise # 0 => commitPromise \in Slots BY <1>2 DEF PromisesInv, SharedInv
<1>8. UnpublishedInv'
  BY <1>1, <1>5, <1>6 DEF PromisesInv, UnpublishedInv
<1>9. DeferInv'
  <2> SUFFICES ASSUME Deferred'
               PROVE  /\ writeBatchStart = blocks[1]
                      /\ \A s \in Slots : FP(writeBatchStart)' < s /\ s < position => Inside(s)'
                      /\ ~EventTurnBatching =>
                           \A r \in Reserved : r > writeBatchStart => instr'[FP(r)'].depth > 1
                      /\ EventTurnBatching /\ commitPromise # 0 => commitPromise >= writeBatchStart
                      /\ Noting' \/ Publishing' => writeBatchStart < call'.res
    BY <1>1 DEF DeferInv
  <2>1. FP(writeBatchStart)' = FP(writeBatchStart)
    <3>1. writeBatchStart \in Slots BY <1>5
    <3> QED BY <1>1, <3>1 DEF FP
  <2> QED BY <1>1, <1>2, <1>5, <2>1 DEF PromisesInv, DeferInv
<1>10. ASSUME NEW r \in Slots, Nested(r) PROVE Nested(r)'
  <2>1. commitPromise > r => commitPromise \in Slots /\ FP(commitPromise)' = FP(commitPromise)
    <3>1. commitPromise > r => commitPromise # 0
      <4>1. r \in Nat /\ 1 <= r BY SlotTypes
      <4> QED BY <4>1
    <3> QED BY <1>1, <1>7, <3>1 DEF FP
  <2> QED BY <1>1, <1>10, <2>1 DEF Nested
<1>11. NestedInv'
  <2>1. Noting' \/ Publishing' => call'.res = call.res /\ (Noting \/ Publishing) OBVIOUS
  <2>2. Noting' \/ Publishing' => Nested(call.res)'
    <3>1. ASSUME Noting \/ Publishing PROVE \E r \in Slots : r = call.res /\ Nested(r)'
      BY <1>6, <1>10, <3>1 DEF PromisesInv, NestedInv
    <3>2. ASSUME NEW r \in Slots, r = call.res, Nested(r)', call'.res = call.res PROVE Nested(call.res)'
      BY <3>2 DEF Nested, FP
    <3> QED BY <2>1, <3>1, <3>2
  <2> QED BY <2>2 DEF PromisesInv, NestedInv
<1>12. SharedInv'
  <2>1. SharedInv BY DEF PromisesInv
  <2> SUFFICES ASSUME commitPromise # 0
               PROVE  /\ commitPromise \in Reserved' /\ Promise(commitPromise)' = commitPromise
                      /\ ~Conditional(commitPromise)' /\ Holding(commitPromise)'
    BY DEF SharedInv
  <2>2. PICK c \in Slots : c = commitPromise BY <1>7
  <2>3. c \in Reserved /\ Promise(c) = c /\ ~Conditional(c) /\ Holding(c) BY <2>1, <2>2 DEF SharedInv
  <2>4. c \in Reserved' /\ Promise(c)' = c /\ ~Conditional(c)' /\ Holding(c)' BY <1>1, <1>3, <2>3
  <2> QED BY <2>2, <2>4 DEF Promise, Conditional, Holding, FP
<1>13. HoldInv'
  <2>1. Noting' => Unassigned(call.res)'
    <3> SUFFICES ASSUME Noting' PROVE Unassigned(call.res)' OBVIOUS
    <3>1. PICK r \in Slots : r = call.res BY <1>6
    <3>2. Unassigned(r) BY <3>1 DEF PromisesInv, HoldInv
    <3>3. Unassigned(r)' /\ r = call'.res BY <1>4, <3>1, <3>2
    <3> QED BY <3>3 DEF Unassigned, Published, Promise, Holding, FP
  <2>2. caller.pc = "note" => Unassigned(caller.res)'
    <3> SUFFICES ASSUME caller.pc = "note" PROVE Unassigned(caller.res)' OBVIOUS
    <3>1. PICK r \in Slots : r = caller.res BY <1>6
    <3>2. Unassigned(r) BY <3>1 DEF PromisesInv, HoldInv
    <3>3. Unassigned(r)' /\ r = caller'.res BY <1>4, <3>1, <3>2
    <3> QED BY <3>3 DEF Unassigned, Published, Promise, Holding, FP
  <2> QED BY <2>1, <2>2 DEF HoldInv
<1>14. AssignedTo' BY <1>1, <1>3 DEF PromisesInv, AssignedTo
<1>15. JoinInv'
  <2> SUFFICES ASSUME NEW q \in Slots, Shares(q)' PROVE \E p \in Reserved' : SharesWith(q, p)'
    BY DEF JoinInv
  <2>1. Shares(q) BY DEF Shares
  <2>2. PICK p \in Reserved : SharesWith(q, p) BY <2>1 DEF PromisesInv, JoinInv
  <2>3. Promise(p)' = p /\ Promise(q)' = p BY <1>2, <2>2 DEF SharesWith
  <2>4. position <= position'
    <3>1. position \in Slots BY DEF IInv, TypeOK, TypeReserve
    <3> QED BY <1>1, <3>1, SlotTypes
  <2>5. \A r \in Reserved : /\ r \in Reserved' /\ FP(r)' = FP(r)
                            /\ Conditional(r)' <=> Conditional(r)
    BY <1>1, <1>2
  <2>6. \A s \in Slots : s < position => /\ Inside(s) => Inside(s)'
                                         /\ OP \in word[s] => OP \in word'[s]
    BY <1>1
  <2>7. AssignedTo BY DEF PromisesInv
  <2>8. SharesWith(q, p)' BY <2>2, <2>3, <2>4, <2>5, <2>6, <2>7, KeepShares
  <2> QED BY <1>1, <2>8
<1> QED BY <1>8, <1>9, <1>11, <1>12, <1>13, <1>14, <1>15 DEF PromisesInv

-----------------------------------------------------------------------------
(* Steps that change neither a word nor a promise. *)

\* Nothing is published or promised.
LEMMA QuietTruth ==
    ASSUME IInv, CursorInv, GroupInv, IInv', SamePlaces, JsWorkers, SameHistory,
           UNCHANGED <<word, commitPromise, writeBatchStart, caller>>,
           \A r \in Slots : Promise(r)' = Promise(r) /\ Settled(r)' = Settled(r),
           Noting' => Noting /\ call'.res = call.res,
           Publishing' <=> Publishing, Publishing => call'.res = call.res,
           Steady => ListInv' /\ SkipsKept /\ (ChainInv => ChainInv')
    PROVE  TruthKept
<1>1. JsWords BY DEF JsWords
<1>2. HistoryInv' /\ Steady
  <2>1. \A s \in 1..Len(log) : instr'[s].kind = instr[s].kind BY DEF SamePlaces
  <2> QED BY <1>1, <2>1, JsHistory DEF GroupInv, CursorInv, Steady
<1>3. ListInv' /\ SkipsKept /\ (ChainInv => ChainInv') BY <1>2
<1>4. SettledInv => SettledInv'
  <2>1. /\ Reserved' = Reserved /\ \A r \in Slots : (Conditional(r)' <=> Conditional(r)) /\ FP(r)' = FP(r)
    BY PlacesKept DEF SamePlaces
  <2> QED BY <1>2, <1>3, <2>1, KeepSettled DEF GroupInv, HistoryInv
<1>5. PromisesInv' BY <1>2, KeepPromises DEF GroupInv
<1> QED BY <1>2, <1>3, <1>4, <1>5 DEF GroupInv, AnswerInv, TruthKept

\* When a delimiter is linked behind what resolveWrites did not find finished, somebody
\* would have to execute twice at once.
LEMMA SweptAll ==
    ASSUME IInv, CursorInv, HistoryInv, ListedInv,
           FINISHED_OPERATION \notin word[FP(unwrittenResolution)]
    PROVE  \A r \in Places : Is(r) => r <= unwrittenResolution
<1> SUFFICES ASSUME NEW r \in Places, Is(r), ~(r <= unwrittenResolution) PROVE FALSE OBVIOUS
<1>1. PICK u \in Nat : u = unwrittenResolution BY SlotTypes
<1>2. r \in Nat /\ r \in Slots /\ r <= nextResolution /\ u < r /\ FP(r) \in Slots /\ FP(r) \in Nat
  BY <1>1, PlaceTypes, SlotTypes
<1>3. u \in Reserved
  <2>1. unwrittenResolution \in Slots BY DEF IInv, TypeOK, TypeSettle
  <2>2. u < nextResolution /\ 1 <= u BY <1>1, <1>2, <2>1, SlotTypes
  <2> QED BY <2>2, PlaceTypes
<1>4. u \in Places /\ FP(u) \in Slots /\ FP(u) \in Nat /\ FP(u) >= 1
  BY <1>3, ReservedTypes, SlotTypes
<1>5. FP(r) <= Frontier BY <1>2 DEF CursorInv, LinkInv
<1>6. FP(u) < FP(r) BY <1>2, <1>4 DEF CursorInv, OrderInv
<1>7. FP(u) \in 1..Len(log)
  <2>1. PICK n \in Nat : n = Len(log) /\ Frontier = n + 1 BY SlotTypes
  <2>2. FP(u) <= n BY <1>2, <1>4, <1>5, <1>6, <2>1
  <2>3. FP(u) \in 1..n BY <1>4, <2>2
  <2> QED BY <2>1, <2>3
<1>8. instr[FP(u)].kind # "END" BY <1>3 DEF IInv, ResolutionInv
<1>9. PICK w \in DOMAIN worker : worker[w].pc = "store" /\ worker[w].pos = FP(u)
  <2>1. FINISHED_OPERATION \notin word[FP(u)] BY <1>1
  <2> QED BY <1>7, <1>8, <2>1 DEF HistoryInv, FinishedInv
<1>10. FP(u) = Len(log)
  <2>1. w \in ActiveWorkers BY <1>9 DEF ActiveWorkers
  <2> QED BY <1>9, <2>1 DEF IInv, FrontierInv, WorkerAtFrontier
<1>11. PICK v \in Ended : End(v) = FP(r) BY <1>2 DEF ListedInv, Closed
<1>12. txnOf[FP(u)] = w BY <1>9 DEF HistoryInv, LoadedInv
<1>13. w <= v
  <2>1. FP(u) < End(v) BY <1>6, <1>11
  <2>2. txnOf[FP(u)] <= v BY <1>7, <2>1 DEF HistoryInv, TxnInv, SpanInv
  <2> QED BY <1>12, <2>2
<1>14. w \notin Ended BY <1>9, EndTypes DEF ClosedPc
<1>15. w = Len(worker) BY <1>14 DEF HistoryInv, TxnInv, LastInv
<1>16. v = w BY <1>13, <1>15, EndTypes
<1> QED BY <1>14, <1>16

\* The steps of the running function that only move on.
LEMMA CounterTruth ==
    ASSUME IInv, CursorInv, GroupInv, IInv', PublishLoad \/ SweepEnd \/ SettleEnd
    PROVE  TruthKept
<1>1. /\ UNCHANGED <<word, instr, position, nextResolution, blocks, resolution, commitPromise,
                     writeBatchStart, caller, txnResolution, unwrittenResolution,
                     uncommittedResolution, worker>>
      /\ SameHistory
  BY DEF PublishLoad, SweepEnd, SettleEnd, reserveVars, batchVars, settleVars, promiseVars,
         historyVars, SameHistory
<1>2. /\ call'.res = call.res
      /\ call'.pc \in {"note", "sweep", "settle", "promise"} =>
           call.pc \in {"note", "sweep", "settle", "promise"}
      /\ call'.pc \in {"publish", "store"} <=> call.pc \in {"publish", "store"}
      /\ call'.pc = "settle" => SweepEnd
  BY DEF PublishLoad, SweepEnd, SettleEnd, IInv, TypeOK, TypeCall, Call
<1>3. SamePlaces /\ JsWorkers
  BY <1>1, SameWorkers DEF SamePlaces, FP
<1>4. \A r \in Slots : /\ Is(r)' = Is(r) /\ NextTxn(r)' = NextTxn(r)
                       /\ Promise(r)' = Promise(r) /\ Settled(r)' = Settled(r)
                       /\ resolution'[r].flag = resolution[r].flag
  BY <1>1 DEF Is, NextTxn, Promise, Settled
<1>5. call'.pc = "settle" => \A r \in Places : Is(r) => r <= unwrittenResolution
  <2> SUFFICES ASSUME call'.pc = "settle" PROVE \A r \in Places : Is(r) => r <= unwrittenResolution
    OBVIOUS
  <2>1. FINISHED_OPERATION \notin word[FP(unwrittenResolution)] BY <1>2 DEF SweepEnd, FP
  <2> QED BY <2>1, SweptAll DEF GroupInv, ListInv
<1>6. Steady => ListInv' /\ SkipsKept /\ (ChainInv => ChainInv')
  <2> HAVE Steady
  <2>1. ListedInv' /\ SkipsKept /\ (ChainInv => ChainInv') BY <1>1, <1>3, <1>4, KeepLinks DEF GroupInv
  <2>2. call'.pc = "settle" => \A r \in Places : Is(r)' => r <= unwrittenResolution
    BY <1>4, <1>5, PlaceTypes
  <2>3. ReadInv' BY <1>1, <1>3, <1>4, <2>2, KeepRead DEF GroupInv
  <2> QED BY <2>1, <2>3 DEF ListInv
<1>7. (Noting' => Noting) /\ (Publishing' <=> Publishing) BY <1>2 DEF Noting, Publishing
<1> QED BY <1>1, <1>2, <1>3, <1>4, <1>6, <1>7, QuietTruth

\* The end of a callback.
LEMMA EndTruth ==
    ASSUME IInv, CursorInv, GroupInv, IInv', EndCallback
    PROVE  TruthKept
<1>1. /\ UNCHANGED <<word, instr, position, nextResolution, blocks, resolution, commitPromise,
                     writeBatchStart, caller, txnResolution, unwrittenResolution,
                     uncommittedResolution, worker>>
      /\ SameHistory /\ call.pc = "status" /\ call'.pc = "idle"
  BY IdleCall DEF EndCallback, reserveVars, batchVars, promiseVars, SameHistory
<1>2. SamePlaces /\ JsWorkers BY <1>1, SameWorkers DEF SamePlaces, FP
<1>3. \A r \in Slots : /\ Is(r)' = Is(r) /\ NextTxn(r)' = NextTxn(r)
                       /\ Promise(r)' = Promise(r) /\ Settled(r)' = Settled(r)
                       /\ resolution'[r].flag = resolution[r].flag
  BY <1>1 DEF Is, NextTxn, Promise, Settled
<1>4. Steady => ListInv' /\ SkipsKept /\ (ChainInv => ChainInv')
  BY <1>1, <1>2, <1>3, KeepLinks, KeepRead DEF GroupInv, ListInv
<1>5. ~Noting' /\ ~Publishing' /\ ~Publishing BY <1>1 DEF Noting, Publishing
<1> QED BY <1>1, <1>2, <1>3, <1>4, <1>5, QuietTruth

\* The task that starts a worker.
LEMMA StartTruth ==
    ASSUME IInv, CursorInv, GroupInv, IInv', RunEnqueuedCommit
    PROVE  TruthKept
<1>1. /\ UNCHANGED <<word, instr, position, nextResolution, blocks, resolution, commitPromise,
                     writeBatchStart, call, caller, txnResolution, unwrittenResolution,
                     uncommittedResolution>>
      /\ SameHistory /\ enqueuedCommit
      /\ worker' = Append(worker, NewWorker(startAddress, flushResolvers))
      /\ call.pc = "idle"
  BY DEF RunEnqueuedCommit, StartWriting, EventLoopIdle, reserveVars, batchVars, promiseVars,
         settleVars, historyVars, SameHistory
<1>2. JsWorkers
  <2>1. ActiveWorkers = {} BY <1>1, PendingAddress DEF IInv, FrontierInv
  <2> QED BY <1>1, <2>1, StartedWorker
<1>3. SamePlaces BY <1>1 DEF SamePlaces, FP
<1>4. \A r \in Slots : /\ Is(r)' = Is(r) /\ NextTxn(r)' = NextTxn(r)
                       /\ Promise(r)' = Promise(r) /\ Settled(r)' = Settled(r)
                       /\ resolution'[r].flag = resolution[r].flag
  BY <1>1 DEF Is, NextTxn, Promise, Settled
<1>5. Steady => ListInv' /\ SkipsKept /\ (ChainInv => ChainInv')
  BY <1>1, <1>3, <1>4, KeepLinks, KeepRead DEF GroupInv, ListInv
<1>6. (Noting' => Noting) /\ (Publishing' <=> Publishing) BY <1>1 DEF Noting, Publishing
<1> QED BY <1>1, <1>2, <1>3, <1>4, <1>5, <1>6, QuietTruth

\* What is swept is read as it was told.
LEMMA SweepTruth ==
    ASSUME IInv, CursorInv, GroupInv, IInv', SweepNext
    PROVE  TruthKept
<1> DEFINE r == unwrittenResolution
           status == word[FP(r)]
           let == LetGo(r)
           e == [resolution[r] EXCEPT !.callbacks = 0, !.flag = status, !.released = let]
<1>1. /\ call.pc = "sweep" /\ FINISHED_OPERATION \in status /\ unwrittenResolution' = r + 1
      /\ UNCHANGED <<word, instr, position, nextResolution, blocks, commitPromise, writeBatchStart,
                     call, caller, txnResolution, uncommittedResolution, worker>>
      /\ SameHistory /\ resolution' = [resolution EXCEPT ![r] = e]
  BY DEF SweepNext, reserveVars, batchVars, promiseVars, historyVars, SameHistory, FP
<1>2. r \in Places /\ r \in Slots /\ r \in Nat /\ FP(r) \in Slots /\ resolution[r] \in Resolution
  <2>1. r \in Slots BY DEF IInv, TypeOK, TypeSettle
  <2>2. r \in Places BY <2>1, SlotTypes DEF Places
  <2> QED BY <2>1, <2>2, SlotTypes, PlaceTypes
<1>3. /\ e.flagPosition = resolution[r].flagPosition /\ e.isTxn = resolution[r].isTxn
      /\ e.nextTxn = resolution[r].nextTxn /\ e.promise = resolution[r].promise
      /\ e.settled = resolution[r].settled /\ e.flag = status
  BY <1>2 DEF Resolution
<1> HIDE DEF e, let
<1>4. resolution'[r] = e /\ \A q \in Slots : q # r => resolution'[q] = resolution[q]
  BY <1>1, <1>2 DEF IInv, TypeOK, TypeReserve
<1>5. \A q \in Slots : /\ FP(q)' = FP(q) /\ Is(q)' = Is(q) /\ NextTxn(q)' = NextTxn(q)
                       /\ Promise(q)' = Promise(q) /\ Settled(q)' = Settled(q)
  BY <1>3, <1>4 DEF FP, Is, NextTxn, Promise, Settled
<1>6. SamePlaces /\ JsWorkers BY <1>1, <1>5, SameWorkers DEF SamePlaces
<1>7. ReadInv'
  <2>1. ASSUME NEW q \in 1..(unwrittenResolution' - 1)
        PROVE  FAILED_CONDITION \in resolution'[q].flag <=> ~result'[FP(q)']
    <3>1. q \in 1..(r - 1) \/ q = r BY <1>1, <1>2
    <3>2. q \in Slots
      <4>1. q \in Nat /\ q # 0 /\ q <= r BY <1>2, <3>1
      <4>2. r <= MaxSlots + 1 /\ MaxSlots \in Nat BY <1>2, SlotTypes
      <4>3. q <= MaxSlots + 1 BY <1>2, <4>1, <4>2
      <4> QED BY <4>1, <4>3, SlotTypes
    <3>3. result'[FP(q)'] = result[FP(q)] BY <1>1, <1>5, <3>2 DEF SameHistory
    <3>4. CASE q = r
      <4>1. FAILED_CONDITION \in status <=> ~result[FP(r)]
        BY <1>1, <1>2 DEF GroupInv, HistoryInv, ToldInv
      <4> QED BY <1>3, <1>4, <3>3, <3>4, <4>1
    <3>5. CASE q \in 1..(r - 1) /\ q # r
      <4>1. FAILED_CONDITION \in resolution[q].flag <=> ~result[FP(q)]
        BY <3>5 DEF GroupInv, ListInv, ReadInv
      <4>2. resolution'[q] = resolution[q] BY <1>4, <3>2, <3>5
      <4> QED BY <3>3, <4>1, <4>2
    <3> QED BY <3>1, <3>4, <3>5
  <2> QED BY <1>1, <2>1 DEF ReadInv
<1>8. Steady => ListInv' /\ SkipsKept /\ (ChainInv => ChainInv')
  BY <1>1, <1>5, <1>6, <1>7, KeepLinks DEF GroupInv, ListInv
<1>9. (Noting' => Noting) /\ (Publishing' <=> Publishing) BY <1>1 DEF Noting, Publishing
<1> QED BY <1>1, <1>5, <1>6, <1>8, <1>9, QuietTruth

-----------------------------------------------------------------------------
(* Linking a delimiter. *)

\* The last delimiter so far gets its place behind the ones not settled yet.
LEMMA LinkLists ==
    ASSUME IInv, CursorInv, ListInv, Steady, SamePlaces, NEW r \in Places, Closed(FP(r)),
           QueueCommitResolution(r), UNCHANGED uncommittedResolution,
           \A q \in Places : Is(q) => q <= r,
           \A s \in Slots : OP \in word'[s] => OP \in word[s] \/ ~Closed(s) \/ s = FP(r)
    PROVE  ListedInv' /\ SkipsKept /\ (ChainInv => ChainInv')
<1>1. r \in Slots /\ FP(r) \in Slots /\ r # 0 BY PlaceTypes
<1>2. /\ \A q \in Slots : q # r => Is(q)' = Is(q)
      /\ Is(r)'
      /\ \A q \in Slots : NextTxn(q)' = IF q = txnResolution /\ ~Is(r) THEN r ELSE NextTxn(q)
      /\ txnResolution' = IF Is(r) \/ txnResolution # 0 THEN txnResolution ELSE r
  BY LinkEffect
<1>3. /\ Places' = Places /\ \A q \in Places : q \in Slots /\ FP(q) \in Slots /\ FP(q)' = FP(q)
  BY PlacesKept, PlaceTypes DEF SamePlaces
<1>4. ListedInv'
  <2>1. ASSUME NEW s \in Slots, Closed(s)', OP \in word'[s]
        PROVE  \E q \in Places : Is(q)' /\ FP(q)' = s
    <3>1. CASE s = FP(r) BY <1>2, <1>3, <3>1
    <3>2. CASE s # FP(r)
      <4>1. Closed(s) /\ OP \in word[s] BY <2>1, <3>2 DEF Steady
      <4>2. PICK q \in Places : Is(q) /\ FP(q) = s BY <4>1 DEF ListInv, ListedInv
      <4> QED BY <1>2, <1>3, <4>2
    <3> QED BY <3>1, <3>2
  <2>2. ASSUME NEW q \in Places, Is(q)' PROVE Closed(FP(q))'
    <3>1. PICK s \in Slots : s = FP(q) BY <1>3
    <3>2. Closed(s)
      <4>1. CASE q = r BY <3>1, <4>1
      <4>2. CASE q # r
        <5>1. Is(q) BY <1>2, <1>3, <2>2, <4>2
        <5> QED BY <3>1, <5>1 DEF ListInv, ListedInv
      <4> QED BY <4>1, <4>2
    <3>3. Closed(s)' BY <3>2 DEF Steady
    <3>4. FP(q)' = s BY <1>3, <3>1
    <3> QED BY <3>3, <3>4 DEF Closed
  <2> QED BY <1>3, <2>1, <2>2 DEF ListedInv
<1>5. PICK t : t = txnResolution OBVIOUS
<1>6. t # 0 => t \in Slots /\ txnResolution' = t BY <1>2, <1>5, PlaceTypes
<1>9. \A q \in Places : Is(q) /\ q # r => FP(q) < FP(r)
  <2> SUFFICES ASSUME NEW q \in Places, Is(q), q # r PROVE FP(q) < FP(r) OBVIOUS
  <2>1. q <= r /\ q \in Nat /\ r \in Nat BY PlaceTypes
  <2>2. q < r BY <2>1
  <2> QED BY <2>2 DEF CursorInv, OrderInv
<1>10. SkipsKept
  <2> SUFFICES ASSUME NEW e \in Nat, Skipped(e) PROVE Skipped(e)' BY DEF SkipsKept
  <2>1. PICK q \in Slots : NextTxn(q) # 0 /\ FP(q) < e /\ e < FP(NextTxn(q)) BY DEF Skipped
  <2>2. PICK n \in Places : n = NextTxn(q) /\ Is(n) /\ n \in Slots /\ FP(n) \in Nat
    <3>1. NextTxn(q) \in Slots BY <2>1, PlaceTypes, SlotTypes
    <3>2. Is(NextTxn(q)) BY <2>1 DEF CursorInv, LinkInv
    <3> QED BY <3>1, <3>2, PlaceTypes DEF CursorInv, LinkInv
  <2>3. PICK m \in Slots : m = NextTxn(q)' /\ FP(n) <= FP(m) /\ FP(m) \in Nat
    <3>1. CASE NextTxn(q)' = n
      <4>1. FP(n) <= FP(n) BY <2>2
      <4> QED BY <2>2, <3>1, <4>1
    <3>2. CASE NextTxn(q)' # n
      <4>1. NextTxn(q)' = r BY <1>2, <2>2, <3>2
      <4>2. FP(n) <= FP(r)
        <5>1. n # r BY <3>2, <4>1
        <5>2. FP(n) < FP(r) BY <1>9, <2>2, <5>1
        <5>3. FP(n) \in Nat /\ FP(r) \in Nat BY <1>1, <2>2, PlaceTypes
        <5> QED BY <5>2, <5>3
      <4>3. FP(r) \in Nat BY <1>1, PlaceTypes
      <4> QED BY <1>1, <4>1, <4>2, <4>3
    <3> QED BY <3>1, <3>2
  <2>4. FP(q)' = FP(q) /\ FP(m)' = FP(m) BY DEF SamePlaces
  <2>5. FP(NextTxn(q))' = FP(m) BY <2>3, <2>4 DEF FP
  <2>6. e < FP(m) BY <2>1, <2>2, <2>3
  <2>7. NextTxn(q)' # 0 BY <2>3, SlotTypes
  <2> QED BY <2>1, <2>4, <2>5, <2>6, <2>7 DEF Skipped
<1>7. ASSUME ChainInv, NEW q \in Places, Is(q)'
      PROVE  \/ q <= uncommittedResolution' \/ q = txnResolution'
             \/ txnResolution' # 0 /\ q = NextTxn(txnResolution)'
             \/ Skipped(FP(q))'
  <2>1. q \in Slots /\ q # 0 BY <1>3, PlaceTypes
  <2>2. CASE Is(q)
    <3>1. q <= uncommittedResolution \/ q = t \/ (t # 0 /\ q = NextTxn(t)) \/ Skipped(FP(q))
      BY <1>5, <1>7, <2>2 DEF ChainInv
    <3>2. CASE t # 0 /\ q = NextTxn(t)
      <4>1. CASE NextTxn(t)' = q
        <5>1. NextTxn(txnResolution)' = q BY <1>6, <3>2, <4>1 DEF NextTxn
        <5> QED BY <1>6, <3>2, <5>1
      <4>2. CASE NextTxn(t)' # q
        <5>1. NextTxn(t)' = r /\ q # r BY <1>2, <1>6, <3>2, <4>2
        <5>2. FP(q) < FP(r) BY <1>9, <2>2, <5>1
        <5>3. t \in Places /\ FP(t) < FP(q)
          <6>1. Is(t) /\ t < q BY <1>5, <1>6, <2>1, <3>2 DEF CursorInv, LinkInv
          <6>2. t \in Places BY <1>6, <3>2, <6>1 DEF CursorInv, LinkInv
          <6> QED BY <6>1, <6>2 DEF CursorInv, OrderInv
        <5>4. FP(t)' = FP(t) /\ FP(r)' = FP(r) /\ FP(q)' = FP(q)
          BY <1>1, <1>3, <5>3 DEF SamePlaces
        <5>5. FP(NextTxn(t))' = FP(r) BY <5>1, <5>4 DEF FP
        <5>6. NextTxn(t)' # 0 BY <1>1, <5>1
        <5>7. Skipped(FP(q))'
          <6>1. t \in Slots BY <1>6, <3>2
          <6>2. FP(t)' < FP(q)' /\ FP(q)' < FP(NextTxn(t))' BY <5>2, <5>3, <5>4, <5>5
          <6> QED BY <5>6, <6>1, <6>2 DEF Skipped
        <5> QED BY <5>7
      <4> QED BY <4>1, <4>2
    <3>3. CASE q = t BY <1>6, <2>1, <3>3
    <3>4. CASE q <= uncommittedResolution BY <3>4
    <3>5. CASE Skipped(FP(q)) BY <1>3, <1>10, <3>5, SkippedKept
    <3> QED BY <3>1, <3>2, <3>3, <3>4, <3>5
  <2>3. CASE ~Is(q)
    <3>1. q = r /\ ~Is(r) BY <1>2, <1>7, <2>1, <2>3
    <3>2. CASE t = 0 BY <1>2, <1>5, <3>1, <3>2
    <3>3. CASE t # 0
      <4>1. NextTxn(t)' = r BY <1>2, <1>5, <1>6, <3>1, <3>3
      <4>2. NextTxn(txnResolution)' = r BY <1>6, <3>3, <4>1 DEF NextTxn
      <4> QED BY <1>6, <3>1, <3>3, <4>2
    <3> QED BY <3>2, <3>3
  <2> QED BY <2>2, <2>3
<1>8. ASSUME ChainInv, NEW q \in Slots, NextTxn(q)' # 0
      PROVE  Is(q)' /\ (q <= uncommittedResolution' \/ q = txnResolution')
  <2>1. q # 0 BY SlotTypes
  <2>2. CASE q = t
    <3>1. Is(q) BY <1>5, <2>1, <2>2 DEF CursorInv, LinkInv
    <3> QED BY <1>2, <1>6, <2>1, <2>2, <3>1
  <2>3. CASE q # t
    <3>1. NextTxn(q) # 0 BY <1>2, <1>5, <1>8, <2>3
    <3>2. Is(q) /\ q <= uncommittedResolution BY <1>5, <1>8, <2>3, <3>1 DEF ChainInv
    <3> QED BY <1>2, <3>2
  <2> QED BY <2>2, <2>3
<1> QED BY <1>3, <1>4, <1>7, <1>8, <1>10 DEF ChainInv

\* A slot that nobody published into is behind every delimiter that is linked.
LEMMA NoneLinkedBehind ==
    ASSUME IInv, CursorInv, ListInv, EndInv, NEW r \in Places, OP \notin word[FP(r)]
    PROVE  \A q \in Places : Is(q) => q <= r
<1> SUFFICES ASSUME NEW q \in Places, Is(q), ~(q <= r) PROVE FALSE OBVIOUS
<1>1. q \in Nat /\ r \in Nat /\ FP(r) \in Slots /\ FP(q) \in Slots BY PlaceTypes
<1>2. FP(r) < FP(q)
  <2>1. r < q BY <1>1
  <2> QED BY <2>1 DEF CursorInv, OrderInv
<1>3. FP(q) <= Frontier BY <1>1, PlaceTypes DEF CursorInv, LinkInv
<1>4. FP(r) \in Nat /\ 1 <= FP(r) /\ FP(q) \in Nat /\ Frontier = Len(log) + 1 /\ Len(log) \in Nat
  BY <1>1, SlotTypes
<1>5. FP(r) \in 1..Len(log) BY <1>2, <1>3, <1>4
<1> QED BY <1>5 DEF CursorInv, ExecutedInv, RunInv

\* A worker's callback may link the delimiter at the next free slot.
LEMMA CallbackTruth ==
    ASSUME IInv, CursorInv, GroupInv, IInv', JsWorkers,
           NEW w \in DOMAIN worker, NEW status \in 0..3, Callback(w, status)
    PROVE  TruthKept
<1>1. /\ UNCHANGED <<word, instr, position, nextResolution, blocks, commitPromise, writeBatchStart,
                     caller, unwrittenResolution, uncommittedResolution>>
      /\ SameHistory /\ call.pc = "idle" /\ call' = CallbackCall(w, status)
      /\ IF TXN_DELIMITER \in word[position] THEN QueueCommitResolution(nextResolution)
         ELSE UNCHANGED <<resolution, txnResolution>>
  BY DEF Callback, EventLoopIdle, reserveVars, batchVars, promiseVars, historyVars, SameHistory
<1>2. call'.pc = "sweep" /\ call'.res = 0
  <2>1. w \in Nat BY WorkerTypes DEF IInv
  <2> QED BY <1>1, <2>1, CallbackCallRecord
<1>3. ~Noting' /\ ~Publishing' /\ ~Publishing /\ call'.pc # "settle"
  BY <1>1, <1>2 DEF Noting, Publishing
<1>4. CASE TXN_DELIMITER \notin word[position]
  <2>1. UNCHANGED <<resolution, txnResolution>> BY <1>1, <1>4
  <2>2. SamePlaces BY <1>1, <2>1 DEF SamePlaces, FP
  <2>3. \A r \in Slots : /\ Is(r)' = Is(r) /\ NextTxn(r)' = NextTxn(r)
                         /\ Promise(r)' = Promise(r) /\ Settled(r)' = Settled(r)
                         /\ resolution'[r].flag = resolution[r].flag
    BY <2>1 DEF Is, NextTxn, Promise, Settled
  <2>4. ASSUME Steady PROVE ListInv' /\ SkipsKept /\ (ChainInv => ChainInv')
    <3>1. ListedInv' /\ SkipsKept /\ (ChainInv => ChainInv') BY <1>1, <2>1, <2>2, <2>3, <2>4, KeepLinks DEF GroupInv
    <3>2. ReadInv' BY <1>1, <1>3, <2>2, <2>3, <2>4, KeepRead DEF GroupInv
    <3> QED BY <3>1, <3>2 DEF ListInv
  <2> QED BY <1>1, <1>3, <2>2, <2>3, <2>4, QuietTruth
<1>5. CASE TXN_DELIMITER \in word[position]
  <2>1. PICK n \in Places : n = nextResolution /\ n \in Slots
    <3>1. nextResolution \in Slots /\ nextResolution \in Nat /\ 1 <= nextResolution BY SlotTypes
    <3>2. nextResolution <= nextResolution BY <3>1
    <3> QED BY <3>1, <3>2, PlaceTypes
  <2>2. QueueCommitResolution(n) BY <1>1, <1>5, <2>1
  <2>3. /\ \A q \in Slots : /\ FP(q)' = FP(q) /\ Promise(q)' = Promise(q)
                            /\ resolution'[q].flag = resolution[q].flag
                            /\ Settled(q)' = Settled(q)
    BY <2>2, LinkEffect DEF Promise, Settled
  <2>4. Closed(FP(n))
    <3>1. FP(n) = position /\ position \in Slots BY <2>1 DEF IInv, ResolutionInv, TypeOK, TypeReserve
    <3>2. position >= position BY <3>1, SlotTypes
    <3>3. OP \notin word[position] BY <3>1, <3>2, Zenon DEF IInv, WordInv
    <3> QED BY <1>5, <3>1, <3>3 DEF GroupInv, HistoryInv, OpenInv
  <2>5. SamePlaces BY <1>1, <2>3 DEF SamePlaces
  <2>7. \A q \in Places : Is(q) => q <= n BY <2>1, PlaceTypes
  <2>6. ASSUME Steady PROVE ListInv' /\ SkipsKept /\ (ChainInv => ChainInv')
    <3>1. ListedInv' /\ SkipsKept /\ (ChainInv => ChainInv')
      BY <1>1, <2>2, <2>4, <2>5, <2>6, <2>7, LinkLists DEF GroupInv
    <3>2. ReadInv' BY <1>1, <1>3, <2>3, <2>5, <2>6, KeepRead DEF GroupInv
    <3> QED BY <3>1, <3>2 DEF ListInv
  <2> QED BY <1>1, <1>3, <2>3, <2>5, <2>6, QuietTruth
<1> QED BY <1>4, <1>5

LEMMA TaskTruth ==
    ASSUME IInv, CursorInv, GroupInv, IInv', NEW w \in DOMAIN worker,
           CommitProgress(w) \/ CallbackProgress(w) \/ Complete(w)
    PROVE  TruthKept
<1>1. worker[w] \in Worker BY WorkerTypes DEF IInv
<1>2. CASE CommitProgress(w)
  <2> DEFINE e == [worker[w] EXCEPT !.progress = FALSE]
  <2>1. worker' = [worker EXCEPT ![w] = e] /\ Callback(w, 1)
    BY <1>2 DEF CommitProgress, ProgressCommitted
  <2>2. Noted(e, worker[w]) BY <1>1 DEF Noted, SameEnd, Worker
  <2> HIDE DEF e
  <2>3. JsWorkers BY <2>1, <2>2, NotedWorker
  <2> QED BY <2>1, <2>3, CallbackTruth
<1>3. CASE CallbackProgress(w)
  <2> DEFINE e == [worker[w] EXCEPT !.finishedProgress = TRUE]
  <2>1. worker' = [worker EXCEPT ![w] = e] /\ Callback(w, 2) BY <1>3 DEF CallbackProgress
  <2>2. Noted(e, worker[w]) BY <1>1 DEF Noted, SameEnd, Worker
  <2> HIDE DEF e
  <2>3. JsWorkers BY <2>1, <2>2, NotedWorker
  <2> QED BY <2>1, <2>3, CallbackTruth
<1>4. CASE Complete(w)
  <2> DEFINE e == [worker[w] EXCEPT !.pc = "gone", !.progress = FALSE]
  <2>1. worker' = [worker EXCEPT ![w] = e] /\ Callback(w, CompletionStatus(w)) /\ worker[w].pc = "done"
    BY <1>4 DEF Complete
  <2>2. Noted(e, worker[w]) BY <1>1, <2>1 DEF Noted, SameEnd, Worker
  <2> HIDE DEF e
  <2>3. JsWorkers BY <2>1, <2>2, NotedWorker
  <2>4. CompletionStatus(w) \in 0..3 BY DEF CompletionStatus
  <2> QED BY <2>1, <2>3, <2>4, CallbackTruth
<1> QED BY <1>2, <1>3, <1>4

-----------------------------------------------------------------------------
(* Publishing. *)

\* What a closure notes leaves the reserved slots and what happened alone.
LEMMA NoteKeeps ==
    ASSUME IInv, NEW seen, call.pc \in {"publish", "note"}, NoteWrite(call.res, seen),
           TXN_DELIMITER \in seen => OpenDelimiters # {}
    PROVE  /\ JsWorkers /\ SamePlaces /\ SameHistory
           /\ UNCHANGED <<unwrittenResolution, uncommittedResolution, caller>>
           /\ commitPromise' = IF TXN_DELIMITER \in seen THEN 0 ELSE commitPromise
           /\ call'.res = call.res /\ call'.pc \in {"sweep", "promise"}
           /\ \A q \in Slots : /\ FP(q)' = FP(q) /\ Promise(q)' = Promise(q)
                               /\ resolution'[q].flag = resolution[q].flag
                               /\ Settled(q)' = Settled(q)
           /\ TXN_DELIMITER \in seen => QueueCommitResolution(call.res)
           /\ TXN_DELIMITER \notin seen => UNCHANGED <<resolution, txnResolution>>
<1> DEFINE ended == TXN_DELIMITER \in seen
           address == AddressAfter(call.res, ended)
<1>1. /\ UNCHANGED <<instr, position, nextResolution, blocks, unwrittenResolution,
                     uncommittedResolution, caller>>
      /\ SameHistory /\ commitPromise' = IF ended THEN 0 ELSE commitPromise
      /\ call'.res = call.res /\ call'.pc \in {"sweep", "promise"}
      /\ ended => QueueCommitResolution(call.res)
      /\ ~ended => UNCHANGED <<resolution, txnResolution>>
  BY DEF NoteWrite, CommitPromiseAfter, reserveVars, batchVars, historyVars, SameHistory, IInv, TypeOK,
         TypeCall, Call
<1>2. call.res \in Places BY CallPlace
<1>3. \A q \in Slots : /\ FP(q)' = FP(q) /\ Promise(q)' = Promise(q)
                       /\ resolution'[q].flag = resolution[q].flag
                       /\ Settled(q)' = Settled(q)
  <2>1. CASE ended BY <1>1, <1>2, <2>1, LinkEffect DEF Promise, Settled
  <2>2. CASE ~ended BY <1>1, <2>2 DEF FP, Promise, Settled
  <2> QED BY <2>1, <2>2
<1>4. JsWorkers
  <2>1. UNCHANGED worker \/ (address # 0 /\ \E resolvers : worker' = Append(worker, NewWorker(address, resolvers)))
    BY DEF NoteWrite, StartWriting
  <2>2. address # 0 => ActiveWorkers = {}
    <3>1. CASE startAddress # 0 BY <3>1, PendingAddress
    <3>2. CASE startAddress = 0 /\ ~ended BY <3>2 DEF AddressAfter
    <3>3. CASE ended BY <3>3 DEF IInv, HandoffUnique
    <3> QED BY <3>1, <3>2, <3>3
  <2> HIDE DEF address
  <2>3. CASE UNCHANGED worker BY <2>3, SameWorkers
  <2>4. CASE address # 0 /\ \E resolvers : worker' = Append(worker, NewWorker(address, resolvers))
    BY <2>2, <2>4, StartedWorker
  <2> QED BY <2>1, <2>3, <2>4
<1> QED BY <1>1, <1>3, <1>4 DEF SamePlaces

\* What was promised stays promised, and what was settled stays settled.
LEMMA KeepAssigned ==
    ASSUME IInv, IInv', GroupInv, Steady, SamePlaces, SkipsKept,
           \A q \in Slots : Promise(q)' = Promise(q) /\ Settled(q)' = Settled(q),
           \A s \in Slots : OP \in word[s] => OP \in word'[s]
    PROVE  AssignedTo' /\ JoinInv' /\ (SettledInv => SettledInv')
<1>1. /\ Reserved' = Reserved /\ position' = position /\ \A s : Inside(s)' <=> Inside(s)
      /\ \A q \in Slots : Conditional(q)' <=> Conditional(q)
      /\ AssignedTo /\ JoinInv /\ TxnInv
  BY PlacesKept DEF SamePlaces, GroupInv, PromisesInv, HistoryInv
<1>2. \A q \in Reserved : q \in Slots /\ FP(q) \in Slots BY ReservedTypes
<1>3. AssignedTo'
  <2>1. \A q \in Reserved : Published(q) => Published(q)' BY <1>1, <1>2 DEF Published, SamePlaces
  <2> QED BY <1>1, <1>2, <2>1 DEF AssignedTo
<1>4. JoinInv'
  <2> SUFFICES ASSUME NEW q \in Slots, Shares(q)' PROVE \E p \in Reserved' : SharesWith(q, p)'
    BY DEF JoinInv
  <2>1. Shares(q) BY DEF Shares
  <2>2. PICK p \in Reserved : SharesWith(q, p) BY <1>1, <2>1 DEF JoinInv
  <2>3. Promise(p)' = p /\ Promise(q)' = p BY <1>2, <2>2 DEF SharesWith
  <2>4. position <= position'
    <3>1. position \in Slots BY DEF IInv, TypeOK, TypeReserve
    <3> QED BY <1>1, <3>1, SlotTypes
  <2>5. \A x \in Reserved : /\ x \in Reserved' /\ FP(x)' = FP(x)
                            /\ Conditional(x)' <=> Conditional(x)
    BY <1>1, <1>2 DEF SamePlaces
  <2>6. \A s \in Slots : s < position => /\ Inside(s) => Inside(s)'
                                         /\ OP \in word[s] => OP \in word'[s]
    BY <1>1
  <2>7. SharesWith(q, p)' BY <1>1, <2>2, <2>3, <2>4, <2>5, <2>6, KeepShares
  <2> QED BY <1>1, <2>7
<1>5. SettledInv => SettledInv' BY <1>1, KeepSettled DEF SamePlaces
<1> QED BY <1>3, <1>4, <1>5

\* The closure has published its slot, which is behind every slot at which a transaction
\* was closed and nobody published since.
LEMMA NoteTruth ==
    ASSUME IInv, CursorInv, GroupInv, IInv', NEW seen, call.pc \in {"publish", "note"},
           NoteWrite(call.res, seen), UNCHANGED writeBatchStart, JsWords,
           TXN_DELIMITER \in seen =>
               OpenDelimiters # {} /\ Closed(FP(call.res)) /\ OP \notin word[FP(call.res)],
           Promise(call.res) = NoPromise, Holding(call.res), OP \in word'[FP(call.res)],
           \A s \in Slots : OP \in word'[s] =>
               OP \in word[s] \/ (s = FP(call.res) /\ (TXN_DELIMITER \in seen \/ ~Closed(s)))
    PROVE  TruthKept
<1>1. PICK r \in Slots : r = call.res /\ r \in Reserved /\ r \in Places /\ FP(r) \in Slots
  BY CallFacts, CallPlace
<1> DEFINE ended == TXN_DELIMITER \in seen
<1>2. /\ JsWorkers /\ SamePlaces /\ SameHistory
      /\ UNCHANGED <<unwrittenResolution, uncommittedResolution, caller, writeBatchStart>>
      /\ commitPromise' = IF ended THEN 0 ELSE commitPromise
      /\ call'.res = r /\ call'.pc \in {"sweep", "promise"}
      /\ \A q \in Slots : /\ FP(q)' = FP(q) /\ Promise(q)' = Promise(q)
                          /\ resolution'[q].flag = resolution[q].flag
                          /\ Settled(q)' = Settled(q)
      /\ ended => QueueCommitResolution(r)
      /\ ~ended => UNCHANGED <<resolution, txnResolution>>
  BY <1>1, NoteKeeps
<1>3. /\ Reserved' = Reserved /\ Places' = Places /\ \A s : Inside(s)' <=> Inside(s)
      /\ \A q \in Slots : Conditional(q)' <=> Conditional(q)
      /\ \A q \in Slots : instr'[FP(q)'] = instr[FP(q)]
      /\ position' = position /\ blocks' = blocks /\ nextResolution' = nextResolution
  BY <1>2, PlacesKept DEF SamePlaces
<1>4. HistoryInv' /\ Steady
  <2>1. \A s \in 1..Len(log) : instr'[s].kind = instr[s].kind BY <1>2 DEF SamePlaces
  <2> QED BY <1>2, <2>1, JsHistory DEF GroupInv, CursorInv, Steady
<1>5. \A s \in Slots : (OP \in word[s] => OP \in word'[s]) /\ (s # FP(r) => (OP \in word'[s] => OP \in word[s]))
  BY <1>1 DEF JsWords
<1>6. ListInv' /\ SkipsKept /\ (ChainInv => ChainInv')
  <2>1. ListedInv' /\ SkipsKept /\ (ChainInv => ChainInv')
    <3>1. CASE ended
      <4>1. Closed(FP(r)) /\ QueueCommitResolution(r) BY <1>1, <1>2, <3>1
      <4>2. \A s \in Slots : OP \in word'[s] => OP \in word[s] \/ ~Closed(s) \/ s = FP(r) BY <1>1
      <4>3. \A q \in Places : Is(q) => q <= r
        <5>1. OP \notin word[FP(r)] BY <1>1, <3>1
        <5> QED BY <1>1, <5>1, NoneLinkedBehind DEF GroupInv, HistoryInv, TxnInv
      <4> QED BY <1>1, <1>2, <1>4, <4>1, <4>2, <4>3, LinkLists DEF GroupInv
    <3>2. CASE ~ended
      <4>1. \A q \in Slots : Is(q)' = Is(q) /\ NextTxn(q)' = NextTxn(q) BY <1>2, <3>2 DEF Is, NextTxn
      <4>2. \A s \in Slots : OP \in word'[s] => OP \in word[s] \/ ~Closed(s) BY <3>2
      <4>3. UNCHANGED <<txnResolution, uncommittedResolution>> BY <1>2, <3>2
      <4> QED BY <1>2, <1>4, <4>1, <4>2, <4>3, KeepLinks DEF GroupInv
    <3> QED BY <3>1, <3>2
  <2>2. ReadInv'
    <3>1. call'.pc # "settle" BY <1>2
    <3> QED BY <1>2, <1>4, <3>1, KeepRead DEF GroupInv
  <2> QED BY <2>1, <2>2 DEF ListInv
<1>7. /\ UnpublishedInv /\ DeferInv /\ NestedInv /\ SharedInv /\ HoldInv /\ AssignedTo /\ JoinInv /\ TxnInv
  BY DEF GroupInv, PromisesInv, HistoryInv
<1>8. \A q \in Reserved : q \in Slots /\ FP(q) \in Slots BY ReservedTypes
<1>9. ASSUME NEW x \in Slots, Holding(x), x = r \/ FP(r) < FP(x) \/ ~ended PROVE Holding(x)'
  <2> SUFFICES ASSUME NEW s \in Slots, Closed(s)', s > FP(x)' PROVE OP \notin word'[s]
    BY DEF Holding
  <2>1. Closed(s) /\ s > FP(x) BY <1>2, <1>4 DEF Steady
  <2>2. OP \notin word[s] BY <1>9, <2>1 DEF Holding
  <2>3. CASE s # FP(r) BY <1>5, <2>2, <2>3
  <2>4. CASE s = FP(r) /\ ~ended
    <3> SUFFICES ASSUME OP \in word'[s] PROVE FALSE OBVIOUS
    <3> QED BY <1>1, <2>1, <2>2, <2>4
  <2>5. CASE s = FP(r) /\ (x = r \/ FP(r) < FP(x))
    <3>1. FP(r) \in Nat /\ FP(x) \in Nat BY <1>1, PlaceTypes
    <3>2. ~(FP(r) > FP(x)) BY <2>5, <3>1
    <3> QED BY <2>1, <2>5, <3>2
  <2> QED BY <1>9, <2>3, <2>4, <2>5
<1>10. Noting' /\ ~Publishing' /\ (Deferred' <=> Deferred)
       /\ (Noting \/ Publishing) /\ (caller.pc = "note" => caller.res \in Slots /\ caller.res \in Reserved)
  <2>1. r # 0 BY SlotTypes
  <2>2. Noting' /\ ~Publishing' BY <1>1, <1>2, <2>1 DEF Noting, Publishing
  <2>3. Noting \/ Publishing BY <1>1, <2>1 DEF Noting, Publishing
  <2> QED BY <1>2, <1>3, <2>2, <2>3, CallReserved DEF Deferred
<1>11. UnpublishedInv'
  <2> SUFFICES ASSUME NEW s \in 1..(position - 1)
               PROVE  OP \in word'[s] \/ (Deferred' /\ s = FP(writeBatchStart)')
    BY <1>2, <1>3 DEF UnpublishedInv
  <2>1. s \in Slots BY PositionTypes
  <2>2. OP \in word[s] \/ s = FP(r) \/ (Deferred /\ s = FP(writeBatchStart))
    BY <1>1, <1>7 DEF UnpublishedInv
  <2>3. Deferred => FP(writeBatchStart)' = FP(writeBatchStart)
    <3>1. Deferred => writeBatchStart \in Reserved BY DEF Deferred, IInv, DeferredInv
    <3>2. Deferred => writeBatchStart \in Slots BY <1>8, <3>1
    <3> QED BY <1>2, <3>2 DEF FP
  <2>4. OP \in word'[FP(r)] BY <1>1
  <2> QED BY <1>5, <1>10, <2>1, <2>2, <2>3, <2>4
<1>12. DeferInv'
  <2> SUFFICES ASSUME Deferred
               PROVE  /\ writeBatchStart = blocks[1]
                      /\ \A s \in Slots : FP(writeBatchStart)' < s /\ s < position => Inside(s)'
                      /\ ~EventTurnBatching =>
                           \A q \in Reserved : q > writeBatchStart => instr'[FP(q)'].depth > 1
                      /\ EventTurnBatching /\ commitPromise' # 0 => commitPromise' >= writeBatchStart
                      /\ writeBatchStart < r
    BY <1>2, <1>3, <1>10 DEF DeferInv
  <2>1. /\ writeBatchStart = blocks[1]
        /\ \A s \in Slots : FP(writeBatchStart) < s /\ s < position => Inside(s)
        /\ ~EventTurnBatching =>
             \A q \in Reserved : q > writeBatchStart => instr[FP(q)].depth > 1
        /\ EventTurnBatching /\ commitPromise # 0 => commitPromise >= writeBatchStart
        /\ writeBatchStart < r
    BY <1>1, <1>7, <1>10 DEF DeferInv
  <2>2. FP(writeBatchStart)' = FP(writeBatchStart)
    <3>1. writeBatchStart \in Slots BY <1>8 DEF Deferred, IInv, DeferredInv
    <3> QED BY <1>2, <3>1 DEF FP
  <2>3. \A q \in Reserved : instr'[FP(q)'] = instr[FP(q)] BY <1>3, <1>8
  <2> QED BY <1>2, <1>3, <2>1, <2>2, <2>3
<1>13. NestedInv'
  <2>1. Nested(r)'
    <3> SUFFICES ASSUME commitPromise' > r
                 PROVE  /\ instr'[FP(r)'].depth = 0
                        /\ \A s \in Slots : FP(r)' < s /\ s <= FP(commitPromise)' => Inside(s)'
      BY DEF Nested
    <3>1. r \in Nat /\ 1 <= r BY SlotTypes
    <3>2. commitPromise' # 0 BY <3>1
    <3>3. commitPromise' = commitPromise BY <1>2, <3>2
    <3>4. commitPromise \in Slots BY <1>7, <1>8, <3>2, <3>3 DEF SharedInv
    <3>5. FP(commitPromise)' = FP(commitPromise) BY <1>2, <3>3, <3>4 DEF FP
    <3>6. Nested(call.res) BY <1>7, <1>10 DEF NestedInv
    <3> QED BY <1>1, <1>2, <1>3, <3>3, <3>5, <3>6 DEF Nested
  <2>2. caller.pc = "note" => commitPromise' <= caller.res
    <3> HAVE caller.pc = "note"
    <3>1. commitPromise <= caller.res BY <1>7 DEF NestedInv
    <3>2. caller.res \in Nat /\ 0 <= caller.res BY SlotTypes
    <3> QED BY <1>2, <3>1, <3>2
  <2>3. Nested(call.res)'
    <3>1. call'.res = r BY <1>2
    <3> QED BY <2>1, <3>1 DEF Nested, FP
  <2> QED BY <1>2, <2>2, <2>3 DEF NestedInv
<1>14. SharedInv'
  <2> SUFFICES ASSUME commitPromise' # 0
               PROVE  /\ commitPromise' \in Reserved' /\ Promise(commitPromise)' = commitPromise'
                      /\ ~Conditional(commitPromise)' /\ Holding(commitPromise)'
    BY DEF SharedInv
  <2>1. commitPromise' = commitPromise /\ ~ended BY <1>2
  <2>2. PICK c \in Slots : c = commitPromise BY <1>7, <1>8, <2>1 DEF SharedInv
  <2>3. c \in Reserved /\ Promise(c) = c /\ ~Conditional(c) /\ Holding(c)
    BY <1>7, <2>1, <2>2 DEF SharedInv
  <2>4. c \in Reserved' /\ Promise(c)' = c /\ ~Conditional(c)' /\ Holding(c)'
    BY <1>2, <1>3, <1>9, <2>1, <2>3
  <2>5. c = commitPromise' BY <2>1, <2>2
  <2> QED BY <2>4, <2>5 DEF Promise, Conditional, Holding, FP
<1>15. HoldInv'
  <2>1. Unassigned(r)'
    <3>1. Published(r)' BY <1>1, <1>2 DEF Published
    <3>2. Promise(r)' = NoPromise BY <1>1, <1>2
    <3>3. Holding(r)' BY <1>1, <1>9
    <3> QED BY <3>1, <3>2, <3>3 DEF Unassigned
  <2>2. ASSUME caller.pc = "note" PROVE Unassigned(caller.res)'
    <3>1. PICK c \in Slots : c = caller.res /\ c \in Reserved BY <1>10, <2>2
    <3>2. Published(c) /\ Promise(c) = NoPromise /\ Holding(c)
      BY <1>7, <2>2, <3>1 DEF HoldInv, Unassigned
    <3>3. FP(r) < FP(c)
      <4>1. r < c BY <1>1, <2>2, <3>1 DEF CursorInv, TurnInv
      <4>2. c \in Places BY <3>1, ReservedTypes
      <4> QED BY <1>1, <4>1, <4>2 DEF CursorInv, OrderInv
    <3>4. Holding(c)' BY <1>9, <3>2, <3>3
    <3>5. Published(c)' /\ Promise(c)' = NoPromise
      BY <1>2, <1>5, <1>8, <3>1, <3>2 DEF Published
    <3>6. c = caller'.res BY <1>2, <3>1
    <3> QED BY <3>4, <3>5, <3>6 DEF Unassigned, Published, Promise, Holding, FP
  <2>3. Unassigned(call.res)'
    <3>1. call'.res = r BY <1>2
    <3> QED BY <2>1, <3>1 DEF Unassigned, Published, Promise, Holding, FP
  <2> QED BY <1>2, <2>2, <2>3 DEF HoldInv
<1>16. AssignedTo' /\ JoinInv' /\ (SettledInv => SettledInv') BY <1>2, <1>4, <1>5, <1>6, KeepAssigned
<1> QED BY <1>4, <1>6, <1>11, <1>12, <1>13, <1>14, <1>15, <1>16
  DEF GroupInv, AnswerInv, TruthKept, PromisesInv

\* A slot that is not published yet is behind every slot at which a transaction was closed.
LEMMA Unpublished ==
    ASSUME IInv, CursorInv, GroupInv, Publishing
    PROVE  /\ Promise(call.res) = NoPromise /\ Holding(call.res)
           /\ OP \notin word[FP(call.res)]
<1>1. PICK r \in Slots : r = call.res /\ r \in Reserved /\ r \in Places /\ FP(r) \in Slots
  BY CallReserved
<1>2. OP \notin word[FP(r)] BY <1>1 DEF IInv, CallInv, Publishing, Published
<1>3. Promise(r) = NoPromise BY <1>2 DEF GroupInv, PromisesInv, AssignedTo, Published
<1>4. Holding(r)
  <2> SUFFICES ASSUME NEW s \in Slots, Closed(s), s > FP(r) PROVE FALSE BY DEF Holding
  <2>1. FP(r) >= Frontier BY <1>1, <1>2, LinkedBefore DEF CursorInv
  <2>2. s <= Frontier BY ClosedTypes DEF GroupInv, HistoryInv, TxnInv
  <2>3. s \in Nat /\ FP(r) \in Nat /\ Frontier \in Nat BY <1>1, PlaceTypes, SlotTypes
  <2> QED BY <2>1, <2>2, <2>3
<1> QED BY <1>1, <1>2, <1>3, <1>4

LEMMA PublishTruth ==
    ASSUME IInv, CursorInv, GroupInv, IInv', PublishAtomic \/ NotePlainWrite
    PROVE  TruthKept
<1>1. CASE PublishAtomic
  <2> DEFINE k == FP(call.res)
             seen == word[k]
  <2>1. /\ call.pc = "publish" /\ NoteWrite(call.res, seen) /\ UNCHANGED writeBatchStart
        /\ word' = [word EXCEPT ![k] = seen \cup {OP}]
    BY <1>1 DEF PublishAtomic, CallSlot, FP
  <2>2. Publishing BY <2>1 DEF Publishing
  <2>3. k \in Slots /\ OP \notin seen /\ Promise(call.res) = NoPromise /\ Holding(call.res)
    BY <2>2, CallReserved, Unpublished
  <2>4. TXN_DELIMITER \in seen <=> Closed(k) BY <2>3 DEF GroupInv, HistoryInv, OpenInv
  <2>5. TXN_DELIMITER \in seen => k \in OpenDelimiters BY <2>3 DEF OpenDelimiters
  <2>6. word'[k] = seen \cup {OP} /\ \A s \in Slots : s # k => word'[s] = word[s]
    BY <2>1, <2>3 DEF IInv, TypeOK, TypeWord
  <2>7. JsWords BY <2>6 DEF JsWords
  <2>8. OP \in word'[k] BY <2>6
  <2>9. \A s \in Slots : OP \in word'[s] =>
           OP \in word[s] \/ (s = k /\ (TXN_DELIMITER \in seen \/ ~Closed(s)))
    BY <2>4, <2>6
  <2>10. TXN_DELIMITER \in seen => OpenDelimiters # {} /\ Closed(k) /\ OP \notin word[k]
    BY <2>3, <2>4, <2>5
  <2> HIDE DEF seen
  <2> QED BY <2>1, <2>3, <2>7, <2>8, <2>9, <2>10, NoteTruth
<1>2. CASE NotePlainWrite
  <2>1. call.pc = "note" /\ NoteWrite(call.res, call.seen) /\ UNCHANGED <<word, writeBatchStart>>
    BY <1>2 DEF NotePlainWrite
  <2>2. TXN_DELIMITER \notin call.seen BY <2>1 DEF IInv, CallInv
  <2>3. Noting
    <3>1. call.res # 0 BY <2>1, CallFacts
    <3> QED BY <2>1, <3>1 DEF Noting
  <2>4. Promise(call.res) = NoPromise /\ Holding(call.res) /\ OP \in word[FP(call.res)]
    BY <2>3 DEF GroupInv, PromisesInv, HoldInv, Unassigned, Published
  <2>5. JsWords BY <2>1 DEF JsWords
  <2> QED BY <2>1, <2>2, <2>4, <2>5, NoteTruth
<1> QED BY <1>1, <1>2

\* A plain store into a slot inside a block; it may hand over to the closure of the
\* deferred start of that block.
LEMMA StoreTruth ==
    ASSUME IInv, CursorInv, GroupInv, IInv', PublishStore
    PROVE  TruthKept
<1> DEFINE noted == [call EXCEPT !.pc = "note"]
           early == /\ call' = WriteCall(writeBatchStart) /\ caller' = noted
                    /\ writeBatchStart' = 0 /\ writeBatchStart # 0
           late == call' = noted /\ caller' = caller /\ writeBatchStart' = writeBatchStart
<1>1. /\ call.pc = "store" /\ word' = [word EXCEPT ![FP(call.res)] = {OP}]
      /\ UNCHANGED <<instr, position, nextResolution, blocks, resolution, commitPromise,
                     txnResolution, unwrittenResolution, uncommittedResolution, worker>>
      /\ SameHistory /\ (early \/ late)
  BY DEF PublishStore, CallSlot, FP, reserveVars, batchVars, promiseVars, settleVars, historyVars,
         SameHistory
<1>2. Publishing BY <1>1 DEF Publishing
<1>3. PICK r \in Slots : /\ r = call.res /\ r \in Reserved /\ r \in Places /\ FP(r) \in Slots
                         /\ FP(r) < position /\ FP(r) \in Nat
  BY <1>2, CallReserved
<1>4. /\ Promise(r) = NoPromise /\ Holding(r) /\ OP \notin word[FP(r)]
      /\ instr[FP(r)].depth > 0 /\ ~Closed(FP(r)) /\ Len(blocks) > 0
  <2>1. Promise(r) = NoPromise /\ Holding(r) /\ OP \notin word[FP(r)] BY <1>2, <1>3, Unpublished
  <2>2. instr[FP(r)].depth > 0 BY <1>1, <1>3 DEF IInv, CallInv
  <2>3. FP(r) \notin OpenDelimiters BY <1>1, <1>3, <2>2, NoDelimiterInBlock DEF CallSlot, FP
  <2>4. ~Closed(FP(r)) BY <1>3, <2>1, <2>3, ClosedOpen DEF GroupInv, HistoryInv
  <2>5. Len(blocks) # 0 BY <1>1, <1>3, <2>2 DEF IInv, CallInv
  <2>6. Len(blocks) > 0 BY <2>5, SlotTypes
  <2> QED BY <2>1, <2>2, <2>4, <2>6
<1>5. word'[FP(r)] = {OP} /\ \A s \in Slots : s # FP(r) => word'[s] = word[s]
  BY <1>1, <1>3 DEF IInv, TypeOK, TypeWord
<1>6. /\ \A s \in Slots : /\ OP \in word[s] => OP \in word'[s]
                          /\ OP \in word'[s] => OP \in word[s] \/ s = FP(r)
      /\ OP \in word'[FP(r)]
  BY <1>5
<1>7. SamePlaces /\ JsWorkers BY <1>1, SameWorkers DEF SamePlaces, FP
<1>8. HistoryInv' /\ Steady
  <2>1. JsWords BY <1>3, <1>4, <1>5 DEF JsWords
  <2>2. \A s \in 1..Len(log) : instr'[s].kind = instr[s].kind BY <1>1
  <2> QED BY <1>1, <1>7, <2>1, <2>2, JsHistory DEF GroupInv, CursorInv, Steady
<1>9. /\ Reserved' = Reserved /\ Places' = Places /\ \A s : Inside(s)' <=> Inside(s)
      /\ \A q \in Slots : Conditional(q)' <=> Conditional(q)
      /\ \A q \in Slots : instr'[FP(q)'] = instr[FP(q)]
      /\ \A q : FP(q)' = FP(q) /\ Promise(q)' = Promise(q)
  BY <1>1, <1>7, PlacesKept DEF FP, Promise
<1>10. \A q \in Slots : /\ Is(q)' = Is(q) /\ NextTxn(q)' = NextTxn(q)
                        /\ Settled(q)' = Settled(q) /\ resolution'[q].flag = resolution[q].flag
  BY <1>1 DEF Is, NextTxn, Settled
<1>11. /\ noted.pc = "note" /\ noted.res = r
       /\ early => call'.pc = "publish" /\ call'.res = writeBatchStart
  <2>1. noted.pc = "note" /\ noted.res = r BY <1>3 DEF IInv, TypeOK, TypeCall, Call
  <2>2. writeBatchStart \in 0..(MaxSlots + 1) BY DEF IInv, TypeOK, TypeBatch
  <2> QED BY <2>1, <2>2, WriteCallRecord
<1> HIDE DEF noted
<1>12. ListInv' /\ SkipsKept /\ (ChainInv => ChainInv')
  <2>1. \A s \in Slots : OP \in word'[s] => OP \in word[s] \/ ~Closed(s)
    <3> TAKE s \in Slots
    <3>1. CASE s = FP(r) BY <1>4, <3>1
    <3>2. CASE s # FP(r) BY <1>6, <3>2
    <3> QED BY <3>1, <3>2
  <2>2. ListedInv' /\ SkipsKept /\ (ChainInv => ChainInv')
    BY <1>1, <1>7, <1>8, <1>10, <2>1, KeepLinks DEF GroupInv
  <2>3. call'.pc # "settle" BY <1>1, <1>11
  <2>4. ReadInv' BY <1>1, <1>7, <1>8, <1>10, <2>3, KeepRead DEF GroupInv
  <2> QED BY <2>2, <2>4 DEF ListInv
<1>13. AssignedTo' /\ JoinInv' /\ (SettledInv => SettledInv')
  BY <1>6, <1>7, <1>8, <1>9, <1>10, <1>12, KeepAssigned
<1>14. /\ UnpublishedInv /\ DeferInv /\ NestedInv /\ SharedInv /\ HoldInv
       /\ \A q \in Reserved : q \in Slots /\ FP(q) \in Slots /\ FP(q) < position
  BY ReservedTypes DEF GroupInv, PromisesInv
<1>15. /\ early => Deferred /\ ~Deferred' /\ Publishing' /\ ~Noting' /\ caller'.pc = "note" /\ caller'.res = r
       /\ late => (Deferred' <=> Deferred) /\ ~Publishing' /\ call'.res = r /\ caller'.pc # "note"
       /\ Deferred => writeBatchStart \in Slots /\ writeBatchStart \in Reserved
                      /\ instr[FP(writeBatchStart)].depth = 0
       /\ Nested(r)
  <2>1. caller.pc # "note" BY <1>1 DEF IInv, CallInv
  <2>2. Deferred => writeBatchStart \in Reserved /\ instr[FP(writeBatchStart)].depth = 0
    BY DEF Deferred, IInv, DeferredInv
  <2> QED BY <1>1, <1>2, <1>3, <1>4, <1>11, <1>14, <2>1, <2>2 DEF Deferred, Publishing, Noting, NestedInv
<1>16. \A x \in Slots : Holding(x) => Holding(x)'
  <2> SUFFICES ASSUME NEW x \in Slots, Holding(x), NEW s \in Slots, Closed(s)', s > FP(x)'
               PROVE  OP \notin word'[s]
    BY DEF Holding
  <2>1. Closed(s) /\ s > FP(x) BY <1>8, <1>9 DEF Steady
  <2>2. s # FP(r) BY <1>4, <2>1
  <2> QED BY <1>6, <2>1, <2>2 DEF Holding
<1>17. Unassigned(r)' BY <1>3, <1>4, <1>6, <1>9, <1>16 DEF Unassigned, Published
<1>18. UnpublishedInv'
  <2> SUFFICES ASSUME NEW s \in 1..(position - 1)
               PROVE  OP \in word'[s] \/ (Publishing' /\ s = FP(call.res)')
                      \/ (Deferred' /\ s = FP(writeBatchStart)')
    BY <1>1 DEF UnpublishedInv
  <2>1. s \in Slots BY PositionTypes
  <2>2. OP \in word[s] \/ s = FP(r) \/ (Deferred /\ s = FP(writeBatchStart))
    BY <1>3, <1>14 DEF UnpublishedInv
  <2>3. CASE OP \in word[s] \/ s = FP(r) BY <1>6, <2>1, <2>3
  <2>4. CASE Deferred /\ s = FP(writeBatchStart)
    <3>1. CASE early
      <4>1. FP(call.res)' = FP(writeBatchStart) BY <1>1, <1>11, <3>1 DEF FP
      <4> QED BY <1>15, <2>4, <3>1, <4>1
    <3>2. CASE late
      <4>1. FP(writeBatchStart)' = FP(writeBatchStart) BY <1>1, <3>2 DEF FP
      <4> QED BY <1>15, <2>4, <3>2, <4>1
    <3> QED BY <1>1, <3>1, <3>2
  <2> QED BY <2>2, <2>3, <2>4
<1>19. DeferInv'
  <2>1. CASE early BY <1>15, <2>1 DEF DeferInv
  <2>2. CASE late
    <3> SUFFICES ASSUME Deferred
                 PROVE  /\ writeBatchStart = blocks[1]
                        /\ \A s \in Slots : FP(writeBatchStart)' < s /\ s < position => Inside(s)'
                        /\ ~EventTurnBatching =>
                             \A q \in Reserved : q > writeBatchStart => instr'[FP(q)'].depth > 1
                        /\ EventTurnBatching /\ commitPromise # 0 => commitPromise >= writeBatchStart
                        /\ writeBatchStart < r
      BY <1>1, <1>9, <1>15, <2>2 DEF DeferInv
    <3>1. FP(writeBatchStart)' = FP(writeBatchStart) BY <1>1, <2>2 DEF FP
    <3>2. \A q \in Reserved : instr'[FP(q)'] = instr[FP(q)] BY <1>9, <1>14
    <3> QED BY <1>2, <1>3, <1>9, <1>14, <3>1, <3>2 DEF DeferInv
  <2> QED BY <1>1, <2>1, <2>2
<1>20. ASSUME NEW x \in Slots, NEW y \in Slots, y = call'.res, x = y, Nested(x) PROVE Nested(call.res)'
  <2>1. FP(call.res)' = FP(x) /\ FP(commitPromise)' = FP(commitPromise) BY <1>1, <1>20 DEF FP
  <2>2. instr'[FP(call.res)'] = instr[FP(x)] BY <1>1, <2>1
  <2> QED BY <1>1, <1>9, <1>20, <2>1, <2>2 DEF Nested
<1>21. NestedInv'
  <2>1. CASE late
    <3>1. Nested(call.res)' BY <1>15, <1>20, <2>1
    <3> QED BY <1>15, <2>1, <3>1 DEF NestedInv
  <2>2. CASE early
    <3>1. Nested(writeBatchStart)
      <4> SUFFICES ASSUME commitPromise > writeBatchStart
                   PROVE  \A s \in Slots : FP(writeBatchStart) < s /\ s <= FP(commitPromise) => Inside(s)
        BY <1>15, <2>2 DEF Nested
      <4>1. commitPromise # 0
        <5>1. writeBatchStart \in Nat /\ 1 <= writeBatchStart BY <1>15, <2>2, SlotTypes
        <5> QED BY <5>1
      <4>2. FP(commitPromise) < position /\ FP(commitPromise) \in Slots
        BY <1>14, <4>1 DEF SharedInv
      <4>3. position \in Nat /\ FP(commitPromise) \in Nat BY <4>2, PositionTypes, SlotTypes
      <4>4. ASSUME NEW s \in Slots, s <= FP(commitPromise) PROVE s < position
        <5>1. s \in Nat BY SlotTypes
        <5> QED BY <4>2, <4>3, <4>4, <5>1
      <4> QED BY <1>14, <1>15, <2>2, <4>4 DEF DeferInv
    <3>2. Nested(call.res)' BY <1>11, <1>15, <1>20, <2>2, <3>1
    <3>3. commitPromise <= r
      <4>1. ~(commitPromise > r) BY <1>4, <1>15 DEF Nested
      <4>2. commitPromise \in Nat
        <5>1. CASE commitPromise = 0 BY <5>1
        <5>2. CASE commitPromise # 0
          <6>1. commitPromise \in Slots BY <1>14, <5>2 DEF SharedInv
          <6> QED BY <6>1, SlotTypes
        <5> QED BY <5>1, <5>2
      <4>3. r \in Nat BY SlotTypes
      <4> QED BY <4>1, <4>2, <4>3
    <3> QED BY <1>1, <1>15, <2>2, <3>2, <3>3 DEF NestedInv
  <2> QED BY <1>1, <2>1, <2>2
<1>22. SharedInv'
  <2> SUFFICES ASSUME commitPromise # 0
               PROVE  /\ commitPromise \in Reserved /\ Promise(commitPromise)' = commitPromise
                      /\ ~Conditional(commitPromise)' /\ Holding(commitPromise)'
    BY <1>1, <1>9 DEF SharedInv
  <2>1. PICK c \in Slots : c = commitPromise BY <1>14 DEF SharedInv
  <2>2. c \in Reserved /\ Promise(c) = c /\ ~Conditional(c) /\ Holding(c)
    BY <1>14, <2>1 DEF SharedInv
  <2>3. c \in Reserved /\ Promise(c)' = c /\ ~Conditional(c)' /\ Holding(c)' BY <1>9, <1>16, <2>2
  <2>4. c = commitPromise' BY <1>1, <2>1
  <2> QED BY <2>1, <2>3, <2>4 DEF Promise, Conditional, Holding, FP
<1>23. HoldInv'
  <2>1. CASE late
    <3>1. Unassigned(call.res)' BY <1>15, <1>17, <2>1 DEF Unassigned, Published, Promise, Holding, FP
    <3> QED BY <1>15, <2>1, <3>1 DEF HoldInv
  <2>2. CASE early
    <3>1. Unassigned(caller.res)' BY <1>15, <1>17, <2>2 DEF Unassigned, Published, Promise, Holding, FP
    <3> QED BY <1>15, <2>2, <3>1 DEF HoldInv
  <2> QED BY <1>1, <2>1, <2>2
<1> QED BY <1>8, <1>12, <1>13, <1>18, <1>19, <1>21, <1>22, <1>23
  DEF GroupInv, AnswerInv, TruthKept, PromisesInv

-----------------------------------------------------------------------------
(* Assigning promises. *)

\* No transaction was closed between a write and the one whose promise it shares.
LEMMA SharedJoined ==
    ASSUME IInv, CursorInv, GroupInv, Noting, ~Publishing, NEW r \in Reserved, r = call.res,
           Published(r), Holding(r), instr[FP(r)].depth <= 1,
           NEW c \in Reserved, c = commitPromise
    PROVE  Joined(c, r)
<1>1. /\ r \in Places /\ r \in Slots /\ r \in Nat /\ FP(r) \in Slots /\ FP(r) \in Nat /\ FP(r) < position
      /\ c \in Places /\ c \in Slots /\ c \in Nat /\ c # 0 /\ FP(c) \in Slots /\ FP(c) \in Nat
      /\ FP(c) < position
  BY ReservedTypes
<1>2. UnpublishedInv /\ DeferInv /\ Nested(r) /\ Holding(c)
  BY <1>1 DEF GroupInv, PromisesInv, NestedInv, SharedInv
<1>3. Deferred => /\ writeBatchStart \in Places /\ writeBatchStart \in Nat /\ writeBatchStart < r
                  /\ FP(writeBatchStart) \in Nat
  <2>1. Deferred => writeBatchStart \in Reserved BY DEF Deferred, IInv, DeferredInv
  <2> QED BY <1>2, <2>1, ReservedTypes DEF DeferInv
<1>4. ASSUME NEW s \in Slots, FP(c) < s, s <= FP(r)
      PROVE  s < position /\ OP \in word[s] /\ ~Closed(s)
  <2>1. s \in Nat /\ 1 <= s BY SlotTypes
  <2>2. s < position /\ s \in 1..(position - 1) BY <1>1, <1>4, <2>1, PositionTypes
  <2>3. OP \in word[s] \/ (Deferred /\ s = FP(writeBatchStart)) BY <1>2, <2>2 DEF UnpublishedInv
  <2>4. ASSUME Deferred, s = FP(writeBatchStart) PROVE FALSE
    <3>1. CASE EventTurnBatching
      <4>1. c >= writeBatchStart BY <1>1, <1>2, <2>4, <3>1 DEF DeferInv
      <4>2. c = writeBatchStart \/ writeBatchStart < c BY <1>1, <1>3, <2>4, <4>1
      <4>3. FP(writeBatchStart) <= FP(c) BY <1>1, <1>3, <2>4, <4>2 DEF CursorInv, OrderInv
      <4> QED BY <1>1, <1>4, <2>1, <2>4, <4>3
    <3>2. CASE ~EventTurnBatching
      <4>1. instr[FP(r)].depth > 1
        <5>1. r > writeBatchStart BY <1>1, <1>3, <2>4
        <5> QED BY <1>2, <2>4, <3>2, <5>1 DEF DeferInv
      <4>2. instr[FP(r)].depth \in Nat
        <5>1. FP(r) \in 1..MaxSlots
          <6>1. FP(r) \in 1..(position - 1) BY DEF IInv, ResolutionInv
          <6>2. position <= MaxSlots + 1 /\ MaxSlots \in Nat /\ position \in Nat BY PositionTypes, SlotTypes
          <6> QED BY <6>1, <6>2
        <5>2. instr[FP(r)] \in Instruction BY <5>1 DEF IInv, TypeOK, TypeReserve
        <5> QED BY <5>2 DEF Instruction
      <4> QED BY <4>1, <4>2
    <3> QED BY <3>1, <3>2
  <2>5. OP \in word[s] BY <2>3, <2>4
  <2>6. ~Closed(s)
    <3>1. s > FP(c) BY <1>1, <1>4, <2>1
    <3> QED BY <1>2, <2>5, <3>1 DEF Holding
  <2> QED BY <2>2, <2>5, <2>6
<1>5. ASSUME NEW s \in Slots, FP(r) < s, s <= FP(c)
      PROVE  s < position /\ Inside(s) /\ ~Closed(s)
  <2>1. s \in Nat BY SlotTypes
  <2>2. s < position BY <1>1, <1>5, <2>1, PositionTypes
  <2>3. r < c
    <3>1. FP(r) < FP(c) BY <1>1, <1>5, <2>1
    <3>2. CASE r = c BY <1>1, <3>1, <3>2
    <3>3. CASE c < r
      <4>1. FP(c) < FP(r) BY <1>1, <3>3 DEF CursorInv, OrderInv
      <4> QED BY <1>1, <3>1, <4>1
    <3> QED BY <1>1, <3>2, <3>3
  <2>4. Inside(s)
    <3>1. commitPromise > r BY <1>1, <2>3
    <3> QED BY <1>2, <1>5, <3>1 DEF Nested
  <2>5. ~Closed(s)
    <3> SUFFICES ASSUME Closed(s) PROVE FALSE OBVIOUS
    <3>1. s > FP(r) BY <1>1, <1>5, <2>1
    <3>2. OP \notin word[s] BY <3>1 DEF Holding
    <3>3. Nest(s) = 0 BY <3>2, ClosedOpen DEF GroupInv, HistoryInv
    <3> QED BY <2>4, <3>3 DEF Inside
  <2> QED BY <2>2, <2>4, <2>5
<1> QED BY <1>4, <1>5 DEF Joined

LEMMA AssignTruth ==
    ASSUME IInv, CursorInv, GroupInv, IInv', AssignPromise
    PROVE  TruthKept
<1>1. PICK r \in Slots : r = call.res /\ r \in Reserved /\ r # 0 /\ r \in Nat
  <2>1. call.pc = "promise" BY DEF AssignPromise
  <2> QED BY <2>1, CallFacts, ReservedTypes
<1> DEFINE immediate == ~Conditional(r) /\ instr[FP(r)].depth > 1
           own == ~immediate /\ (Conditional(r) \/ commitPromise = 0)
           p == IF immediate THEN PromiseSuccess ELSE IF own THEN r ELSE commitPromise
           x == IF own /\ SeparateFlushed THEN flushPromise ELSE 0
           e == [resolution[r] EXCEPT !.promise = p, !.flush = x]
<1>2. /\ call.pc = "promise" /\ call' = caller /\ caller' = Idle
      /\ UNCHANGED <<word, instr, position, nextResolution, blocks, txnResolution, unwrittenResolution,
                     uncommittedResolution, writeBatchStart, worker>>
      /\ SameHistory
      /\ commitPromise' = IF own /\ ~Conditional(r) THEN r ELSE commitPromise
      /\ resolution' = [resolution EXCEPT ![r] = e]
  BY <1>1 DEF AssignPromise, reserveVars, batchVars, settleVars, historyVars, SameHistory, CallSlot, FP
<1>3. /\ e.flagPosition = resolution[r].flagPosition /\ e.isTxn = resolution[r].isTxn
      /\ e.nextTxn = resolution[r].nextTxn /\ e.flag = resolution[r].flag
      /\ e.settled = resolution[r].settled /\ e.promise = p
  <2>1. resolution[r] \in Resolution BY <1>1, PlaceTypes
  <2> QED BY <2>1 DEF Resolution
<1>4. /\ p = PromiseSuccess \/ p = r \/ (p = commitPromise /\ commitPromise # 0 /\ ~Conditional(r)
                                         /\ ~(instr[FP(r)].depth > 1))
      /\ own => p = r
  OBVIOUS
<1> HIDE DEF e, p
<1>5. resolution'[r] = e /\ \A q \in Slots : q # r => resolution'[q] = resolution[q]
  BY <1>1, <1>2 DEF IInv, TypeOK, TypeReserve
<1>6. /\ \A q \in Slots : /\ FP(q)' = FP(q) /\ Is(q)' = Is(q) /\ NextTxn(q)' = NextTxn(q)
                          /\ resolution'[q].flag = resolution[q].flag /\ Settled(q)' = Settled(q)
                          /\ q # r => Promise(q)' = Promise(q)
      /\ Promise(r)' = p
  BY <1>1, <1>3, <1>5 DEF FP, Is, NextTxn, Settled, Promise
<1>7. SamePlaces /\ JsWorkers BY <1>2, <1>6, SameWorkers DEF SamePlaces
<1>8. HistoryInv' /\ Steady
  <2>1. JsWords BY <1>2 DEF JsWords
  <2>2. \A s \in 1..Len(log) : instr'[s].kind = instr[s].kind BY <1>2
  <2> QED BY <1>2, <1>7, <2>1, <2>2, JsHistory DEF GroupInv, CursorInv, Steady
<1>9. /\ Reserved' = Reserved /\ \A s : Inside(s)' <=> Inside(s)
      /\ \A q \in Slots : Conditional(q)' <=> Conditional(q)
      /\ \A q \in Slots : instr'[FP(q)'] = instr[FP(q)]
  BY <1>7, PlacesKept
<1>10. caller.pc \in {"idle", "note"} /\ caller'.pc = "idle" BY <1>2, IdleCall DEF IInv, CallInv
<1>11. ListInv' /\ SkipsKept /\ (ChainInv => ChainInv')
  <2>1. ListedInv' /\ SkipsKept /\ (ChainInv => ChainInv') BY <1>2, <1>6, <1>7, <1>8, KeepLinks DEF GroupInv
  <2>2. call'.pc # "settle" BY <1>2, <1>10
  <2>3. ReadInv' BY <1>2, <1>6, <1>7, <1>8, <2>2, KeepRead DEF GroupInv
  <2> QED BY <2>1, <2>3 DEF ListInv
<1>12. /\ UnpublishedInv /\ DeferInv /\ NestedInv /\ SharedInv /\ HoldInv /\ AssignedTo /\ JoinInv
       /\ TxnInv
       /\ \A q \in Reserved : q \in Slots /\ q \in Nat /\ q # 0 /\ FP(q) \in Slots /\ FP(q) < position
  BY ReservedTypes DEF GroupInv, PromisesInv, HistoryInv
<1>13. Noting /\ ~Publishing /\ ~Publishing' /\ (Noting' => caller.pc = "note") /\ (Deferred' <=> Deferred)
  BY <1>1, <1>2, <1>10 DEF Noting, Publishing, Deferred
<1>14. Published(r) /\ Promise(r) = NoPromise /\ Holding(r)
  BY <1>1, <1>12, <1>13 DEF HoldInv, Unassigned
<1>15. ASSUME caller.pc = "note"
       PROVE  caller.res \in Slots /\ caller.res \in Nat /\ r < caller.res
  BY <1>1, <1>15, CallReserved DEF CursorInv, TurnInv
<1>16. \A q \in Slots : Holding(q) => Holding(q)'
  BY <1>2, <1>6, <1>8 DEF Holding, Steady
<1>17. commitPromise # 0 =>
         /\ commitPromise \in Reserved /\ Promise(commitPromise) = commitPromise
         /\ ~Conditional(commitPromise) /\ Holding(commitPromise) /\ commitPromise # r
  BY <1>12, <1>14 DEF SharedInv, NoPromise
<1>18. UnpublishedInv'
  <2>1. Deferred => FP(writeBatchStart)' = FP(writeBatchStart)
    <3>1. Deferred => writeBatchStart \in Reserved BY DEF Deferred, IInv, DeferredInv
    <3> QED BY <1>2, <1>6, <1>12, <3>1 DEF FP
  <2> QED BY <1>2, <1>12, <1>13, <2>1 DEF UnpublishedInv
<1>19. DeferInv'
  <2> SUFFICES ASSUME Deferred
               PROVE  /\ writeBatchStart = blocks[1]
                      /\ \A s \in Slots : FP(writeBatchStart)' < s /\ s < position => Inside(s)'
                      /\ ~EventTurnBatching =>
                           \A q \in Reserved : q > writeBatchStart => instr'[FP(q)'].depth > 1
                      /\ EventTurnBatching /\ commitPromise' # 0 => commitPromise' >= writeBatchStart
                      /\ caller.pc = "note" => writeBatchStart < caller.res
    BY <1>2, <1>9, <1>13 DEF DeferInv
  <2>1. /\ writeBatchStart = blocks[1]
        /\ \A s \in Slots : FP(writeBatchStart) < s /\ s < position => Inside(s)
        /\ ~EventTurnBatching =>
             \A q \in Reserved : q > writeBatchStart => instr[FP(q)].depth > 1
        /\ EventTurnBatching /\ commitPromise # 0 => commitPromise >= writeBatchStart
        /\ writeBatchStart < r
    BY <1>1, <1>12, <1>13 DEF DeferInv
  <2>2. writeBatchStart \in Slots /\ writeBatchStart \in Nat
    BY <1>12 DEF Deferred, IInv, DeferredInv
  <2>3. FP(writeBatchStart)' = FP(writeBatchStart) BY <1>2, <1>6, <2>2 DEF FP
  <2>4. \A q \in Reserved : instr'[FP(q)'] = instr[FP(q)] BY <1>9, <1>12
  <2>5. EventTurnBatching /\ commitPromise' # 0 => commitPromise' >= writeBatchStart
    <3>1. CASE own /\ ~Conditional(r)
      <4>1. commitPromise' = r BY <1>2, <3>1
      <4> QED BY <1>1, <2>1, <2>2, <4>1
    <3>2. CASE ~(own /\ ~Conditional(r))
      <4>1. commitPromise' = commitPromise BY <1>2, <3>2
      <4> QED BY <2>1, <4>1
    <3> QED BY <3>1, <3>2
  <2>6. caller.pc = "note" => writeBatchStart < caller.res BY <1>1, <1>15, <2>1, <2>2
  <2> QED BY <1>9, <2>1, <2>3, <2>4, <2>5, <2>6
<1>20. NestedInv'
  <2>1. ASSUME caller.pc = "note" PROVE ~(commitPromise' > caller.res)
    <3>1. CASE own /\ ~Conditional(r)
      <4>1. commitPromise' = r BY <1>2, <3>1
      <4> QED BY <1>1, <1>15, <2>1, <4>1
    <3>2. CASE ~(own /\ ~Conditional(r))
      <4>1. commitPromise' = commitPromise BY <1>2, <3>2
      <4>2. commitPromise <= caller.res BY <1>12, <2>1 DEF NestedInv
      <4>3. commitPromise \in Nat BY <1>12, <1>17
      <4> QED BY <1>15, <2>1, <4>1, <4>2, <4>3
    <3> QED BY <3>1, <3>2
  <2>2. Noting' => Nested(call.res)' BY <1>2, <1>13, <2>1 DEF Nested
  <2> QED BY <1>10, <1>13, <2>2 DEF NestedInv
<1>21. SharedInv'
  <2> SUFFICES ASSUME commitPromise' # 0
               PROVE  /\ commitPromise' \in Reserved /\ Promise(commitPromise)' = commitPromise'
                      /\ ~Conditional(commitPromise)' /\ Holding(commitPromise)'
    BY <1>9 DEF SharedInv
  <2>1. PICK c \in Slots : /\ c = commitPromise' /\ c \in Reserved /\ Promise(c)' = c
                           /\ ~Conditional(c)' /\ Holding(c)'
    <3>1. CASE own /\ ~Conditional(r)
      <4>1. commitPromise' = r /\ p = r BY <1>2, <1>4, <3>1
      <4>2. Promise(r)' = r /\ ~Conditional(r)' /\ Holding(r)'
        BY <1>6, <1>9, <1>14, <1>16, <3>1, <4>1
      <4> QED BY <1>1, <4>1, <4>2
    <3>2. CASE ~(own /\ ~Conditional(r))
      <4>1. commitPromise' = commitPromise BY <1>2, <3>2
      <4>2. PICK c \in Slots : c = commitPromise BY <1>12, <1>17, <4>1
      <4>3. c \in Reserved /\ Promise(c) = c /\ ~Conditional(c) /\ Holding(c) /\ c # r
        BY <1>17, <4>1, <4>2
      <4>4. Promise(c)' = c /\ ~Conditional(c)' /\ Holding(c)' BY <1>6, <1>9, <1>16, <4>3
      <4> QED BY <4>1, <4>2, <4>3, <4>4
    <3> QED BY <3>1, <3>2
  <2> QED BY <2>1 DEF Promise, Conditional, Holding, FP
<1>22. HoldInv'
  <2>1. ASSUME caller.pc = "note" PROVE Unassigned(call.res)'
    <3>1. PICK c \in Slots : c = caller.res /\ c # r
      <4>1. caller.res # r BY <1>1, <1>15, <2>1
      <4> QED BY <1>15, <2>1, <4>1
    <3>2. Published(c) /\ Promise(c) = NoPromise /\ Holding(c)
      BY <1>12, <2>1, <3>1 DEF HoldInv, Unassigned
    <3>3. Published(c)' /\ Promise(c)' = NoPromise /\ Holding(c)'
      BY <1>2, <1>6, <1>16, <3>1, <3>2 DEF Published
    <3>4. c = call'.res BY <1>2, <3>1
    <3> QED BY <3>3, <3>4 DEF Unassigned, Published, Promise, Holding, FP
  <2> QED BY <1>10, <1>13, <2>1 DEF HoldInv
<1>23. AssignedTo'
  <2> SUFFICES ASSUME NEW q \in Slots, Promise(q)' # NoPromise PROVE q \in Reserved /\ Published(q)'
    BY <1>9 DEF AssignedTo
  <2>1. q \in Reserved /\ Published(q)
    <3>1. CASE q = r BY <1>1, <1>14, <3>1
    <3>2. CASE q # r BY <1>6, <1>12, <3>2 DEF AssignedTo
    <3> QED BY <3>1, <3>2
  <2> QED BY <1>2, <1>6, <2>1 DEF Published
<1>24. JoinInv'
  <2> SUFFICES ASSUME NEW q \in Slots, Shares(q)' PROVE \E c \in Reserved' : SharesWith(q, c)'
    BY DEF JoinInv
  <2>1. position <= position' BY <1>2, PositionTypes
  <2>2. \A c \in Reserved : /\ c \in Reserved' /\ FP(c)' = FP(c)
                            /\ Conditional(c)' <=> Conditional(c)
    BY <1>6, <1>9, <1>12
  <2>3. \A s \in Slots : s < position => /\ Inside(s) => Inside(s)'
                                         /\ OP \in word[s] => OP \in word'[s]
    BY <1>2, <1>9
  <2>4. CASE q # r
    <3>1. Shares(q) BY <1>6, <2>4 DEF Shares
    <3>2. PICK c \in Reserved : SharesWith(q, c) BY <1>12, <3>1 DEF JoinInv
    <3>3. c # r BY <1>1, <1>14, <3>2 DEF SharesWith, NoPromise
    <3>4. Promise(c)' = c /\ Promise(q)' = c BY <1>6, <1>12, <2>4, <3>2, <3>3 DEF SharesWith
    <3>5. SharesWith(q, c)' BY <1>8, <1>12, <2>1, <2>2, <2>3, <3>2, <3>4, KeepShares
    <3> QED BY <1>9, <3>5
  <2>5. CASE q = r
    <3>1. p > 0 /\ p # r BY <1>6, <2>5 DEF Shares
    <3>2. /\ p = commitPromise /\ commitPromise # 0 /\ ~Conditional(r) /\ ~(instr[FP(r)].depth > 1)
      BY <1>4, <3>1 DEF PromiseSuccess
    <3>3. PICK c \in Reserved : c = commitPromise /\ Promise(c) = c /\ ~Conditional(c) /\ c # r
      BY <1>17, <3>2
    <3>4. instr[FP(r)].depth <= 1
      <4>1. FP(r) \in 1..(position - 1) BY <1>1 DEF IInv, ResolutionInv
      <4>2. FP(r) \in 1..MaxSlots
        <5>1. position \in Nat /\ position <= MaxSlots + 1 /\ MaxSlots \in Nat BY PositionTypes, SlotTypes
        <5> QED BY <4>1, <5>1
      <4>3. instr[FP(r)] \in Instruction BY <4>2 DEF IInv, TypeOK, TypeReserve
      <4>4. instr[FP(r)].depth \in Nat BY <4>3 DEF Instruction
      <4> QED BY <3>2, <4>4
    <3>5. Joined(c, r) BY <1>1, <1>13, <1>14, <3>3, <3>4, SharedJoined
    <3>6. FP(c)' = FP(c) /\ FP(r)' = FP(r) BY <1>1, <1>6, <1>12
    <3>7. position' \in Nat BY <1>2, PositionTypes
    <3>8. Joined(c, r)' BY <1>8, <2>1, <2>3, <3>5, <3>6, <3>7, KeepJoined
    <3>9. /\ c \in Reserved' /\ Promise(c)' = c /\ Promise(r)' = c /\ ~Conditional(c)' /\ ~Conditional(r)'
      BY <1>1, <1>6, <1>9, <1>12, <3>2, <3>3
    <3>10. SharesWith(r, c)' BY <3>8, <3>9 DEF SharesWith
    <3> QED BY <2>5, <3>9, <3>10
  <2> QED BY <2>4, <2>5
<1>25. ASSUME SettledInv PROVE SettledInv'
  <2>1. Settled(r) = "pending"
    <3>1. Promise(r) # r BY <1>1, <1>14 DEF NoPromise
    <3> QED BY <1>25, <3>1 DEF SettledInv
  <2>2. \A q \in Slots :
          /\ Settled(q) = "pending" => Settled(q)' = "pending"
          /\ Settled(q) # "pending" => /\ Settled(q)' = Settled(q) /\ FP(q)' = FP(q)
                                       /\ Promise(q)' = Promise(q)
                                       /\ (Conditional(q)' <=> Conditional(q))
    BY <1>6, <1>9, <2>1
  <2> QED BY <1>8, <1>9, <1>11, <1>12, <1>25, <2>2, KeepSettled
<1> QED BY <1>8, <1>11, <1>18, <1>19, <1>20, <1>21, <1>22, <1>23, <1>24, <1>25
  DEF GroupInv, AnswerInv, TruthKept, PromisesInv

-----------------------------------------------------------------------------
(* Settling a transaction. *)

\* Between the cursor and the delimiter at hand lies one transaction, the one that
\* was closed there; what was closed in between was skipped.
LEMMA SettledTxn ==
    ASSUME IInv, CursorInv, GroupInv, ChainInv, txnResolution # 0, NEW v \in Ended,
           End(v) = FP(txnResolution),
           NEW r \in Slots, uncommittedResolution <= r, r < txnResolution
    PROVE  /\ r \in Reserved /\ FP(r) <= Len(log) /\ FP(r) \in 1..Len(log)
           /\ txnOf[FP(r)] \in Ended /\ txnOf[FP(r)] \in DOMAIN worker
           /\ txnOf[FP(r)] = v \/ (txnOf[FP(r)] < v /\ Skipped(End(txnOf[FP(r)])))
<1>1. PICK t \in Slots : /\ t = txnResolution /\ t \in Places /\ Is(t) /\ FP(t) <= Frontier
                         /\ t \in Nat /\ FP(t) \in Nat
  <2>1. txnResolution \in Slots /\ Is(txnResolution) BY PlaceTypes DEF CursorInv, LinkInv
  <2>2. txnResolution \in Places /\ FP(txnResolution) <= Frontier BY <2>1 DEF CursorInv, LinkInv
  <2> QED BY <2>1, <2>2, PlaceTypes, SlotTypes
<1>2. r \in Places /\ r \in Nat /\ r < t
  <2>1. r \in Nat /\ 1 <= r /\ t <= nextResolution BY <1>1, SlotTypes, PlaceTypes
  <2>2. r <= nextResolution BY <1>1, <2>1, SlotTypes
  <2> QED BY <1>1, <2>1, <2>2, PlaceTypes
<1>3. r \in Reserved /\ FP(r) \in 1..Len(log) BY <1>1, <1>2, BeforePublished DEF CursorInv
<1>4. FP(r) <= Len(log) /\ FP(r) \in Nat BY <1>3, SlotTypes
<1>5. FP(r) < FP(t) BY <1>1, <1>2 DEF CursorInv, OrderInv
<1>6. PICK x \in DOMAIN worker : x = txnOf[FP(r)] /\ \A w \in Ended : x <= w <=> FP(r) < End(w)
  BY <1>3 DEF GroupInv, HistoryInv, TxnInv, SpanInv
<1>7. x <= v BY <1>1, <1>5, <1>6
<1>8. ASSUME x < v PROVE x \in Ended /\ Skipped(End(x))
  <2>1. x \in Ended
    <3>1. v <= Len(worker) /\ v \in Nat /\ x \in Nat /\ Len(worker) \in Nat BY EndTypes
    <3>2. x # Len(worker) BY <1>8, <3>1
    <3> QED BY <3>2 DEF GroupInv, HistoryInv, TxnInv, LastInv
  <2>2. x \in Nat BY EndTypes
  <2>3. FP(r) < End(x) BY <1>6, <2>1, <2>2
  <2>4. End(x) < FP(t) BY <1>1, <1>8, <2>1 DEF GroupInv, HistoryInv, TxnInv, StrictInv
  <2>5. PICK s \in Slots : s = End(x) /\ s \in Nat /\ Closed(s) BY <2>1, EndTypes DEF Closed
  <2>6. OP \in word[s]
    <3>1. s <= Len(log) /\ 1 <= s
      <4>1. Frontier = Len(log) + 1 /\ Len(log) \in Nat BY SlotTypes
      <4>2. s < FP(t) /\ FP(t) <= Frontier BY <1>1, <2>4, <2>5
      <4>3. s <= Len(log) BY <1>1, <2>5, <4>1, <4>2
      <4> QED BY <2>5, <4>3, SlotTypes
    <3>2. s \in 1..Len(log) BY <2>5, <3>1, SlotTypes
    <3> QED BY <3>2 DEF CursorInv, ExecutedInv, RunInv
  <2>7. PICK q \in Places : Is(q) /\ FP(q) = s BY <2>5, <2>6 DEF GroupInv, ListInv, ListedInv
  <2>8. q \in Nat /\ r < q /\ q < t
    <3>1. q \in Nat /\ FP(q) \in Nat BY <2>5, <2>7, PlaceTypes
    <3>2. ~(q < r) /\ q # r
      BY <1>2, <1>4, <2>3, <2>5, <2>7, <3>1 DEF CursorInv, OrderInv
    <3>3. ~(t < q) /\ q # t
      BY <1>1, <2>4, <2>5, <2>7, <3>1 DEF CursorInv, OrderInv
    <3> QED BY <1>1, <1>2, <3>1, <3>2, <3>3
  <2>9. q <= uncommittedResolution \/ q = t \/ q = NextTxn(t) \/ Skipped(FP(q))
    BY <1>1, <2>7 DEF ChainInv
  <2>10. uncommittedResolution \in Nat BY SlotTypes
  <2>11. q = NextTxn(t) => t < q
    <3>1. q # 0 BY <2>7, PlaceTypes
    <3> QED BY <1>1, <3>1 DEF CursorInv, LinkInv
  <2>12. Skipped(FP(q)) BY <1>1, <1>2, <2>8, <2>9, <2>10, <2>11
  <2> QED BY <2>1, <2>5, <2>7, <2>12
<1>9. x = v \/ x < v
  <2>1. x \in Nat /\ v \in Nat BY EndTypes
  <2> QED BY <1>7, <2>1
<1> QED BY <1>3, <1>4, <1>6, <1>8, <1>9

LEMMA SettleTruth ==
    ASSUME IInv, CursorInv, GroupInv, IInv', SettleTxn
    PROVE  TruthKept
<1> DEFINE t == txnResolution
           passed(r) == r \in uncommittedResolution..(t - 1) /\ Promise(r) = r
           outcome(r) == IF TXN_FAILED \in TxnStatus THEN "rejected"
                         ELSE IF FAILED_CONDITION \in resolution[r].flag /\ Conditional(r) THEN "false"
                         ELSE "true"
<1>1. /\ call.pc = "settle" /\ t # 0 /\ TxnStatus # {} /\ uncommittedResolution' = t
      /\ txnResolution' = NextTxn(t)
      /\ UNCHANGED <<word, instr, position, nextResolution, blocks, commitPromise, writeBatchStart,
                     unwrittenResolution, call, caller, worker>>
      /\ SameHistory
      /\ resolution' = [r \in Slots |->
             IF passed(r) THEN [resolution[r] EXCEPT !.settled = outcome(r)] ELSE resolution[r]]
  BY DEF SettleTxn, TxnDone, reserveVars, batchVars, promiseVars, historyVars, SameHistory, NextTxn, Promise
<1>2. t \in Places /\ t \in Slots /\ Is(t) /\ t \in Nat /\ FP(t) \in Slots
  <2>1. t \in Slots /\ Is(t) BY <1>1, PlaceTypes DEF CursorInv, LinkInv
  <2>2. t \in Places BY <2>1 DEF CursorInv, LinkInv
  <2> QED BY <2>1, <2>2, PlaceTypes
<1>3. ASSUME NEW r \in Slots
      PROVE  /\ FP(r)' = FP(r) /\ Is(r)' = Is(r) /\ NextTxn(r)' = NextTxn(r)
             /\ Promise(r)' = Promise(r) /\ resolution'[r].flag = resolution[r].flag
             /\ passed(r) => Settled(r)' = outcome(r)
             /\ ~passed(r) => Settled(r)' = Settled(r)
  <2>1. PICK o \in {"rejected", "false", "true"} : o = outcome(r) OBVIOUS
  <2> HIDE DEF outcome, passed
  <2>2. resolution[r] \in Resolution BY PlaceTypes
  <2>3. CASE passed(r)
    <3>1. resolution'[r] = [resolution[r] EXCEPT !.settled = o] BY <1>1, <2>1, <2>3
    <3> QED BY <2>1, <2>2, <2>3, <3>1 DEF Resolution, FP, Is, NextTxn, Promise, Settled
  <2>4. CASE ~passed(r)
    <3>1. resolution'[r] = resolution[r] BY <1>1, <2>4
    <3> QED BY <2>4, <3>1 DEF FP, Is, NextTxn, Promise, Settled
  <2> QED BY <2>3, <2>4
<1>4. SamePlaces /\ JsWorkers BY <1>1, <1>3, SameWorkers DEF SamePlaces
<1>5. HistoryInv' /\ Steady
  <2>1. JsWords BY <1>1 DEF JsWords
  <2>2. \A s \in 1..Len(log) : instr'[s].kind = instr[s].kind BY <1>1
  <2> QED BY <1>1, <1>4, <2>1, <2>2, JsHistory DEF GroupInv, CursorInv, Steady
<1>6. /\ Places' = Places /\ Reserved' = Reserved
      /\ \A r \in Slots : Conditional(r)' <=> Conditional(r)
      /\ \A r \in Places : r \in Slots /\ r \in Nat /\ FP(r) \in Slots
  BY <1>4, PlacesKept, PlaceTypes
<1>7. ListedInv'
  <2>1. ASSUME NEW s \in Slots, Closed(s)', OP \in word'[s]
        PROVE  \E r \in Places : Is(r)' /\ FP(r)' = s
    <3>1. Closed(s) /\ OP \in word[s] BY <1>1, <1>5, <2>1 DEF Steady
    <3>2. PICK r \in Places : Is(r) /\ FP(r) = s BY <3>1 DEF GroupInv, ListInv, ListedInv
    <3> QED BY <1>3, <1>6, <3>2
  <2>2. ASSUME NEW r \in Places, Is(r)' PROVE Closed(FP(r))'
    <3>1. PICK s \in Slots : s = FP(r) BY <1>6
    <3>2. Is(r) BY <1>3, <1>6, <2>2
    <3>3. Closed(s) BY <3>1, <3>2 DEF GroupInv, ListInv, ListedInv
    <3>4. Closed(s)' BY <1>5, <3>3 DEF Steady
    <3>5. FP(r)' = s BY <1>3, <1>6, <3>1
    <3> QED BY <3>4, <3>5 DEF Closed
  <2> QED BY <1>6, <2>1, <2>2 DEF ListedInv
<1>13. SkipsKept BY <1>3, SameLinksSkip
<1>8. ASSUME ChainInv PROVE ChainInv'
  <2>1. uncommittedResolution < t /\ uncommittedResolution \in Nat BY <1>1, SlotTypes DEF CursorInv, LinkInv
  <2>2. ASSUME NEW r \in Places, Is(r)' PROVE r <= t \/ r = NextTxn(t) \/ Skipped(FP(r))'
    <3>1. Is(r) /\ r \in Nat BY <1>3, <1>6, <2>2
    <3>2. r <= uncommittedResolution \/ r = t \/ r = NextTxn(t) \/ Skipped(FP(r))
      BY <1>8, <3>1 DEF ChainInv
    <3>3. Skipped(FP(r)) => Skipped(FP(r))' BY <1>3, <1>6, <1>13, SkippedKept
    <3> QED BY <1>2, <2>1, <3>1, <3>2, <3>3
  <2>3. ASSUME NEW r \in Slots, NextTxn(r)' # 0 PROVE Is(r)' /\ r <= t
    <3>1. NextTxn(r) # 0 /\ r \in Nat BY <1>3, <2>3, SlotTypes
    <3>2. Is(r) /\ (r <= uncommittedResolution \/ r = t) BY <1>8, <3>1 DEF ChainInv
    <3>3. Is(r)' BY <1>3, <3>2
    <3> QED BY <1>2, <2>1, <3>1, <3>2, <3>3
  <2> QED BY <1>1, <1>6, <2>2, <2>3 DEF ChainInv
<1>9. ReadInv'
  <2>1. \A r \in Places : Is(r)' => r <= unwrittenResolution
    BY <1>1, <1>3, <1>6 DEF GroupInv, ListInv, ReadInv
  <2>2. \A r \in Slots : resolution'[r].flag = resolution[r].flag BY <1>3
  <2>3. UNCHANGED unwrittenResolution BY <1>1
  <2> QED BY <1>4, <1>5, <2>1, <2>2, <2>3, KeepRead DEF GroupInv
<1>10. PICK v \in Ended : /\ End(v) = FP(t)
                          /\ IF TXN_FAILED \in TxnStatus THEN Failed(v) ELSE v = 0 \/ Acknowledged(v)
  <2>1. /\ TXN_FAILED \in TxnStatus <=> TXN_FAILED \in word[FP(t)]
        /\ TXN_FAILED \notin TxnStatus => TXN_COMMITTED \in word[FP(t)]
    BY <1>1 DEF TxnStatus, FP
  <2>2. MarkInv BY DEF GroupInv, HistoryInv
  <2>3. CASE TXN_FAILED \in TxnStatus
    <3>1. SaidFailed(FP(t)) BY <1>2, <2>1, <2>2, <2>3 DEF MarkInv
    <3> QED BY <2>3, <3>1 DEF SaidFailed
  <2>4. CASE TXN_FAILED \notin TxnStatus
    <3>1. SaidDone(FP(t)) BY <1>2, <2>1, <2>2, <2>4 DEF MarkInv
    <3> QED BY <2>4, <3>1 DEF SaidDone
  <2> QED BY <2>3, <2>4
<1>11. ASSUME ChainInv, SettledInv PROVE SettledInv'
  <2> SUFFICES ASSUME NEW r \in Slots, Settled(r)' # "pending"
               PROVE  /\ Promise(r)' = r /\ r \in Reserved' /\ FP(r)' <= Len(log') /\ txnOf'[FP(r)'] \in Ended'
                      /\ Answered(Settled(r), txnOf[FP(r)])'
                      /\ Conditional(r)' /\ Settled(r)' # "rejected" =>
                           (Settled(r)' = "true") = result'[FP(r)']
    BY DEF SettledInv
  <2>1. /\ Promise(r)' = Promise(r) /\ FP(r)' = FP(r) /\ r \in Reserved' <=> r \in Reserved
        /\ Conditional(r)' <=> Conditional(r)
        /\ log' = log /\ txnOf' = txnOf /\ result' = result
    BY <1>1, <1>3, <1>6 DEF SameHistory
  <2>2. ASSUME Promise(r) = r, r \in Reserved, FP(r) <= Len(log), NEW x \in Ended, x \in DOMAIN worker,
               x = txnOf[FP(r)],
               Answered(Settled(r)', x),
               Conditional(r) /\ Settled(r)' # "rejected" => (Settled(r)' = "true") = result[FP(r)]
        PROVE  /\ Promise(r)' = r /\ r \in Reserved' /\ FP(r)' <= Len(log') /\ txnOf'[FP(r)'] \in Ended'
               /\ Answered(Settled(r), txnOf[FP(r)])'
               /\ Conditional(r)' /\ Settled(r)' # "rejected" =>
                    (Settled(r)' = "true") = result'[FP(r)']
    <3>1. x \in Ended' BY <1>1 DEF Ended
    <3>2. txnOf'[FP(r)'] = x BY <2>1, <2>2
    <3>3. PICK a : a = Settled(r)' OBVIOUS
    <3>4. Answered(a, x)'
      <4>1. Answered(a, x) BY <2>2, <3>3
      <4>2. EndsGrow /\ OutcomesKept BY <1>5 DEF Steady, EndsKept
      <4> QED BY <1>13, <2>2, <4>1, <4>2, KeepAnswered
    <3>5. Answered(Settled(r), txnOf[FP(r)])' BY <3>2, <3>3, <3>4
    <3> QED BY <2>1, <2>2, <3>1, <3>2, <3>5
  <2>3. CASE passed(r)
    <3>1. Promise(r) = r /\ uncommittedResolution <= r /\ r < t /\ r \in Nat /\ 1 <= r
      BY <1>2, <2>3, SlotTypes
    <3>2. PICK x : /\ r \in Reserved /\ FP(r) <= Len(log) /\ x = txnOf[FP(r)]
                   /\ x \in Ended /\ x \in DOMAIN worker
                   /\ x = v \/ (x < v /\ Skipped(End(x)))
      BY <1>1, <1>10, <1>11, <3>1, SettledTxn
    <3>3. v # 0
      <4>1. x \in Nat /\ 1 <= x /\ v \in Nat BY <3>2, EndTypes
      <4> QED BY <3>2, <4>1
    <3>4. Settled(r)' = outcome(r) BY <1>3, <2>3
    <3>5. Answered(Settled(r)', x)
      <4>1. Agrees(Settled(r)', v) BY <1>10, <3>3, <3>4 DEF Agrees
      <4> QED BY <3>2, <4>1 DEF Answered
    <3>6. FAILED_CONDITION \in resolution[r].flag <=> ~result[FP(r)]
      <4>1. t <= unwrittenResolution BY <1>1, <1>2 DEF GroupInv, ListInv, ReadInv
      <4>2. unwrittenResolution \in Nat BY SlotTypes
      <4>3. r \in 1..(unwrittenResolution - 1) BY <1>2, <3>1, <4>1, <4>2
      <4> QED BY <4>3 DEF GroupInv, ListInv, ReadInv
    <3>7. result[FP(r)] \in BOOLEAN
      <4>1. FP(r) \in 1..MaxSlots BY <1>1, <1>10, <1>11, <3>1, SettledTxn, SlotTypes
      <4> QED BY <4>1 DEF IInv, TypeOK, TypeHistory
    <3>8. Conditional(r) /\ Settled(r)' # "rejected" => (Settled(r)' = "true") = result[FP(r)]
      <4> SUFFICES ASSUME Conditional(r), Settled(r)' # "rejected"
                   PROVE  Settled(r)' = "true" <=> result[FP(r)]
        BY <3>7
      <4> QED BY <3>4, <3>6
    <3> QED BY <2>2, <3>1, <3>2, <3>5, <3>8
  <2>4. CASE ~passed(r)
    <3>1. Settled(r)' = Settled(r) BY <1>3, <2>4
    <3>2. /\ Promise(r) = r /\ r \in Reserved /\ FP(r) <= Len(log) /\ txnOf[FP(r)] \in Ended
          /\ Answered(Settled(r), txnOf[FP(r)])
          /\ Conditional(r) /\ Settled(r) # "rejected" => (Settled(r) = "true") = result[FP(r)]
      BY <1>11, <3>1 DEF SettledInv
    <3>3. txnOf[FP(r)] \in DOMAIN worker
      <4>1. FP(r) \in 1..Len(log)
        <5>1. FP(r) \in Slots BY <3>2, ReservedTypes
        <5>2. FP(r) \in Nat /\ 1 <= FP(r) BY <5>1, SlotTypes
        <5> QED BY <3>2, <5>2, SlotTypes
      <4> QED BY <4>1 DEF GroupInv, HistoryInv, TxnInv, SpanInv
    <3> QED BY <2>2, <3>1, <3>2, <3>3
  <2> QED BY <2>3, <2>4
<1>12. PromisesInv'
  <2>1. \A r \in Slots : Promise(r)' = Promise(r) BY <1>3
  <2>2. /\ Noting' => Noting /\ call'.res = call.res
        /\ Publishing' <=> Publishing
        /\ Publishing => call'.res = call.res
    BY <1>1 DEF Noting, Publishing
  <2>3. UNCHANGED <<word, commitPromise, writeBatchStart, caller>> BY <1>1
  <2> QED BY <1>4, <1>5, <2>1, <2>2, <2>3, KeepPromises DEF GroupInv
<1> QED BY <1>5, <1>7, <1>8, <1>9, <1>11, <1>12 DEF GroupInv, ListInv, AnswerInv, TruthKept

-----------------------------------------------------------------------------
(* Steps that reserve slots. *)

\* What they leave as it is.
Grown ==
    /\ UNCHANGED <<txnResolution, unwrittenResolution, uncommittedResolution, worker>> /\ SameHistory
    /\ position <= position' /\ nextResolution <= nextResolution'
    /\ \A s \in Slots : s < position => instr'[s] = instr[s]
    /\ \A q \in Slots : q < nextResolution =>
         FP(q)' = FP(q) /\ resolution'[q].flag = resolution[q].flag
    /\ \A q \in Slots : /\ (Is(q)' <=> Is(q)) /\ Promise(q)' = Promise(q)
                        /\ Is(q) => FP(q)' = FP(q)
    /\ \A q \in Slots : \/ NextTxn(q)' = NextTxn(q) /\ Settled(q)' = Settled(q)
                        \/ q > nextResolution /\ NextTxn(q)' = 0 /\ Settled(q)' = "pending"
    /\ JsWords /\ \A s \in Slots : OP \in word'[s] => OP \in word[s] \/ ~Closed(s)
    /\ call'.pc # "settle"

LEMMA GrownPlaces ==
    ASSUME IInv, IInv', Grown
    PROVE  /\ \A q \in Reserved : /\ q \in Slots /\ q \in Reserved' /\ FP(q)' = FP(q) /\ FP(q) \in Slots
                                  /\ FP(q) < position
                                  /\ (Conditional(q)' <=> Conditional(q))
                                  /\ instr'[FP(q)'] = instr[FP(q)]
           /\ \A q \in Places : q \in Slots /\ q \in Places'
           /\ \A s \in Slots : s < position => (Inside(s)' <=> Inside(s))
           /\ \A s \in Slots : OP \in word[s] => OP \in word'[s]
           /\ position' \in Nat /\ nextResolution' \in Nat
<1>1. position' \in Nat /\ nextResolution' \in Nat
  <2>1. position' \in Slots /\ nextResolution' \in Slots BY DEF IInv, TypeOK, TypeReserve
  <2> QED BY <2>1, SlotTypes
<1>2. \A s \in Slots : OP \in word[s] => OP \in word'[s] BY DEF Grown, JsWords
<1>3. ASSUME NEW s \in Slots, s < position PROVE Inside(s)' <=> Inside(s)
  <2>1. s < position'
    <3>1. s \in Nat /\ position \in Nat BY SlotTypes, PositionTypes
    <3> QED BY <1>1, <1>3, <3>1 DEF Grown
  <2>2. instr'[s] = instr[s] BY <1>3 DEF Grown
  <2> QED BY <1>3, <2>1, <2>2 DEF Inside, Nest
<1>4. ASSUME NEW q \in Places PROVE q \in Slots /\ q \in Places'
  <2>1. q \in Slots /\ q \in Nat /\ 1 <= q /\ q <= nextResolution BY PlaceTypes
  <2>2. q <= nextResolution' BY <1>1, <2>1, SlotTypes DEF Grown
  <2> QED BY <1>1, <2>1, <2>2 DEF Places
<1>5. ASSUME NEW q \in Reserved
      PROVE  /\ q \in Slots /\ q \in Reserved' /\ FP(q)' = FP(q) /\ FP(q) \in Slots /\ FP(q) < position
             /\ instr'[FP(q)'] = instr[FP(q)]
  <2>1. q \in Slots /\ q \in Nat /\ 1 <= q /\ q < nextResolution BY PlaceTypes, ReservedTypes
  <2>2. q < nextResolution' BY <1>1, <2>1, SlotTypes DEF Grown
  <2>3. q \in Reserved'
    <3>1. q \in Nat /\ 1 <= q /\ q < nextResolution' /\ nextResolution' \in Nat BY <1>1, <2>1, <2>2
    <3>2. PICK m \in Nat : m = nextResolution' /\ q < m BY <3>1
    <3>3. q \in Nat /\ 1 <= q /\ q < m BY <3>1, <3>2
    <3>4. q \in 1..(m - 1) BY <3>3
    <3> QED BY <3>2, <3>4 DEF Reserved
  <2>4. FP(q)' = FP(q) BY <2>1 DEF Grown
  <2>5. FP(q) \in Slots /\ FP(q) < position BY ReservedTypes
  <2>6. instr'[FP(q)'] = instr[FP(q)] BY <2>4, <2>5 DEF Grown
  <2> QED BY <2>1, <2>3, <2>4, <2>5, <2>6
<1>6. \A q \in Reserved : Conditional(q)' <=> Conditional(q) BY <1>5 DEF Conditional, FP
<1> QED BY <1>1, <1>2, <1>3, <1>4, <1>5, <1>6

LEMMA GrownTruth ==
    ASSUME IInv, CursorInv, GroupInv, IInv', Grown
    PROVE  /\ HistoryInv' /\ ListInv' /\ AssignedTo' /\ JoinInv' /\ (AnswerInv => AnswerInv')
           /\ \A x \in Slots : x < nextResolution /\ Holding(x) => Holding(x)'
<1>1. /\ UNCHANGED <<txnResolution, unwrittenResolution, uncommittedResolution, worker>> /\ SameHistory
      /\ position <= position'
      /\ \A q \in Slots : /\ (Is(q)' <=> Is(q)) /\ Promise(q)' = Promise(q)
                          /\ Is(q) => FP(q)' = FP(q)
      /\ \A q \in Slots : \/ NextTxn(q)' = NextTxn(q) /\ Settled(q)' = Settled(q)
                          \/ q > nextResolution /\ NextTxn(q)' = 0 /\ Settled(q)' = "pending"
  BY DEF Grown
<1>2. /\ \A q \in Reserved : /\ q \in Slots /\ q \in Reserved' /\ FP(q)' = FP(q) /\ FP(q) \in Slots
                             /\ (Conditional(q)' <=> Conditional(q))
      /\ \A q \in Places : q \in Slots /\ q \in Places'
      /\ \A s \in Slots : s < position => (Inside(s)' <=> Inside(s))
      /\ \A s \in Slots : OP \in word[s] => OP \in word'[s]
  BY GrownPlaces
<1>3. HistoryInv' /\ Steady
  <2>1. ASSUME NEW s \in 1..Len(log) PROVE instr'[s].kind = instr[s].kind
    <3>1. s \in Slots /\ s <= Len(log) /\ s \in Nat BY SlotTypes
    <3>2. Len(log) < position BY DEF IInv, FrontierInv
    <3>3. s < position
      <4>1. position \in Nat /\ Len(log) \in Nat BY SlotTypes, PositionTypes
      <4> QED BY <3>1, <3>2, <4>1
    <3>4. instr'[s] = instr[s] BY <3>1, <3>3 DEF Grown
    <3> QED BY <3>4
  <2>2. JsWorkers BY <1>1, SameWorkers
  <2>3. JsWords BY DEF Grown
  <2> QED BY <1>1, <2>1, <2>2, <2>3, JsHistory DEF GroupInv, CursorInv, Steady
<1>4. \A r \in Slots : Is(r) => r \in Places BY DEF CursorInv, LinkInv
<1>5. ASSUME NEW r \in Places', Is(r)' PROVE r \in Places /\ r \in Slots /\ Is(r) /\ FP(r)' = FP(r)
  <2>1. r \in Slots
    <3>1. r \in Nat /\ 1 <= r /\ r <= nextResolution' BY <1>5, GrownPlaces DEF Places
    <3>2. nextResolution' \in Slots BY DEF IInv, TypeOK, TypeReserve
    <3>3. nextResolution' \in Nat /\ nextResolution' <= MaxSlots + 1 BY <3>2, SlotTypes
    <3>4. r # 0 /\ r <= MaxSlots + 1
      <4>1. MaxSlots \in Nat BY SlotTypes
      <4> QED BY <3>1, <3>3, <4>1
    <3> QED BY <3>1, <3>4, SlotTypes
  <2>2. Is(r) BY <1>1, <1>5, <2>1
  <2> QED BY <1>1, <1>4, <2>1, <2>2
<1>6. ListedInv'
  <2>1. ASSUME NEW s \in Slots, Closed(s)', OP \in word'[s]
        PROVE  \E r \in Places' : Is(r)' /\ FP(r)' = s
    <3>1. Closed(s) BY <1>3, <2>1 DEF Steady
    <3>2. OP \in word[s] BY <2>1, <3>1 DEF Grown
    <3>3. PICK r \in Places : Is(r) /\ FP(r) = s BY <3>1, <3>2 DEF GroupInv, ListInv, ListedInv
    <3> QED BY <1>1, <1>2, <3>3
  <2>2. ASSUME NEW r \in Places', Is(r)' PROVE Closed(FP(r))'
    <3>1. r \in Places /\ r \in Slots /\ Is(r) /\ FP(r)' = FP(r) BY <1>5, <2>2
    <3>2. PICK s \in Slots : s = FP(r) BY <3>1, PlaceTypes
    <3>3. Closed(s) BY <3>1, <3>2 DEF GroupInv, ListInv, ListedInv
    <3>4. Closed(s)' BY <1>3, <3>3 DEF Steady
    <3>5. FP(r)' = s BY <3>1, <3>2
    <3> QED BY <3>4, <3>5 DEF Closed
  <2> QED BY <2>1, <2>2 DEF ListedInv
<1>14. ASSUME ChainInv PROVE SkipsKept
  <2> SUFFICES ASSUME NEW e \in Nat, Skipped(e) PROVE Skipped(e)' BY DEF SkipsKept
  <2>1. PICK q \in Slots : NextTxn(q) # 0 /\ FP(q) < e /\ e < FP(NextTxn(q)) BY DEF Skipped
  <2>2. PICK n \in Slots : n = NextTxn(q) /\ Is(n)
    <3>1. NextTxn(q) \in Slots BY <2>1, PlaceTypes, SlotTypes
    <3>2. Is(NextTxn(q)) BY <2>1 DEF CursorInv, LinkInv
    <3> QED BY <3>1, <3>2
  <2>3. Is(q) BY <1>14, <2>1 DEF ChainInv
  <2>4. FP(q)' = FP(q) /\ FP(n)' = FP(n) BY <1>1, <2>2, <2>3
  <2>5. NextTxn(q)' = n
    <3>1. q \in Nat /\ q <= nextResolution /\ nextResolution \in Nat
      BY <1>4, <2>3, PlaceTypes, SlotTypes
    <3>2. ~(q > nextResolution) BY <3>1
    <3> QED BY <1>1, <2>2, <3>2
  <2>6. FP(NextTxn(q))' = FP(n) BY <2>4, <2>5 DEF FP
  <2>7. NextTxn(q)' # 0 BY <2>1, <2>2, <2>5
  <2> QED BY <2>1, <2>2, <2>4, <2>6, <2>7 DEF Skipped
<1>7. ASSUME ChainInv PROVE ChainInv'
  <2>1. txnResolution # 0 => NextTxn(txnResolution)' = NextTxn(txnResolution)
    <3>1. txnResolution # 0 =>
            txnResolution \in Slots /\ txnResolution \in Nat /\ txnResolution <= nextResolution
      BY PlaceTypes DEF CursorInv, LinkInv
    <3>2. nextResolution \in Nat BY SlotTypes
    <3> QED BY <1>1, <3>1, <3>2 DEF NextTxn
  <2>2. ASSUME NEW r \in Places', Is(r)'
        PROVE  \/ r <= uncommittedResolution \/ r = txnResolution
               \/ txnResolution # 0 /\ r = NextTxn(txnResolution)
               \/ Skipped(FP(r))'
    <3>1. r \in Places /\ r \in Slots /\ Is(r) /\ FP(r)' = FP(r) BY <1>5, <2>2
    <3>2. Skipped(FP(r)) => Skipped(FP(r))' BY <1>7, <1>14, <3>1, SkippedKept
    <3> QED BY <1>7, <3>1, <3>2 DEF ChainInv
  <2>3. \A r \in Slots : NextTxn(r)' # 0 =>
          Is(r)' /\ (r <= uncommittedResolution \/ r = txnResolution)
    BY <1>1, <1>7 DEF ChainInv
  <2> QED BY <1>1, <2>1, <2>2, <2>3 DEF ChainInv
<1>8. ReadInv'
  <2>1. ASSUME NEW r \in 1..(unwrittenResolution - 1)
        PROVE  FAILED_CONDITION \in resolution'[r].flag <=> ~result'[FP(r)']
    <3>1. r \in Reserved /\ r < nextResolution
      <4>1. r \in Nat /\ 1 <= r /\ r < nextResolution
        <5>1. /\ unwrittenResolution \in Nat /\ nextResolution \in Nat
              /\ unwrittenResolution <= nextResolution
          BY SlotTypes
        <5> QED BY <5>1
      <4> QED BY <4>1, PlaceTypes
    <3>2. r \in Slots /\ FP(r)' = FP(r) BY <1>2, <3>1
    <3>3. resolution'[r].flag = resolution[r].flag BY <3>1, <3>2 DEF Grown
    <3>4. FAILED_CONDITION \in resolution[r].flag <=> ~result[FP(r)] BY DEF GroupInv, ListInv, ReadInv
    <3>5. result' = result BY <1>1 DEF SameHistory
    <3> QED BY <3>2, <3>3, <3>4, <3>5
  <2>2. call'.pc # "settle" BY DEF Grown
  <2> QED BY <1>1, <2>1, <2>2 DEF ReadInv
<1>9. AssignedTo /\ JoinInv /\ TxnInv BY DEF GroupInv, PromisesInv, HistoryInv
<1>10. AssignedTo'
  <2> SUFFICES ASSUME NEW q \in Slots, Promise(q)' # NoPromise PROVE q \in Reserved' /\ Published(q)'
    BY DEF AssignedTo
  <2>1. q \in Reserved /\ Published(q) BY <1>1, <1>9 DEF AssignedTo
  <2> QED BY <1>2, <2>1 DEF Published
<1>11. JoinInv'
  <2> SUFFICES ASSUME NEW q \in Slots, Shares(q)' PROVE \E c \in Reserved' : SharesWith(q, c)'
    BY DEF JoinInv
  <2>1. Shares(q) BY <1>1 DEF Shares
  <2>2. PICK c \in Reserved : SharesWith(q, c) BY <1>9, <2>1 DEF JoinInv
  <2>3. Promise(c)' = c /\ Promise(q)' = c BY <1>1, <1>2, <2>2 DEF SharesWith
  <2>4. \A x \in Reserved : /\ x \in Reserved' /\ FP(x)' = FP(x)
                            /\ Conditional(x)' <=> Conditional(x)
    BY <1>2
  <2>5. \A s \in Slots : s < position => /\ Inside(s) => Inside(s)'
                                         /\ OP \in word[s] => OP \in word'[s]
    BY <1>2
  <2>6. SharesWith(q, c)' BY <1>1, <1>3, <1>9, <2>2, <2>3, <2>4, <2>5, KeepShares
  <2> QED BY <1>2, <2>6
<1>12. ASSUME ChainInv, SettledInv PROVE SettledInv'
  <2>1. \A r \in Reserved : r \in Reserved' BY <1>2
  <2>2. ASSUME NEW r \in Slots
        PROVE  /\ Settled(r) = "pending" => Settled(r)' = "pending"
               /\ Settled(r) # "pending" => /\ Settled(r)' = Settled(r) /\ FP(r)' = FP(r)
                                            /\ Promise(r)' = Promise(r)
                                            /\ (Conditional(r)' <=> Conditional(r))
    <3>1. Settled(r) # "pending" => r \in Reserved BY <1>12 DEF SettledInv
    <3>2. r \in Reserved => ~(r > nextResolution)
      <4>1. r \in Reserved => r \in Nat /\ r < nextResolution BY ReservedTypes
      <4>2. nextResolution \in Nat BY SlotTypes
      <4> QED BY <4>1, <4>2
    <3>3. Promise(r)' = Promise(r) BY <1>1
    <3>4. Settled(r)' = Settled(r) \/ (r > nextResolution /\ Settled(r)' = "pending") BY <1>1
    <3> QED BY <1>2, <3>1, <3>2, <3>3, <3>4
  <2> QED BY <1>3, <1>9, <1>12, <1>14, <2>1, <2>2, KeepSettled
<1>13. ASSUME NEW x \in Slots, x < nextResolution, Holding(x) PROVE Holding(x)'
  <2> SUFFICES ASSUME NEW s \in Slots, Closed(s)', s > FP(x)' PROVE OP \notin word'[s]
    BY DEF Holding
  <2>1. FP(x)' = FP(x) BY <1>13 DEF Grown
  <2>2. Closed(s) BY <1>3 DEF Steady
  <2>3. OP \notin word[s] BY <1>13, <2>1, <2>2 DEF Holding
  <2> QED BY <2>2, <2>3 DEF Grown
<1> QED BY <1>3, <1>6, <1>7, <1>8, <1>10, <1>11, <1>12, <1>13 DEF ListInv, AnswerInv

-----------------------------------------------------------------------------
(* Ending a block. *)

LEMMA FinishGrown ==
    ASSUME IInv, CursorInv, GroupInv, IInv', NEW depth \in Nat, Len(blocks) > 0, FinishBatch(depth),
           UNCHANGED <<settleVars, startVars, worker, historyVars>>, call'.pc # "settle"
    PROVE  /\ Grown /\ Reserved' = Reserved /\ position' = position + 1
           /\ \E p \in Slots : p = position /\ OP \in word'[p] /\ Inside(p)'
<1>1. PICK p \in Slots, n \in Slots :
        p = position /\ n = nextResolution /\ p \in Nat /\ p + 1 \in Nat /\ p \in 1..MaxSlots
  <2>1. position \in Slots /\ position \in Nat /\ 1 <= position BY PositionTypes, SlotTypes
  <2>2. position + Len(blocks) <= MaxSlots + 1 BY DEF IInv, BatchInv
  <2>3. Len(blocks) \in Nat /\ MaxSlots \in Nat BY SlotTypes
  <2>4. position <= MaxSlots BY <2>1, <2>2, <2>3
  <2>5. position \in 1..MaxSlots BY <2>1, <2>3, <2>4
  <2> QED BY <2>1, <2>5, SlotTypes
<1>2. /\ instr' = [instr EXCEPT ![p] = [kind |-> "END", depth |-> depth, within |-> blocks]]
      /\ word' = [word EXCEPT ![p + 1] = {}, ![p] = IF depth = 0 THEN @ \cup {OP} ELSE {OP}]
      /\ position' = p + 1 /\ nextResolution' = n
  BY <1>1 DEF FinishBatch
<1>3. /\ instr \in [1..MaxSlots -> Instruction] /\ word \in [Slots -> SUBSET Bits]
  BY DEF IInv, TypeOK, TypeReserve, TypeWord
<1>4. instr'[p].within = blocks /\ \A s \in 1..MaxSlots : s # p => instr'[s] = instr[s]
  BY <1>1, <1>2, <1>3
<1>5. ASSUME NEW s \in Slots, s < position PROVE instr'[s] = instr[s]
  <2>1. s \in 1..MaxSlots /\ s # p
    <3>1. s \in Nat /\ 1 <= s BY SlotTypes
    <3>2. s < p /\ p <= MaxSlots /\ MaxSlots \in Nat BY <1>1, <1>5, SlotTypes
    <3> QED BY <1>1, <3>1, <3>2
  <2> QED BY <1>4, <2>1
<1>6. /\ OP \notin word[p] /\ \A s \in Slots : s = p + 1 => word[s] = {}
  <2>1. p >= position BY <1>1
  <2>2. \A s \in Slots : s = p + 1 => s > position BY <1>1
  <2> QED BY <1>1, <2>1, <2>2, Zenon DEF IInv, WordInv
<1>7. ~Closed(p)
  <2> SUFFICES ASSUME Closed(p) PROVE FALSE OBVIOUS
  <2>1. Nest(p) = 0 BY <1>6, ClosedOpen DEF GroupInv, HistoryInv
  <2>2. Nest(p) = Len(blocks) BY <1>1 DEF Nest
  <2>3. Len(blocks) # 0 BY SlotTypes
  <2> QED BY <2>1, <2>2, <2>3
<1>8. (word'[p] = {OP} \/ word'[p] = word[p] \cup {OP}) /\ \A s \in Slots : s # p => word'[s] = word[s]
  <2>1. p # p + 1 BY <1>1
  <2>2. [word EXCEPT ![p + 1] = {}][p] = word[p] BY <1>3, <2>1
  <2>3. word' = [word EXCEPT ![p + 1] = {}, ![p] = IF depth = 0 THEN word[p] \cup {OP} ELSE {OP}]
    BY <1>2, <2>2
  <2>4. word'[p] = IF depth = 0 THEN word[p] \cup {OP} ELSE {OP} BY <1>3, <2>3
  <2>5. ASSUME NEW s \in Slots, s # p PROVE word'[s] = word[s]
    <3>1. CASE s = p + 1
      <4>1. word'[s] = {} BY <1>3, <2>1, <2>3, <3>1
      <4> QED BY <1>6, <3>1, <4>1
    <3>2. CASE s # p + 1 BY <1>3, <2>3, <2>5, <3>2
    <3> QED BY <3>1, <3>2
  <2> QED BY <2>4, <2>5
<1>9. JsWords BY <1>6, <1>8 DEF JsWords
<1>10. \A s \in Slots : OP \in word'[s] => OP \in word[s] \/ ~Closed(s)
  <2> TAKE s \in Slots
  <2>1. CASE s = p BY <1>7, <2>1
  <2>2. CASE s # p BY <1>8, <2>2
  <2> QED BY <2>1, <2>2
<1>11. /\ \A q \in Slots : /\ Is(q)' = Is(q) /\ NextTxn(q)' = NextTxn(q)
                           /\ Promise(q)' = Promise(q) /\ Settled(q)' = Settled(q)
                           /\ resolution'[q].flag = resolution[q].flag
       /\ \A q \in Slots : q # n => FP(q)' = FP(q)
       /\ ~Is(n)
  BY <1>1, FinishedPlace DEF Promise, Settled
<1>12. /\ UNCHANGED <<txnResolution, unwrittenResolution, uncommittedResolution, worker>>
       /\ SameHistory
  BY DEF settleVars, historyVars, SameHistory
<1>13. position <= position' /\ nextResolution <= nextResolution'
  <2>1. n \in Nat BY SlotTypes
  <2> QED BY <1>1, <1>2, <2>1
<1>14. \A q \in Slots : q < nextResolution => q # n
  <2>1. \A q \in Slots : q \in Nat BY SlotTypes
  <2> QED BY <1>1, <2>1
<1>15. Grown
  <2>1. \A q \in Slots : q < nextResolution =>
          FP(q)' = FP(q) /\ resolution'[q].flag = resolution[q].flag
    BY <1>11, <1>14
  <2>2. \A q \in Slots : /\ Is(q)' = Is(q) /\ Promise(q)' = Promise(q)
                         /\ Is(q) => FP(q)' = FP(q)
                         /\ NextTxn(q)' = NextTxn(q) /\ Settled(q)' = Settled(q)
    BY <1>11
  <2> QED BY <1>5, <1>9, <1>10, <1>12, <1>13, <2>1, <2>2 DEF Grown
<1>16. Reserved' = Reserved BY <1>1, <1>2 DEF Reserved
<1>17. OP \in word'[p] BY <1>8
<1>18. Inside(p)'
  <2>1. p < position' BY <1>1, <1>2
  <2>2. Len(instr'[p].within) > 0 BY <1>4
  <2> QED BY <2>1, <2>2 DEF Inside, Nest
<1> QED BY <1>1, <1>2, <1>15, <1>16, <1>17, <1>18

\* The block that ends is the one whose start was deferred, which is published now, or
\* its start was published already.
LEMMA FinishCases ==
    ASSUME IInv, CursorInv, GroupInv, IInv', EndEventTurn \/ EndIfVersion
    PROVE  /\ Grown /\ Reserved' = Reserved /\ position' = position + 1
           /\ \E p \in Slots : p = position /\ OP \in word'[p] /\ Inside(p)'
           /\ UNCHANGED <<commitPromise, caller>> /\ caller.pc # "note"
           /\ ~Noting /\ ~Publishing /\ ~Noting'
           /\ \/ Deferred /\ ~Deferred' /\ Publishing' /\ call'.res = writeBatchStart
              \/ /\ Deferred' <=> Deferred
                 /\ Deferred => writeBatchStart' = writeBatchStart /\ blocks'[1] = blocks[1]
                 /\ ~Publishing'
<1>1. /\ call.pc = "idle" /\ Len(blocks) > 0 /\ batchDepth \in Nat /\ Len(blocks) \in Nat
      /\ UNCHANGED <<settleVars, startVars, worker, historyVars, caller, commitPromise>>
  <2>1. /\ call.pc = "idle" /\ Len(blocks) > 0 /\ batchDepth \in Nat
        /\ UNCHANGED <<settleVars, startVars, worker, historyVars, caller>>
    BY DEF EndEventTurn, EndIfVersion, EventLoopIdle, InUserBlock, IInv, TypeOK, TypeBatch, BatchInv
  <2>2. UNCHANGED commitPromise BY DEF EndEventTurn, EndIfVersion, promiseVars
  <2> QED BY <2>1, <2>2, SlotTypes
<1>2. PICK depth \in Nat : FinishBatch(depth)
  <2>1. CASE EndEventTurn
    BY <1>1, <2>1 DEF EndEventTurn, DepthAfterTurn, IInv, BatchInv
  <2>2. CASE EndIfVersion
    <3>1. batchDepth - 2 \in Nat
      BY <1>1, <2>2 DEF EndIfVersion, InUserBlock, IInv, BatchInv, TypeOK, TypeBatch
    <3> QED BY <1>1, <2>2, <3>1 DEF EndIfVersion
  <2> QED BY <2>1, <2>2
<1>3. Len(blocks') = Len(blocks) - 1 /\ \A i \in 1..Len(blocks') : blocks'[i] = blocks[i]
  BY <1>1, <1>2, FinishBatchInv
<1>4. caller.pc # "note" BY <1>1 DEF IInv, CallInv
<1>5. ~Noting /\ ~Publishing BY <1>1 DEF Noting, Publishing
<1>6. \A x \in 0..(MaxSlots + 1) : call' = WriteCall(x) => call'.pc = "publish" /\ call'.res = x
  BY WriteCallRecord
<1>7. Deferred => /\ writeBatchStart \in Reserved /\ ~Published(writeBatchStart)
                  /\ writeBatchStart = blocks[1] /\ writeBatchStart \in 0..(MaxSlots + 1)
  <2>1. writeBatchStart \in 0..(MaxSlots + 1) BY DEF IInv, TypeOK, TypeBatch
  <2> QED BY <2>1 DEF Deferred, IInv, DeferredInv, GroupInv, PromisesInv, DeferInv
<1>8. \/ Deferred /\ ~Deferred' /\ call'.pc = "publish" /\ call'.res = writeBatchStart
      \/ /\ Deferred' <=> Deferred
         /\ Deferred => writeBatchStart' = writeBatchStart /\ blocks'[1] = blocks[1]
         /\ call'.pc = "idle"
  <2>1. CASE EndEventTurn
    <3>1. enqueuedEventTurnBatch /\ ~(Len(blocks) > 1)
      BY <2>1 DEF EndEventTurn, EventLoopIdle, InUserBlock
    <3>2. ~Deferred'
      <4>1. ~(Len(blocks') > 0) BY <1>1, <1>3, <3>1
      <4> QED BY <4>1 DEF Deferred
    <3>3. CASE writeBatchStart # 0
      <4>1. call' = WriteCall(writeBatchStart) BY <2>1, <3>3 DEF EndEventTurn
      <4>2. Deferred BY <1>1, <3>3 DEF Deferred
      <4> QED BY <1>6, <1>7, <3>2, <4>1, <4>2
    <3>4. CASE writeBatchStart = 0
      <4>1. call' = call BY <2>1, <3>4 DEF EndEventTurn
      <4>2. ~Deferred BY <3>4 DEF Deferred
      <4> QED BY <1>1, <3>2, <4>1, <4>2
    <3> QED BY <3>3, <3>4
  <2>2. CASE EndIfVersion
    <3>1. PICK b \in Reserved : b = BlockResolution
      <4>1. Len(blocks) \in 1..Len(blocks) BY <1>1
      <4> QED BY <4>1 DEF IInv, BatchInv, BlockResolution
    <3>2. CASE Promise(b) = NoPromise
      <4>1. call' = WriteCall(b) /\ writeBatchStart' = 0
        BY <2>2, <3>1, <3>2 DEF EndIfVersion, Promise
      <4>2. ~Published(b)
        BY <1>1, <1>4, <3>2 DEF IInv, PromiseInv, Promise
      <4>3. FP(b) \in 1..(position - 1) BY DEF IInv, ResolutionInv
      <4>4. Deferred /\ FP(b) = FP(writeBatchStart)
        BY <1>5, <4>2, <4>3 DEF GroupInv, PromisesInv, UnpublishedInv, Published
      <4>5. b = writeBatchStart BY <1>7, <4>4 DEF IInv, ResolutionInv
      <4>6. ~Deferred' BY <4>1 DEF Deferred
      <4> QED BY <1>6, <1>7, <4>1, <4>4, <4>5, <4>6
    <3>3. CASE Promise(b) # NoPromise
      <4>1. call' = call /\ writeBatchStart' = writeBatchStart
        BY <2>2, <3>1, <3>3 DEF EndIfVersion, Promise
      <4>2. Published(b)
        <5>1. b \in Slots BY ReservedTypes
        <5> QED BY <3>3, <5>1 DEF GroupInv, PromisesInv, AssignedTo
      <4>3. Deferred => Len(blocks) # 1 BY <1>7, <3>1, <4>2 DEF BlockResolution
      <4>4. Deferred => Len(blocks') > 0 BY <1>1, <1>3, <4>3
      <4>5. Deferred => 1 \in 1..Len(blocks')
        <5>1. Len(blocks') \in Nat BY <1>1, <1>3
        <5> QED BY <4>4, <5>1
      <4>6. Deferred' <=> Deferred BY <1>1, <4>1, <4>4 DEF Deferred
      <4> QED BY <1>1, <1>3, <4>1, <4>5, <4>6
    <3> QED BY <3>2, <3>3
  <2> QED BY <2>1, <2>2
<1>9. call'.pc # "settle" /\ ~Noting' BY <1>8 DEF Noting
<1>10. call'.pc = "publish" => Publishing' BY DEF Publishing
<1>11. call'.pc = "idle" => ~Publishing' BY DEF Publishing
<1>12. /\ Grown /\ Reserved' = Reserved /\ position' = position + 1
       /\ \E p \in Slots : p = position /\ OP \in word'[p] /\ Inside(p)'
  BY <1>1, <1>2, <1>9, FinishGrown
<1> QED BY <1>1, <1>4, <1>5, <1>8, <1>9, <1>10, <1>11, <1>12

LEMMA FinishTruth ==
    ASSUME IInv, CursorInv, GroupInv, IInv', EndEventTurn \/ EndIfVersion
    PROVE  TruthKept
<1>1. /\ Grown /\ Reserved' = Reserved /\ position' = position + 1
      /\ \E p \in Slots : p = position /\ OP \in word'[p] /\ Inside(p)'
      /\ UNCHANGED <<commitPromise, caller>> /\ caller.pc # "note"
      /\ ~Noting /\ ~Publishing /\ ~Noting'
      /\ \/ Deferred /\ ~Deferred' /\ Publishing' /\ call'.res = writeBatchStart
         \/ /\ Deferred' <=> Deferred
            /\ Deferred => writeBatchStart' = writeBatchStart /\ blocks'[1] = blocks[1]
            /\ ~Publishing'
  BY FinishCases
<1>2. /\ HistoryInv' /\ ListInv' /\ AssignedTo' /\ JoinInv' /\ (AnswerInv => AnswerInv')
      /\ \A x \in Slots : x < nextResolution /\ Holding(x) => Holding(x)'
  BY <1>1, GrownTruth
<1>3. /\ \A q \in Reserved : /\ q \in Slots /\ FP(q)' = FP(q) /\ FP(q) \in Slots /\ FP(q) < position
                             /\ (Conditional(q)' <=> Conditional(q))
                             /\ instr'[FP(q)'] = instr[FP(q)]
      /\ \A s \in Slots : s < position => (Inside(s)' <=> Inside(s))
      /\ \A s \in Slots : OP \in word[s] => OP \in word'[s]
  BY <1>1, GrownPlaces
<1>4. PICK p \in Slots : p = position /\ OP \in word'[p] /\ Inside(p)' /\ p \in Nat
  BY <1>1, PositionTypes
<1>5. UnpublishedInv /\ DeferInv /\ NestedInv /\ SharedInv BY DEF GroupInv, PromisesInv
<1>6. Deferred => \E w \in Reserved : w = writeBatchStart /\ instr[FP(w)].depth = 0
  BY DEF Deferred, IInv, DeferredInv
<1>7. ASSUME NEW s \in Slots, s < position + 1 PROVE s = p \/ s < position
  <2>1. s \in Nat BY SlotTypes
  <2> QED BY <1>4, <1>7, <2>1
<1>8. ASSUME NEW s \in 1..(position' - 1) PROVE s \in Slots /\ (s = p \/ s \in 1..(position - 1))
  <2>1. s \in Nat /\ 1 <= s /\ s <= p BY <1>1, <1>4
  <2>2. s = p \/ s \in 1..(position - 1) BY <1>4, <2>1
  <2> QED BY <1>4, <2>2, PositionTypes
<1>9. ASSUME Deferred /\ ~Deferred' /\ Publishing' /\ call'.res = writeBatchStart
      PROVE  UnpublishedInv' /\ DeferInv' /\ NestedInv'
  <2>1. PICK w \in Reserved : w = writeBatchStart /\ instr[FP(w)].depth = 0 BY <1>6, <1>9
  <2>2. call'.res = w /\ FP(call.res)' = FP(w) /\ w \in Slots /\ FP(w) \in Slots
    BY <1>3, <1>9, <2>1 DEF FP
  <2>3. UnpublishedInv'
    <3> SUFFICES ASSUME NEW s \in 1..(position' - 1)
                 PROVE  OP \in word'[s] \/ s = FP(call.res)'
      BY <1>9 DEF UnpublishedInv
    <3>1. s \in 1..(position - 1) => OP \in word[s] \/ s = FP(w)
      BY <1>1, <2>1 DEF GroupInv, PromisesInv, UnpublishedInv
    <3> QED BY <1>3, <1>4, <1>8, <2>2, <3>1
  <2>4. DeferInv' BY <1>9 DEF DeferInv
  <2>5. Nested(call.res)'
    <3> SUFFICES ASSUME commitPromise > w
                 PROVE  /\ instr'[FP(call.res)'].depth = 0
                        /\ \A s \in Slots : FP(call.res)' < s /\ s <= FP(commitPromise)' => Inside(s)'
      BY <1>1, <2>2 DEF Nested
    <3>1. PICK c \in Reserved : c = commitPromise
      <4>1. w \in Nat /\ 1 <= w BY <2>2, SlotTypes
      <4>2. commitPromise # 0 BY <4>1
      <4> QED BY <1>5, <4>2 DEF SharedInv
    <3>2. FP(commitPromise)' = FP(c) /\ FP(c) < position /\ FP(c) \in Nat
      <4>1. FP(c)' = FP(c) /\ FP(c) < position /\ FP(c) \in Slots BY <1>3, <3>1
      <4>2. c = commitPromise' BY <1>1, <3>1
      <4> QED BY <4>1, <4>2, SlotTypes DEF FP
    <3>3. instr'[FP(call.res)'].depth = 0 BY <1>3, <2>1, <2>2
    <3>4. ASSUME NEW s \in Slots, FP(call.res)' < s, s <= FP(commitPromise)' PROVE Inside(s)'
      <4>1. s < position
        <5>1. s \in Nat BY SlotTypes
        <5> QED BY <1>4, <3>2, <3>4, <5>1
      <4>2. FP(w) < s BY <2>2, <3>4
      <4>3. Inside(s) BY <1>5, <1>9, <2>1, <4>1, <4>2 DEF DeferInv
      <4> QED BY <1>3, <4>1, <4>3
    <3> QED BY <3>3, <3>4
  <2>6. NestedInv' BY <1>1, <2>5 DEF NestedInv
  <2> QED BY <2>3, <2>4, <2>6
<1>10. ASSUME /\ Deferred' <=> Deferred
              /\ Deferred => writeBatchStart' = writeBatchStart /\ blocks'[1] = blocks[1]
              /\ ~Publishing'
       PROVE  UnpublishedInv' /\ DeferInv' /\ NestedInv'
  <2>1. ASSUME Deferred
        PROVE  \E w \in Reserved : /\ w = writeBatchStart /\ writeBatchStart' = w
                                   /\ FP(writeBatchStart)' = FP(w) /\ FP(w) \in Slots
    <3>1. PICK w \in Reserved : w = writeBatchStart BY <1>6, <2>1
    <3>2. writeBatchStart' = w BY <1>10, <2>1, <3>1
    <3>3. FP(w)' = FP(w) /\ FP(w) \in Slots BY <1>3
    <3>4. FP(writeBatchStart)' = FP(w) BY <3>2, <3>3 DEF FP
    <3> QED BY <3>1, <3>2, <3>3, <3>4
  <2>2. UnpublishedInv'
    <3> SUFFICES ASSUME NEW s \in 1..(position' - 1)
                 PROVE  OP \in word'[s] \/ (Deferred' /\ s = FP(writeBatchStart)')
      BY DEF UnpublishedInv
    <3>1. s \in 1..(position - 1) => OP \in word[s] \/ (Deferred /\ s = FP(writeBatchStart))
      BY <1>1 DEF GroupInv, PromisesInv, UnpublishedInv
    <3>2. CASE OP \in word[s] \/ s = p BY <1>3, <1>4, <1>8, <3>2
    <3>3. CASE Deferred /\ s = FP(writeBatchStart)
      <4>1. PICK w \in Reserved : w = writeBatchStart /\ FP(writeBatchStart)' = FP(w) BY <2>1, <3>3
      <4> QED BY <1>10, <3>3, <4>1
    <3> QED BY <1>8, <3>1, <3>2, <3>3
  <2>3. DeferInv'
    <3> SUFFICES ASSUME Deferred'
                 PROVE  /\ writeBatchStart' = blocks'[1]
                        /\ \A s \in Slots : FP(writeBatchStart)' < s /\ s < position' => Inside(s)'
                        /\ ~EventTurnBatching =>
                             \A r \in Reserved' : r > writeBatchStart' => instr'[FP(r)'].depth > 1
                        /\ EventTurnBatching /\ commitPromise' # 0 => commitPromise' >= writeBatchStart'
      BY <1>1, <1>10 DEF DeferInv
    <3>1. Deferred BY <1>10
    <3>2. PICK w \in Reserved : /\ w = writeBatchStart /\ writeBatchStart' = w
                                /\ FP(writeBatchStart)' = FP(w) /\ FP(w) \in Slots
      BY <2>1, <3>1
    <3>3. /\ writeBatchStart = blocks[1]
          /\ \A s \in Slots : FP(writeBatchStart) < s /\ s < position => Inside(s)
          /\ ~EventTurnBatching =>
               \A r \in Reserved : r > writeBatchStart => instr[FP(r)].depth > 1
          /\ EventTurnBatching /\ commitPromise # 0 => commitPromise >= writeBatchStart
      BY <1>5, <3>1 DEF DeferInv
    <3>4. ASSUME NEW s \in Slots, FP(writeBatchStart)' < s, s < position' PROVE Inside(s)'
      <4>1. s = p \/ s < position BY <1>1, <1>7, <3>4
      <4>2. FP(writeBatchStart) < s BY <3>2, <3>4
      <4> QED BY <1>3, <1>4, <3>3, <4>1, <4>2
    <3>5. writeBatchStart' = blocks'[1] BY <1>10, <3>1, <3>3
    <3>6. ~EventTurnBatching =>
            \A r \in Reserved' : r > writeBatchStart' => instr'[FP(r)'].depth > 1
      BY <1>1, <1>3, <3>2, <3>3
    <3>7. EventTurnBatching /\ commitPromise' # 0 => commitPromise' >= writeBatchStart'
      BY <1>1, <3>2, <3>3
    <3> QED BY <3>4, <3>5, <3>6, <3>7
  <2>4. NestedInv' BY <1>1, <1>10 DEF NestedInv
  <2> QED BY <2>2, <2>3, <2>4
<1>11. SharedInv'
  <2> SUFFICES ASSUME commitPromise # 0
               PROVE  /\ commitPromise \in Reserved' /\ Promise(commitPromise)' = commitPromise
                      /\ ~Conditional(commitPromise)' /\ Holding(commitPromise)'
    BY <1>1 DEF SharedInv
  <2>1. PICK c \in Reserved : c = commitPromise /\ Promise(c) = c /\ ~Conditional(c) /\ Holding(c)
    BY <1>5 DEF SharedInv
  <2>2. c \in Slots /\ c < nextResolution BY ReservedTypes
  <2>3. Promise(c)' = c /\ ~Conditional(c)' /\ Holding(c)'
    BY <1>1, <1>2, <1>3, <2>1, <2>2 DEF Grown
  <2>4. c = commitPromise' BY <1>1, <2>1
  <2> QED BY <1>1, <2>1, <2>3, <2>4 DEF Promise, Conditional, Holding, FP
<1>12. HoldInv' BY <1>1 DEF HoldInv
<1>13. UnpublishedInv' /\ DeferInv' /\ NestedInv' BY <1>1, <1>9, <1>10
<1> QED BY <1>2, <1>11, <1>12, <1>13 DEF GroupInv, TruthKept, PromisesInv

-----------------------------------------------------------------------------
(* Reservations. *)

LEMMA ReserveGrown ==
    ASSUME IInv, CursorInv, GroupInv, IInv', NEW kind \in Kinds, NEW opened \in Nat,
           WriteInstructions(kind, opened), call'.pc # "settle"
    PROVE  Grown
<1>1. InstrSlot + Len(Enclosing) + opened <= MaxSlots BY DEF WriteInstructions
<1>2. PICK n \in Slots, p \in Slots : n = nextResolution /\ p = position /\ n \in Nat /\ p \in Nat
  <2>1. position \in Slots /\ nextResolution \in Slots BY DEF IInv, TypeOK, TypeReserve
  <2> QED BY <2>1, SlotTypes
<1>3. /\ UNCHANGED <<word, txnResolution, unwrittenResolution, uncommittedResolution, worker>>
      /\ SameHistory
  BY DEF WriteInstructions, settleVars, historyVars, SameHistory
<1>4. position <= position' /\ nextResolution <= nextResolution'
  <2>1. /\ position' = InstrSlot + 1 /\ nextResolution' = InstrRes + 1 BY ReservedRecords
  <2>2. \/ InstrSlot = position + 1 /\ InstrRes = nextResolution + 1
        \/ InstrSlot = position /\ InstrRes = nextResolution
    BY <1>1, ReservedPlace
  <2> QED BY <1>2, <2>1, <2>2
<1>5. ASSUME NEW s \in Slots, s < position PROVE instr'[s] = instr[s]
  <2>1. s \in 1..MaxSlots
    <3>1. s \in Nat /\ 1 <= s /\ p <= MaxSlots + 1 /\ MaxSlots \in Nat BY SlotTypes
    <3> QED BY <1>2, <1>5, <3>1
  <2> QED BY <1>5, <2>1, ReservedRecords
<1>6. ASSUME NEW q \in Slots
      PROVE  /\ (Is(q)' <=> Is(q)) /\ Promise(q)' = Promise(q)
             /\ Is(q) => FP(q)' = FP(q)
             /\ \/ NextTxn(q)' = NextTxn(q) /\ Settled(q)' = Settled(q)
                \/ q > nextResolution /\ NextTxn(q)' = 0 /\ Settled(q)' = "pending"
             /\ q < nextResolution => FP(q)' = FP(q) /\ resolution'[q].flag = resolution[q].flag
  <2>1. q \in Nat BY SlotTypes
  <2>2. CASE q <= nextResolution
    <3>1. /\ FP(q)' = FP(q) /\ Is(q)' = Is(q) /\ NextTxn(q)' = NextTxn(q)
          /\ resolution'[q].promise = resolution[q].promise
          /\ resolution'[q].settled = resolution[q].settled
          /\ resolution'[q].flag = resolution[q].flag
      BY <2>2, ReservedKeep
    <3> QED BY <3>1 DEF Promise, Settled
  <2>3. CASE q > nextResolution
    <3>1. \A r \in Slots : Is(r) => r \in Places BY DEF CursorInv, LinkInv
    <3>2. \A r \in Places : r \in Nat /\ r <= nextResolution BY PlaceTypes
    <3>3. ~Is(q) BY <1>2, <2>1, <2>3, <3>1, <3>2
    <3>5. q \notin Reserved
      <4>1. \A r \in Reserved : r \in Nat /\ r < nextResolution BY ReservedTypes
      <4> QED BY <1>2, <2>1, <2>3, <4>1
    <3>6. Promise(q) = NoPromise BY <3>5 DEF GroupInv, PromisesInv, AssignedTo
    <3>7. \/ /\ ~Is(q)' /\ NextTxn(q)' = 0
             /\ resolution'[q].promise = NoPromise /\ resolution'[q].settled = "pending"
          \/ resolution'[q] = resolution[q]
      BY <2>3, ReservedKeep
    <3>8. ~(q < nextResolution) BY <1>2, <2>1, <2>3
    <3> QED BY <2>3, <3>3, <3>6, <3>7, <3>8 DEF Is, NextTxn, Promise, Settled
  <2> QED BY <1>2, <2>1, <2>2, <2>3
<1>7. JsWords /\ \A s \in Slots : OP \in word'[s] => OP \in word[s] \/ ~Closed(s)
  BY <1>3 DEF JsWords
<1> QED BY <1>3, <1>4, <1>5, <1>6, <1>7 DEF Grown

\* The first write of an event turn, another write, and a block whose start is deferred.
TurnOpened(n, p) ==
    /\ EventTurnBatching /\ ~Deferred /\ position' = p + 2 /\ nextResolution' = n + 2
    /\ commitPromise' = 0 /\ writeBatchStart' = n /\ blocks'[1] = n /\ Len(blocks') > 0
    /\ Publishing' /\ call'.res = n + 1 /\ FP(n)' = p
    /\ n + 1 \in Slots /\ FP(n + 1)' = p + 1 /\ Inside(p + 1)'
WriteAdded(n, p) ==
    /\ position' = p + 1 /\ nextResolution' = n + 1 /\ UNCHANGED commitPromise
    /\ Publishing' /\ call'.res = n /\ FP(n)' = p
    /\ Deferred' <=> Deferred
    /\ Deferred => /\ writeBatchStart' = writeBatchStart /\ blocks'[1] = blocks[1] /\ Inside(p)'
                   /\ ~EventTurnBatching => instr'[p].depth > 1
BlockOpened(n, p) ==
    /\ ~EventTurnBatching /\ ~Deferred /\ position' = p + 1 /\ nextResolution' = n + 1
    /\ UNCHANGED commitPromise /\ writeBatchStart' = n /\ blocks'[1] = n /\ Len(blocks') > 0
    /\ ~Publishing' /\ FP(n)' = p

LEMMA ReserveCases ==
    ASSUME IInv, CursorInv, GroupInv, IInv', NEW kind \in Operations, Write(kind) \/ IfVersion(kind)
    PROVE  /\ Grown /\ UNCHANGED caller /\ caller.pc # "note" /\ ~Noting /\ ~Publishing /\ ~Noting'
           /\ \E n, p \in Slots :
                /\ n = nextResolution /\ p = position /\ n \in Nat /\ p \in Nat
                /\ TurnOpened(n, p) \/ WriteAdded(n, p) \/ BlockOpened(n, p)
<1>1. PICK opened \in {0, 1} : /\ kind \in Kinds /\ WriteInstructions(kind, opened)
                               /\ IfVersion(kind) => opened = 1
  BY DEF Write, IfVersion, Kinds
<1>2. opened \in Nat BY <1>1
<1>3. /\ InstrSlot + Len(Enclosing) + opened <= MaxSlots /\ call.pc = "idle" /\ UNCHANGED caller
      /\ commitPromise' = CommitPromiseInTurn
  BY <1>1 DEF WriteInstructions
<1>4. caller.pc # "note" /\ ~Noting /\ ~Publishing BY <1>3 DEF IInv, CallInv, Noting, Publishing
<1>5. PICK n \in Slots, p \in Slots : n = nextResolution /\ p = position /\ n \in Nat /\ p \in Nat
  <2>1. position \in Slots /\ nextResolution \in Slots BY DEF IInv, TypeOK, TypeReserve
  <2> QED BY <2>1, SlotTypes
<1>6. /\ Enclosing \in Seq(Slots) /\ Len(Enclosing) \in Nat /\ TurnDepth \in Nat
      /\ (TurnDepth = 0 <=> Len(Enclosing) = 0)
      /\ \/ /\ OpensTurn /\ EventTurnBatching /\ Len(blocks) = 0 /\ TurnDepth = 1
            /\ InstrSlot = p + 1 /\ InstrRes = n + 1
            /\ Enclosing = <<n>> /\ Len(Enclosing) = 1
         \/ /\ ~OpensTurn /\ InstrSlot = p /\ InstrRes = n
            /\ Enclosing = blocks /\ TurnDepth = batchDepth
      /\ InstrRes \in 1..MaxSlots
  BY <1>2, <1>3, <1>5, ReservedPlace
<1>7. /\ position' = InstrSlot + 1 /\ nextResolution' = InstrRes + 1
      /\ instr'[InstrSlot].depth = TurnDepth /\ instr'[InstrSlot].within = Enclosing
      /\ FP(n)' = p /\ resolution'[InstrRes].flagPosition = InstrSlot
  BY <1>1, <1>2, <1>5, ReservedRecords DEF FP
<1>8. call' = WriteCall(InstrRes) \/ call' = call BY DEF Write, IfVersion
<1>9. InstrRes \in 0..(MaxSlots + 1) /\ InstrRes \in Slots
  <2>1. \A i \in 1..MaxSlots : i \in 0..(MaxSlots + 1) /\ i \in Slots BY SlotTypes
  <2> QED BY <1>6, <2>1
<1>10. call' = WriteCall(InstrRes) => call'.pc = "publish" /\ call'.res = InstrRes
  BY <1>9, WriteCallRecord
<1>11. call'.pc # "settle" /\ ~Noting' BY <1>3, <1>8, <1>10 DEF Noting
<1>12. Grown BY <1>1, <1>2, <1>11, ReserveGrown
<1>13. call' = WriteCall(InstrRes) => Publishing' /\ call'.res = InstrRes BY <1>10 DEF Publishing
<1>14. call' = call => ~Publishing' BY <1>3 DEF Publishing
<1>15. blocks' = Enclosing \/ blocks' = Append(Enclosing, InstrRes) BY DEF Write, IfVersion
<1>16. /\ Len(Enclosing) > 0 => blocks'[1] = Enclosing[1] /\ Len(blocks') > 0
       /\ IfVersion(kind) => Len(blocks') > 0
  <2>1. CASE blocks' = Enclosing
    <3>1. ~IfVersion(kind) \/ Len(blocks') > 0
      <4> SUFFICES ASSUME IfVersion(kind) PROVE Len(blocks') > 0 OBVIOUS
      <4>1. blocks' = Append(Enclosing, InstrRes) BY DEF IfVersion
      <4> QED BY <1>6, <1>9, <4>1
    <3> QED BY <2>1, <3>1
  <2>2. CASE blocks' = Append(Enclosing, InstrRes)
    <3>1. Len(blocks') = Len(Enclosing) + 1 BY <1>6, <1>9, <2>2
    <3>2. \A i \in 1..Len(Enclosing) : blocks'[i] = Enclosing[i] BY <1>6, <1>9, <2>2
    <3>3. Len(Enclosing) > 0 => 1 \in 1..Len(Enclosing) BY <1>6
    <3> QED BY <1>6, <3>1, <3>2, <3>3
  <2> QED BY <1>15, <2>1, <2>2
<1>17. CASE OpensTurn
  <2>1. /\ EventTurnBatching /\ Len(blocks) = 0 /\ TurnDepth = 1 /\ InstrSlot = p + 1
        /\ InstrRes = n + 1 /\ Enclosing = <<n>> /\ Len(Enclosing) = 1
    BY <1>6, <1>17
  <2>2. ~Deferred BY <2>1 DEF Deferred
  <2>3. call' = WriteCall(InstrRes) /\ writeBatchStart' = n
    <3>1. CASE Write(kind) BY <1>5, <1>17, <3>1 DEF Write
    <3>2. CASE IfVersion(kind)
      <4>1. TurnDepth + 2 > 2 BY <2>1
      <4> QED BY <1>5, <1>17, <3>2, <4>1 DEF IfVersion
    <3> QED BY <3>1, <3>2
  <2>4. commitPromise' = 0 BY <1>3, <1>17 DEF CommitPromiseInTurn
  <2>5. blocks'[1] = n /\ Len(blocks') > 0 BY <1>16, <2>1
  <2>6. /\ position' = p + 2 /\ nextResolution' = n + 2
    BY <1>5, <1>7, <2>1
  <2>7. n + 1 \in Slots /\ FP(n + 1)' = p + 1 BY <1>7, <1>9, <2>1 DEF FP
  <2>8. Inside(p + 1)'
    <3>1. p + 1 < position' BY <1>5, <2>6
    <3>2. instr'[InstrSlot].within = Enclosing BY <1>7
    <3>3. InstrSlot = p + 1 /\ Len(Enclosing) > 0 BY <2>1
    <3>4. Len(instr'[p + 1].within) > 0 BY <3>2, <3>3
    <3> QED BY <3>1, <3>4 DEF Inside, Nest
  <2>9. TurnOpened(n, p)
    BY <1>7, <1>13, <2>1, <2>2, <2>3, <2>4, <2>5, <2>6, <2>7, <2>8 DEF TurnOpened
  <2> QED BY <1>3, <1>4, <1>5, <1>11, <1>12, <2>9
<1>18. CASE ~OpensTurn
  <2>1. /\ InstrSlot = p /\ InstrRes = n /\ Enclosing = blocks /\ TurnDepth = batchDepth
        /\ position' = p + 1 /\ nextResolution' = n + 1
    BY <1>6, <1>7, <1>18
  <2>2. UNCHANGED commitPromise BY <1>3, <1>18 DEF CommitPromiseInTurn
  <2>3. ASSUME Write(kind) \/ TurnDepth # 0 PROVE WriteAdded(n, p)
    <3>1. /\ call' = WriteCall(InstrRes) /\ writeBatchStart' = writeBatchStart
          /\ Len(blocks') > 0 <=> Len(blocks) > 0
      <4>1. CASE Write(kind)
        <5>1. blocks' = blocks BY <2>1, <4>1 DEF Write
        <5> QED BY <1>18, <4>1, <5>1 DEF Write
      <4>2. CASE IfVersion(kind) /\ TurnDepth # 0
        <5>1. TurnDepth + 2 > 2 BY <1>6, <4>2
        <5>2. Len(blocks) > 0 BY <1>6, <2>1, <4>2
        <5>3. Len(blocks') > 0 BY <1>16, <4>2
        <5> QED BY <1>18, <4>2, <5>1, <5>2, <5>3 DEF IfVersion
      <4> QED BY <2>3, <4>1, <4>2
    <3>2. Deferred' <=> Deferred BY <3>1 DEF Deferred
    <3>3. ASSUME Deferred
          PROVE  blocks'[1] = blocks[1] /\ Inside(p)' /\ (~EventTurnBatching => instr'[p].depth > 1)
      <4>1. Len(blocks) > 0 BY <3>3 DEF Deferred
      <4>2. blocks'[1] = blocks[1] BY <1>16, <2>1, <4>1
      <4>3. p < position' BY <1>5, <2>1
      <4>4. Len(instr'[p].within) > 0 BY <1>7, <2>1, <4>1
      <4>5. ~EventTurnBatching => batchDepth = 2 * Len(blocks)
        <5>1. batchDepth = 2 * Len(blocks) - IF enqueuedEventTurnBatch THEN 1 ELSE 0
          BY DEF IInv, BatchInv
        <5>2. ~EventTurnBatching => ~enqueuedEventTurnBatch BY DEF IInv, BatchInv
        <5> QED BY <1>6, <2>1, <5>1, <5>2
      <4>6. ~EventTurnBatching => instr'[p].depth > 1
        <5>1. instr'[p].depth = batchDepth BY <1>7, <2>1
        <5>2. Len(blocks) \in Nat BY <1>6, <2>1
        <5> QED BY <4>1, <4>5, <5>1, <5>2
      <4> QED BY <4>2, <4>3, <4>4, <4>6 DEF Inside, Nest
    <3>4. Publishing' /\ call'.res = n BY <1>13, <2>1, <3>1
    <3>5. FP(n)' = p BY <1>7
    <3> QED BY <2>1, <2>2, <3>1, <3>2, <3>3, <3>4, <3>5 DEF WriteAdded
  <2>4. ASSUME IfVersion(kind), TurnDepth = 0 PROVE BlockOpened(n, p)
    <3>1. Len(blocks) = 0 BY <1>6, <2>1, <2>4
    <3>2. ~Deferred BY <3>1 DEF Deferred
    <3>3. ~EventTurnBatching
      <4>1. ~enqueuedEventTurnBatch
        <5>1. enqueuedEventTurnBatch => Len(blocks) > 0 BY DEF IInv, BatchInv
        <5> QED BY <3>1, <5>1
      <4>2. batchDepth = 0 BY <2>1, <2>4
      <4> QED BY <1>18, <4>1, <4>2 DEF OpensTurn
    <3>4. call' = call /\ writeBatchStart' = n
      <4>1. ~(TurnDepth + 2 > 2) BY <2>4
      <4> QED BY <2>1, <2>4, <4>1 DEF IfVersion
    <3>5. blocks'[1] = n /\ Len(blocks') > 0
      <4>1. blocks' = Append(Enclosing, n) BY <2>1, <2>4 DEF IfVersion
      <4>2. Len(Enclosing) = 0 BY <2>1, <3>1
      <4> QED BY <1>5, <1>6, <4>1, <4>2
    <3>6. FP(n)' = p BY <1>7
    <3> QED BY <1>14, <2>1, <2>2, <3>2, <3>3, <3>4, <3>5, <3>6 DEF BlockOpened
  <2>5. TurnOpened(n, p) \/ WriteAdded(n, p) \/ BlockOpened(n, p) BY <2>3, <2>4
  <2> QED BY <1>3, <1>4, <1>5, <1>11, <1>12, <2>5
<1> QED BY <1>17, <1>18

\* The shared promise of the turn is kept, or reset.
LEMMA GrownShared ==
    ASSUME IInv, GroupInv, IInv', Grown, commitPromise' = 0 \/ UNCHANGED commitPromise,
           \A x \in Slots : x < nextResolution /\ Holding(x) => Holding(x)'
    PROVE  SharedInv'
<1> SUFFICES ASSUME commitPromise' # 0
             PROVE  /\ commitPromise' \in Reserved' /\ Promise(commitPromise)' = commitPromise'
                    /\ ~Conditional(commitPromise)' /\ Holding(commitPromise)'
  BY DEF SharedInv
<1>1. SharedInv /\ commitPromise' = commitPromise BY DEF GroupInv, PromisesInv
<1>2. PICK c \in Reserved : c = commitPromise /\ Promise(c) = c /\ ~Conditional(c) /\ Holding(c)
  BY <1>1 DEF SharedInv
<1>3. c \in Slots /\ c < nextResolution BY ReservedTypes
<1>4. Promise(c)' = c /\ ~Conditional(c)' /\ Holding(c)' /\ c \in Reserved'
  BY <1>2, <1>3, GrownPlaces DEF Grown
<1>5. c = commitPromise' BY <1>1, <1>2
<1> QED BY <1>4, <1>5 DEF Promise, Conditional, Holding, FP

LEMMA ReserveTruth ==
    ASSUME IInv, CursorInv, GroupInv, IInv', NEW kind \in Operations, Write(kind) \/ IfVersion(kind)
    PROVE  TruthKept
<1>1. /\ Grown /\ UNCHANGED caller /\ caller.pc # "note" /\ ~Noting /\ ~Publishing /\ ~Noting'
      /\ \E n, p \in Slots :
           /\ n = nextResolution /\ p = position /\ n \in Nat /\ p \in Nat
           /\ TurnOpened(n, p) \/ WriteAdded(n, p) \/ BlockOpened(n, p)
  BY ReserveCases
<1>2. PICK n \in Slots, p \in Slots :
        /\ n = nextResolution /\ p = position /\ n \in Nat /\ p \in Nat
        /\ TurnOpened(n, p) \/ WriteAdded(n, p) \/ BlockOpened(n, p)
  BY <1>1
<1>3. /\ HistoryInv' /\ ListInv' /\ AssignedTo' /\ JoinInv' /\ (AnswerInv => AnswerInv')
      /\ \A x \in Slots : x < nextResolution /\ Holding(x) => Holding(x)'
  BY <1>1, GrownTruth
<1>4. /\ \A q \in Reserved : /\ q \in Slots /\ FP(q)' = FP(q) /\ FP(q) \in Slots /\ FP(q) < position
                             /\ instr'[FP(q)'] = instr[FP(q)]
      /\ \A s \in Slots : s < position => (Inside(s)' <=> Inside(s))
      /\ \A s \in Slots : OP \in word[s] => OP \in word'[s]
  BY <1>1, GrownPlaces
<1>5. UnpublishedInv /\ DeferInv /\ NestedInv BY DEF GroupInv, PromisesInv
<1>6. SharedInv'
  <2>1. commitPromise' = 0 \/ UNCHANGED commitPromise
    BY <1>2 DEF TurnOpened, WriteAdded, BlockOpened
  <2> QED BY <1>1, <1>3, <2>1, GrownShared
<1>7. HoldInv' BY <1>1 DEF HoldInv
<1>8. commitPromise # 0 => commitPromise < n
  <2>1. commitPromise # 0 => commitPromise \in Reserved BY DEF GroupInv, PromisesInv, SharedInv
  <2> QED BY <1>2, <2>1, ReservedTypes
<1>9. ASSUME ~Deferred, NEW s \in 1..(position - 1) PROVE OP \in word'[s]
  <2>1. s \in Slots /\ OP \in word[s] BY <1>1, <1>5, <1>9, PositionTypes DEF UnpublishedInv
  <2> QED BY <1>4, <2>1
<1>10. n # 0 BY <1>2, SlotTypes
<1>11. ASSUME TurnOpened(n, p) PROVE UnpublishedInv' /\ DeferInv' /\ NestedInv'
  <2>1. /\ EventTurnBatching /\ ~Deferred /\ position' = p + 2
        /\ commitPromise' = 0 /\ writeBatchStart' = n /\ blocks'[1] = n
        /\ Publishing' /\ call'.res = n + 1 /\ FP(n)' = p
        /\ n + 1 \in Slots /\ FP(n + 1)' = p + 1 /\ Inside(p + 1)'
    BY <1>11 DEF TurnOpened
  <2>2. FP(writeBatchStart)' = p /\ FP(call.res)' = p + 1 BY <2>1 DEF FP
  <2>3. UnpublishedInv'
    <3> SUFFICES ASSUME NEW s \in 1..(position' - 1)
                 PROVE  \/ OP \in word'[s] \/ s = FP(call.res)'
                        \/ Deferred' /\ s = FP(writeBatchStart)'
      BY <2>1 DEF UnpublishedInv
    <3>1. s \in 1..(position - 1) \/ s = p \/ s = p + 1 BY <1>2, <2>1
    <3>2. Deferred'
      <4>1. writeBatchStart' # 0 BY <1>10, <2>1
      <4>2. Len(blocks') > 0 BY <1>11, <2>1 DEF TurnOpened
      <4> QED BY <4>1, <4>2 DEF Deferred
    <3> QED BY <1>9, <2>1, <2>2, <3>1, <3>2
  <2>4. DeferInv'
    <3>1. ASSUME NEW s \in Slots, FP(writeBatchStart)' < s, s < position' PROVE Inside(s)'
      <4>1. s \in Nat BY SlotTypes
      <4>2. s = p + 1 BY <1>2, <2>1, <2>2, <3>1, <4>1
      <4> QED BY <2>1, <4>2
    <3>2. writeBatchStart' < call'.res BY <1>2, <2>1
    <3> QED BY <2>1, <3>1, <3>2 DEF DeferInv
  <2>5. NestedInv'
    <3>1. ~(commitPromise' > call'.res) BY <1>2, <2>1
    <3>2. Nested(call.res)' BY <3>1 DEF Nested
    <3> QED BY <1>1, <3>2 DEF NestedInv
  <2> QED BY <2>3, <2>4, <2>5
<1>12. ASSUME WriteAdded(n, p) PROVE UnpublishedInv' /\ DeferInv' /\ NestedInv'
  <2>1. /\ position' = p + 1 /\ nextResolution' = n + 1 /\ UNCHANGED commitPromise
        /\ Publishing' /\ call'.res = n /\ FP(n)' = p
        /\ Deferred' <=> Deferred
        /\ Deferred => /\ writeBatchStart' = writeBatchStart /\ blocks'[1] = blocks[1] /\ Inside(p)'
                       /\ ~EventTurnBatching => instr'[p].depth > 1
    BY <1>12 DEF WriteAdded
  <2>2. FP(call.res)' = p BY <2>1 DEF FP
  <2>3. ASSUME Deferred
        PROVE  \E w \in Reserved : /\ w = writeBatchStart /\ writeBatchStart' = w
                                   /\ FP(writeBatchStart)' = FP(w) /\ FP(w) \in Slots
    <3>1. PICK w \in Reserved : w = writeBatchStart BY <2>3 DEF Deferred, IInv, DeferredInv
    <3>2. writeBatchStart' = w BY <2>1, <2>3, <3>1
    <3>3. FP(w)' = FP(w) /\ FP(w) \in Slots BY <1>4
    <3>4. FP(writeBatchStart)' = FP(w) BY <3>2, <3>3 DEF FP
    <3> QED BY <3>1, <3>2, <3>3, <3>4
  <2>4. UnpublishedInv'
    <3> SUFFICES ASSUME NEW s \in 1..(position' - 1)
                 PROVE  \/ OP \in word'[s] \/ s = FP(call.res)'
                        \/ Deferred' /\ s = FP(writeBatchStart)'
      BY <2>1 DEF UnpublishedInv
    <3>1. s \in 1..(position - 1) \/ s = p BY <1>2, <2>1
    <3>2. CASE s = p BY <2>2, <3>2
    <3>3. CASE s \in 1..(position - 1)
      <4>1. s \in Slots BY <3>3, PositionTypes
      <4>2. OP \in word[s] \/ (Deferred /\ s = FP(writeBatchStart))
        BY <1>1, <1>5, <3>3 DEF UnpublishedInv
      <4> QED BY <1>4, <2>1, <2>3, <4>1, <4>2
    <3> QED BY <3>1, <3>2, <3>3
  <2>5. DeferInv'
    <3> SUFFICES ASSUME Deferred'
                 PROVE  /\ writeBatchStart' = blocks'[1]
                        /\ \A s \in Slots : FP(writeBatchStart)' < s /\ s < position' => Inside(s)'
                        /\ ~EventTurnBatching =>
                             \A r \in Reserved' : r > writeBatchStart' => instr'[FP(r)'].depth > 1
                        /\ EventTurnBatching /\ commitPromise' # 0 => commitPromise' >= writeBatchStart'
                        /\ writeBatchStart' < call'.res
      BY DEF DeferInv
    <3>1. Deferred BY <2>1
    <3>2. PICK w \in Reserved : /\ w = writeBatchStart /\ writeBatchStart' = w
                                /\ FP(writeBatchStart)' = FP(w) /\ FP(w) \in Slots
      BY <2>3, <3>1
    <3>3. /\ writeBatchStart = blocks[1]
          /\ \A s \in Slots : FP(writeBatchStart) < s /\ s < position => Inside(s)
          /\ ~EventTurnBatching =>
               \A r \in Reserved : r > writeBatchStart => instr[FP(r)].depth > 1
          /\ EventTurnBatching /\ commitPromise # 0 => commitPromise >= writeBatchStart
      BY <1>5, <3>1 DEF DeferInv
    <3>4. ASSUME NEW s \in Slots, FP(writeBatchStart)' < s, s < position' PROVE Inside(s)'
      <4>1. s \in Nat BY SlotTypes
      <4>2. s = p \/ s < position BY <1>2, <2>1, <3>4, <4>1
      <4>3. FP(writeBatchStart) < s BY <3>2, <3>4
      <4> QED BY <1>4, <2>1, <3>1, <3>3, <4>2, <4>3
    <3>5. writeBatchStart' = blocks'[1] BY <2>1, <3>1, <3>3
    <3>6. ASSUME ~EventTurnBatching, NEW r \in Reserved', r > writeBatchStart'
          PROVE  instr'[FP(r)'].depth > 1
      <4>1. r \in Reserved \/ r = n
        <5>1. r \in 1..(nextResolution' - 1) BY <3>6 DEF Reserved
        <5>2. r \in 1..n BY <1>2, <2>1, <5>1
        <5>3. r \in 1..(nextResolution - 1) \/ r = n BY <1>2, <5>2
        <5> QED BY <5>3 DEF Reserved
      <4>2. CASE r \in Reserved BY <1>4, <3>2, <3>3, <3>6, <4>2
      <4>3. CASE r = n
        <5>1. FP(r)' = p BY <2>1, <4>3 DEF FP
        <5> QED BY <2>1, <3>1, <3>6, <5>1
      <4> QED BY <4>1, <4>2, <4>3
    <3>7. EventTurnBatching /\ commitPromise' # 0 => commitPromise' >= writeBatchStart'
      BY <2>1, <3>2, <3>3
    <3>8. writeBatchStart' < call'.res
      <4>1. w < n BY <1>2, ReservedTypes
      <4> QED BY <2>1, <3>2, <4>1
    <3> QED BY <3>4, <3>5, <3>6, <3>7, <3>8
  <2>6. NestedInv'
    <3>1. ~(commitPromise' > call'.res)
      <4>1. commitPromise = 0 \/ commitPromise < n BY <1>8
      <4>2. commitPromise \in Nat
        <5>1. commitPromise \in 0..(MaxSlots + 1) BY DEF IInv, TypeOK, TypeStart
        <5> QED BY <5>1
      <4> QED BY <1>2, <2>1, <4>1, <4>2
    <3>2. Nested(call.res)' BY <3>1 DEF Nested
    <3> QED BY <1>1, <3>2 DEF NestedInv
  <2> QED BY <2>4, <2>5, <2>6
<1>13. ASSUME BlockOpened(n, p) PROVE UnpublishedInv' /\ DeferInv' /\ NestedInv'
  <2>1. /\ ~EventTurnBatching /\ ~Deferred /\ position' = p + 1 /\ nextResolution' = n + 1
        /\ writeBatchStart' = n /\ blocks'[1] = n /\ ~Publishing' /\ FP(n)' = p
    BY <1>13 DEF BlockOpened
  <2>2. FP(writeBatchStart)' = p BY <2>1 DEF FP
  <2>3. UnpublishedInv'
    <3> SUFFICES ASSUME NEW s \in 1..(position' - 1)
                 PROVE  OP \in word'[s] \/ (Deferred' /\ s = FP(writeBatchStart)')
      BY DEF UnpublishedInv
    <3>1. s \in 1..(position - 1) \/ s = p BY <1>2, <2>1
    <3>2. Deferred'
      <4>1. writeBatchStart' # 0 BY <1>10, <2>1
      <4>2. Len(blocks') > 0 BY <1>13 DEF BlockOpened
      <4> QED BY <4>1, <4>2 DEF Deferred
    <3> QED BY <1>9, <2>1, <2>2, <3>1, <3>2
  <2>4. DeferInv'
    <3>1. ASSUME NEW s \in Slots, FP(writeBatchStart)' < s, s < position' PROVE Inside(s)'
      <4>1. s \in Nat BY SlotTypes
      <4> QED BY <1>2, <2>1, <2>2, <3>1, <4>1
    <3>2. ASSUME NEW r \in Reserved', r > writeBatchStart' PROVE FALSE
      <4>1. r \in 1..(nextResolution' - 1) BY <3>2 DEF Reserved
      <4>2. r \in 1..n BY <1>2, <2>1, <4>1
      <4> QED BY <1>2, <2>1, <3>2, <4>2
    <3> QED BY <1>1, <2>1, <3>1, <3>2 DEF DeferInv
  <2>5. NestedInv' BY <1>1, <2>1 DEF NestedInv
  <2> QED BY <2>3, <2>4, <2>5
<1>14. UnpublishedInv' /\ DeferInv' /\ NestedInv' BY <1>2, <1>11, <1>12, <1>13
<1> QED BY <1>3, <1>6, <1>7, <1>14 DEF GroupInv, TruthKept, PromisesInv

-----------------------------------------------------------------------------
(* The invariant holds initially, and every step keeps it. *)

LEMMA InitTruth == Init => TruthInv
<1> SUFFICES ASSUME Init PROVE TruthInv OBVIOUS
<1>1. /\ position = 1 /\ log = <<>> /\ blocks = <<>> /\ call = Idle /\ caller = Idle /\ worker = <<>>
      /\ unwrittenResolution = 1 /\ commitPromise = 0
      /\ \A s \in Slots : word[s] = IF s = 1 THEN {TXN_DELIMITER, TXN_COMMITTED} ELSE {}
  BY DEF Init
<1>2. Len(log) = 0 /\ Len(blocks) = 0 /\ Len(worker) = 0 /\ DOMAIN worker = {} BY <1>1
<1>3. \A r \in Slots : ~Is(r) /\ NextTxn(r) = 0 /\ Promise(r) = NoPromise /\ Settled(r) = "pending"
  <2>1. \A s : /\ NewResolution(s).isTxn = FALSE /\ NewResolution(s).nextTxn = 0
               /\ NewResolution(s).promise = NoPromise /\ NewResolution(s).settled = "pending"
    BY DEF NewResolution
  <2> TAKE r \in Slots
  <2>2. PICK s : resolution[r] = NewResolution(s) BY DEF Init
  <2> QED BY <2>1, <2>2 DEF Is, NextTxn, Promise, Settled
<1>4. Ended = {0} /\ End(0) = 1 BY <1>2 DEF Ended, End
<1>5. \A s : Closed(s) <=> s = 1 BY <1>4 DEF Closed
<1>6. TxnInv /\ OutcomeInv /\ LoadedInv /\ FinishedInv
  <2>1. LastInv /\ OutcomeInv /\ LoadedInv BY <1>2 DEF LastInv, OutcomeInv, LoadedInv
  <2>2. EndInv BY <1>2, <1>4 DEF EndInv, Frontier
  <2>3. StrictInv BY <1>4 DEF StrictInv
  <2>4. SpanInv /\ FinishedInv BY <1>2 DEF SpanInv, FinishedInv
  <2> QED BY <2>1, <2>2, <2>3, <2>4 DEF TxnInv
<1>7. \A s \in Slots : /\ OP \notin word[s] /\ (TXN_DELIMITER \in word[s] <=> s = 1)
                       /\ (TXN_COMMITTED \in word[s] => s = 1) /\ TXN_FAILED \notin word[s]
                       /\ FINISHED_OPERATION \notin word[s] /\ FAILED_CONDITION \notin word[s]
  BY <1>1 DEF OP, TXN_DELIMITER, TXN_COMMITTED, TXN_FAILED, FINISHED_OPERATION, FAILED_CONDITION
<1>8. OpenInv /\ MarkInv /\ ToldInv
  <2>1. SaidDone(1) BY <1>4 DEF SaidDone
  <2> QED BY <1>5, <1>7, <2>1 DEF OpenInv, MarkInv, ToldInv
<1>9. ListInv /\ ChainInv
  <2>1. \A r \in Places : r \in Slots
    <3>1. nextResolution = 1 /\ 1 \in Slots BY BoundsAssumption DEF Init, Slots
    <3> QED BY <3>1 DEF Places
  <2>2. ListedInv /\ ChainInv BY <1>3, <1>7, <2>1 DEF ListedInv, ChainInv
  <2>3. ReadInv BY <1>1, IdleCall DEF ReadInv
  <2> QED BY <2>2, <2>3 DEF ListInv
<1>10. ~Noting /\ ~Publishing /\ ~Deferred /\ caller.pc # "note"
  BY <1>1, <1>2, IdleCall DEF Noting, Publishing, Deferred
<1>11. UnpublishedInv BY <1>1 DEF UnpublishedInv
<1>12. DeferInv /\ NestedInv /\ SharedInv /\ HoldInv
  BY <1>1, <1>10 DEF DeferInv, NestedInv, SharedInv, HoldInv
<1>13. AssignedTo /\ JoinInv /\ SettledInv
  <2>1. ~(NoPromise > 0) BY DEF NoPromise
  <2> QED BY <1>3, <2>1 DEF AssignedTo, JoinInv, Shares, SettledInv
<1> QED BY <1>6, <1>8, <1>9, <1>11, <1>12, <1>13
  DEF TruthInv, GroupInv, AnswerInv, HistoryInv, PromisesInv

LEMMA CallTruth ==
    ASSUME IInv, CursorInv, GroupInv, IInv', CallStep
    PROVE  TruthKept
BY PublishTruth, CounterTruth, StoreTruth, AssignTruth, SweepTruth, SettleTruth, EndTruth
   DEF CallStep

LEMMA StutterTruth ==
    ASSUME IInv, CursorInv, GroupInv, IInv', UNCHANGED vars
    PROVE  TruthKept
<1>1. /\ UNCHANGED <<word, instr, position, nextResolution, blocks, resolution, commitPromise,
                     writeBatchStart, call, caller, txnResolution, unwrittenResolution,
                     uncommittedResolution, worker>>
      /\ SameHistory
  BY DEF vars, jsVars, reserveVars, batchVars, settleVars, promiseVars, historyVars, SameHistory
<1>2. SamePlaces /\ JsWorkers BY <1>1, SameWorkers DEF SamePlaces, FP
<1>3. \A r \in Slots : /\ Is(r)' = Is(r) /\ NextTxn(r)' = NextTxn(r)
                       /\ Promise(r)' = Promise(r) /\ Settled(r)' = Settled(r)
                       /\ resolution'[r].flag = resolution[r].flag
  BY <1>1 DEF Is, NextTxn, Promise, Settled
<1>4. Steady => ListInv' /\ SkipsKept /\ (ChainInv => ChainInv')
  <2> HAVE Steady
  <2>1. ListedInv' /\ SkipsKept /\ (ChainInv => ChainInv') BY <1>1, <1>2, <1>3, KeepLinks DEF GroupInv
  <2>2. call'.pc = "settle" => \A r \in Places : Is(r)' => r <= unwrittenResolution
    BY <1>1, <1>3, PlaceTypes DEF GroupInv, ListInv, ReadInv
  <2>3. ReadInv' BY <1>1, <1>2, <1>3, <2>2, KeepRead DEF GroupInv
  <2> QED BY <2>1, <2>3 DEF ListInv
<1>5. (Noting' => Noting) /\ (Publishing' <=> Publishing) BY <1>1 DEF Noting, Publishing
<1> QED BY <1>1, <1>2, <1>3, <1>4, <1>5, QuietTruth

LEMMA NextTruth ==
    ASSUME IInv, CursorInv, GroupInv, IInv', [Next]_vars
    PROVE  TruthKept
<1>1. CASE UNCHANGED vars BY <1>1, StutterTruth
<1>2. CASE Next
  <2>1. ASSUME NEW kind \in Operations, Write(kind) \/ IfVersion(kind) PROVE TruthKept
    BY <2>1, ReserveTruth
  <2>2. CASE EndEventTurn \/ EndIfVersion BY <2>2, FinishTruth
  <2>3. CASE CallStep BY <2>3, CallTruth
  <2>4. CASE RunEnqueuedCommit BY <2>4, StartTruth
  <2>5. ASSUME NEW w \in DOMAIN worker, WorkerStep(w) PROVE TruthKept
    <3>1. HistoryInv' /\ ListInv' /\ SkipsKept /\ (ChainInv => ChainInv') /\ PromisesInv'
      BY <2>5, WorkerHistory, WorkerList, WorkerPromises DEF GroupInv, CursorInv
    <3>2. SettledInv => SettledInv' BY <2>5, <3>1, WorkerSettled DEF GroupInv
    <3> QED BY <3>1, <3>2 DEF GroupInv, AnswerInv, TruthKept
  <2>6. ASSUME NEW w \in DOMAIN worker, CommitProgress(w) \/ CallbackProgress(w) \/ Complete(w)
        PROVE  TruthKept
    BY <2>6, TaskTruth
  <2> QED BY <1>2, <2>1, <2>2, <2>3, <2>4, <2>5, <2>6 DEF Next
<1> QED BY <1>1, <1>2

\* Writes that share a promise were executed by the same transaction, once it is closed.
LEMMA JoinedTogether ==
    ASSUME IInv, TxnInv, NEW c \in Reserved, NEW r \in Reserved, Joined(c, r),
           FP(c) \in 1..Len(log), txnOf[FP(c)] \in Ended
    PROVE  FP(r) \in 1..Len(log) /\ txnOf[FP(r)] = txnOf[FP(c)]
<1>1. PICK n \in Nat : n = Len(log) /\ Frontier = n + 1 BY SlotTypes
<1>2. PICK v \in Ended : v = txnOf[FP(c)] /\ v \in Nat BY EndTypes
<1>3. PICK x \in Slots, y \in Slots : x = FP(c) /\ y = FP(r) /\ x \in Nat /\ y \in Nat /\ 1 <= y
  <2>1. FP(c) \in Slots /\ FP(c) \in Nat /\ FP(r) \in Slots /\ FP(r) \in Nat BY ReservedTypes
  <2>2. 1 <= FP(r) BY <2>1, SlotTypes
  <2> QED BY <2>1, <2>2
<1>4. \A e \in Ended : End(e) \in Slots /\ End(e) \in Nat /\ e \in Nat BY EndTypes
<1>5. \A e \in Ended : v <= e <=> x < End(e) BY <1>2, <1>3 DEF TxnInv, SpanInv
<1>6. x < End(v) BY <1>2, <1>5
\* No transaction was closed between the two.
<1>7. ASSUME NEW e \in Ended PROVE x < End(e) <=> y < End(e)
  <2>1. Closed(End(e)) BY DEF Closed
  <2>2. End(e) \in Slots /\ End(e) \in Nat BY <1>4
  <2>3. ~(x < End(e) /\ End(e) <= y) /\ ~(y < End(e) /\ End(e) <= x)
    BY <1>3, <2>1, <2>2 DEF Joined
  <2> QED BY <1>3, <2>2, <2>3
<1>8. y \in 1..Len(log)
  <2>1. y < End(v) BY <1>6, <1>7
  <2>2. End(v) <= n + 1 /\ End(v) \in Nat BY <1>1, <1>4 DEF TxnInv, EndInv
  <2> QED BY <1>1, <1>3, <2>1, <2>2
<1>9. PICK u \in DOMAIN worker : u = txnOf[y] /\ \A e \in Ended : u <= e <=> y < End(e)
  BY <1>8 DEF TxnInv, SpanInv
<1>10. u \in Nat /\ u <= Len(worker) /\ v <= Len(worker) /\ Len(worker) \in Nat BY EndTypes
<1>11. u <= v BY <1>6, <1>7, <1>9
<1>12. v <= u
  <2>1. CASE u \in Ended
    <3>1. y < End(u) BY <1>9, <1>10, <2>1
    <3> QED BY <1>5, <1>7, <2>1, <3>1
  <2>2. CASE u \notin Ended
    <3>1. u = Len(worker) BY <2>2 DEF TxnInv, LastInv
    <3> QED BY <1>10, <3>1
  <2> QED BY <2>1, <2>2
<1>13. u = v BY <1>2, <1>10, <1>11, <1>12
<1> QED BY <1>2, <1>3, <1>8, <1>9, <1>13

\* What is settled was executed by a transaction that ended, and is answered rightly.
LEMMA SettledTogether ==
    ASSUME IInv, TruthInv, NEW r \in Slots, SettledAs(r) # "pending"
    PROVE  \E v \in Ended :
             /\ v \in DOMAIN worker /\ FP(r) \in 1..Len(log) /\ txnOf[FP(r)] = v
             /\ Answered(SettledAs(r), v)
             /\ Conditional(r) /\ SettledAs(r) # "rejected" => (SettledAs(r) = "true") = result[FP(r)]
<1>1. AssignedTo /\ JoinInv /\ SettledInv /\ LastInv /\ EndInv /\ SpanInv
  BY DEF TruthInv, GroupInv, AnswerInv, PromisesInv, HistoryInv, TxnInv
<1>2. Promise(r) > 0 /\ SettledAs(r) = Settled(Promise(r)) BY DEF SettledAs, Promise, Settled
<1>3. r \in Reserved BY <1>1, <1>2 DEF AssignedTo, NoPromise
<1>4. PICK n \in Nat : n = Len(log) /\ Frontier = n + 1 BY SlotTypes
<1>5. ASSUME NEW c \in Reserved, Settled(c) # "pending"
      PROVE  \E v \in Ended : /\ v \in DOMAIN worker /\ v \in Nat /\ FP(c) \in 1..Len(log)
                              /\ txnOf[FP(c)] = v /\ Answered(Settled(c), v)
  <2>1. c \in Slots /\ FP(c) \in Nat /\ FP(c) \in Slots BY ReservedTypes
  <2>2. FP(c) >= 1 BY <2>1, SlotTypes
  <2>3. /\ FP(c) <= Len(log) /\ txnOf[FP(c)] \in Ended
        /\ Answered(Settled(c), txnOf[FP(c)])
    BY <1>1, <1>5, <2>1 DEF SettledInv
  <2>4. FP(c) \in 1..Len(log) BY <1>4, <2>1, <2>2, <2>3
  <2>5. txnOf[FP(c)] \in DOMAIN worker BY <1>1, <2>4 DEF SpanInv
  <2>6. txnOf[FP(c)] \in Nat BY <2>3, EndTypes
  <2> QED BY <2>3, <2>4, <2>5, <2>6
<1>6. CASE Promise(r) = r
  <2>1. Settled(r) # "pending" BY <1>2, <1>6
  <2>2. Conditional(r) /\ Settled(r) # "rejected" => (Settled(r) = "true") = result[FP(r)]
    BY <1>1, <2>1 DEF SettledInv
  <2> QED BY <1>2, <1>3, <1>5, <1>6, <2>1, <2>2
<1>7. CASE Promise(r) # r
  <2>1. PICK c \in Reserved : SharesWith(r, c) BY <1>1, <1>2, <1>7 DEF JoinInv, Shares
  <2>2. Promise(r) = c /\ ~Conditional(r) /\ Joined(c, r) BY <2>1 DEF SharesWith
  <2>3. Settled(c) # "pending" /\ SettledAs(r) = Settled(c) BY <1>2, <2>2
  <2>4. PICK v \in Ended : /\ v \in DOMAIN worker /\ v \in Nat /\ FP(c) \in 1..Len(log)
                           /\ txnOf[FP(c)] = v /\ Answered(Settled(c), v)
    BY <1>5, <2>3
  <2>5. FP(r) \in 1..Len(log) /\ txnOf[FP(r)] = v
    BY <1>1, <1>3, <2>2, <2>4, JoinedTogether DEF TxnInv, TruthInv, GroupInv, HistoryInv
  <2> QED BY <2>2, <2>3, <2>4, <2>5
<1> QED BY <1>6, <1>7

\* How writes are grouped into transactions is known in every state.
THEOREM GroupCorrect == Spec => []GroupInv
<1>1. Init => GroupInv BY InitTruth DEF TruthInv
<1>2. IInv /\ CursorInv /\ GroupInv /\ IInv' /\ [Next]_vars => GroupInv'
  BY NextTruth DEF TruthKept
<1> QED BY <1>1, <1>2, InvariantCorrect, CursorCorrect, PTL DEF Spec

(* The invariant about the promises (queueCommitResolution and resolveWrites of *)
(* write.js against WriteWorker::Write of writer.cpp): how writes are grouped    *)
(* into transactions and with whom they share a promise, which delimiters are    *)
(* linked and which were skipped, and how the settled ones were answered.        *)
THEOREM TruthCorrect == Spec => []TruthInv
<1>1. Init => TruthInv BY InitTruth
<1>2. IInv /\ CursorInv /\ TruthInv /\ IInv' /\ [Next]_vars => TruthInv'
  <2> SUFFICES ASSUME IInv, CursorInv, TruthInv, IInv', [Next]_vars PROVE TruthInv' OBVIOUS
  <2>1. TruthKept BY NextTruth DEF TruthInv
  <2> QED BY <2>1 DEF TruthInv, TruthKept
<1> QED BY <1>1, <1>2, InvariantCorrect, CursorCorrect, PTL DEF Spec

-----------------------------------------------------------------------------
(* User callbacks: what is known of those that did not run yet, relative to  *)
(* the invariants above.                                                     *)

Carried(r) == resolution[r].callbacks
Waiting(c) == c \in 1..(position - 1) /\ instr[c].kind = "CALL" /\ ranIn[c] = 0

\* A callback that did not run hangs on the resolution of its slot or, when its write opened
\* the event turn, on the one before it; or it was collected by the sweep of resolveWrites.
CarriedBy(r) ==
    /\ r \in Reserved /\ unwrittenResolution <= r
    /\ Waiting(Carried(r)) /\ Carried(r) \notin nextTxnCallbacks
    /\ Carried(r) = FP(r) \/ Carried(r) = FP(r) + 1
    /\ Published(r) => OP \in word[Carried(r)]
HeldInv ==
    /\ \A r \in Slots : Carried(r) # 0 => CarriedBy(r)
    /\ \A r, q \in Slots : Carried(r) # 0 /\ Carried(r) = Carried(q) => r = q
CollectedInv ==
    \A c \in nextTxnCallbacks :
        Waiting(c) /\ (c <= Len(log) \/ (c = Frontier /\ OP \in word[c]))
KeptInv ==
    \A c \in 1..(position - 1) : Waiting(c) =>
        c \in nextTxnCallbacks \/ \E r \in Slots : Carried(r) = c
ListedCallbacks == HeldInv /\ CollectedInv /\ KeptInv

\* While a worker waits, only callbacks that it or an earlier one executed can be collected.
WaitInv ==
    \A w \in DOMAIN worker : worker[w].pc = "wait" =>
        /\ \A c \in nextTxnCallbacks : c <= Len(log)
        /\ \A r \in Slots : Carried(r) # 0 /\ FP(r) <= Len(log) => Carried(r) <= Len(log)

\* The lock is held by a worker inside its transaction, or by the callback that answers a
\* waiting one.
HasLock(w) == worker[w].pc \in {"run", "store", "commit"}
LockInv == \A w \in DOMAIN worker : HasLock(w) => lock = w
Answering == call.status = 2
AnsweringInv ==
    /\ (lock = Js) <=> Answering
    /\ Answering => /\ call.res = 0 /\ call.pc \in {"sweep", "settle", "status"}
                    /\ call.worker \in DOMAIN worker
                    /\ worker[call.worker].pc = "wait" /\ worker[call.worker].finishedProgress
    /\ caller.status # 2

\* A callback that takes effect and did not run belongs to a transaction that is open and
\* whose worker was not answered; the answer under way has collected it when it settles.
Unanswered(w) == ~worker[w].finishedProgress \/ (Answering /\ call.worker = w)
Due(c) == instr[c].kind = "CALL" /\ result[c] /\ ranIn[c] = 0
Swept == Answering /\ call.pc \in {"settle", "status"}
EffectInv ==
    \A c \in 1..Len(log) : Due(c) =>
        /\ txnOf[c] \notin Ended /\ Unanswered(txnOf[c])
        /\ Swept => c \in nextTxnCallbacks
RanInv ==
    \A c \in 1..MaxSlots : ranIn[c] # 0 => c <= Len(log) /\ (result[c] => ranIn[c] = txnOf[c])

CallbackInv ==
    ListedCallbacks /\ WaitInv /\ LockInv /\ AnsweringInv /\ EffectInv /\ RanInv

-----------------------------------------------------------------------------
(* Workers and callbacks. *)

\* A slot with a callback is a reserved one.
LEMMA WaitingTypes ==
    ASSUME IInv, NEW c, Waiting(c)
    PROVE  c \in Slots /\ c \in Nat /\ 1 <= c /\ c # 0 /\ c < position /\ c \in 1..MaxSlots
<1>1. c \in 1..(position - 1) BY DEF Waiting
<1>2. c \in Slots /\ c \in Nat /\ c < position BY <1>1, PositionTypes
<1>3. 1 <= c /\ c # 0 BY <1>2, SlotTypes
<1>4. c <= MaxSlots
  <2>1. position \in Nat /\ position <= MaxSlots + 1 /\ MaxSlots \in Nat BY PositionTypes, SlotTypes
  <2> QED BY <1>2, <2>1
<1> QED BY <1>2, <1>3, <1>4, SlotTypes

\* What a step of a worker does to the lock and to the request for the callbacks.
LEMMA WorkerFlags ==
    ASSUME IInv, NEW w \in DOMAIN worker, WorkerStep(w)
    PROVE  /\ ranIn' = ranIn
           /\ \A v \in DOMAIN worker :
                /\ worker'[v].finishedProgress => worker[v].finishedProgress
                /\ v # w => /\ worker'[v].pc = worker[v].pc
                            /\ worker'[v].finishedProgress = worker[v].finishedProgress
           /\ \/ lock = Free /\ lock' = w
              \/ HasLock(w) /\ lock' = Free /\ ~HasLock(w)'
              \/ lock' = lock /\ (HasLock(w)' => HasLock(w)) /\ worker[w].pc # "wait"
           /\ worker'[w].pc = "commit" => worker[w].finishedProgress \/ worker[w].pc = "commit"
           /\ log' # log /\ instr[Frontier].kind = "CALL" /\ result'[Frontier] =>
                ~worker'[w].finishedProgress
<1>1. worker[w] \in Worker /\ worker \in Seq(Worker)
  BY WorkerTypes DEF IInv, TypeOK, TypeWorker
<1>2. ASSUME NEW e, worker' = [worker EXCEPT ![w] = e], e.finishedProgress => worker[w].finishedProgress
      PROVE  /\ worker'[w] = e
             /\ \A v \in DOMAIN worker :
                  /\ worker'[v].finishedProgress => worker[v].finishedProgress
                  /\ v # w => /\ worker'[v].pc = worker[v].pc
                              /\ worker'[v].finishedProgress = worker[v].finishedProgress
  <2>1. worker'[w] = e /\ \A v \in DOMAIN worker : v # w => worker'[v] = worker[v]
    BY <1>1, <1>2
  <2> QED BY <1>2, <2>1
<1>3. CASE BeginTxn(w) \/ WakeUp(w)
  <2> DEFINE e == [worker[w] EXCEPT !.pc = "run"]
  <2>1. /\ worker' = [worker EXCEPT ![w] = e] /\ lock = Free /\ lock' = w
        /\ UNCHANGED <<log, ranIn>>
    BY <1>3 DEF BeginTxn, WakeUp, historyVars
  <2>2. e.finishedProgress = worker[w].finishedProgress /\ e.pc = "run" BY <1>1 DEF Worker
  <2> HIDE DEF e
  <2> QED BY <1>2, <2>1, <2>2
<1>4. CASE WaitForOperation(w)
  <2> DEFINE e == [worker[w] EXCEPT !.pc = "wait"]
  <2>1. /\ worker' = [worker EXCEPT ![w] = e] /\ lock' = Free /\ worker[w].pc = "run"
        /\ UNCHANGED <<log, ranIn>>
    BY <1>4 DEF WaitForOperation, Running, historyVars
  <2>2. e.finishedProgress = worker[w].finishedProgress /\ e.pc = "wait" BY <1>1 DEF Worker
  <2> HIDE DEF e
  <2> QED BY <1>2, <2>1, <2>2 DEF HasLock
<1>5. CASE Delimit(w)
  <2> DEFINE e == [worker[w] EXCEPT !.pc = "commit", !.instructions = worker[w].pos]
  <2>1. /\ worker' = [worker EXCEPT ![w] = e] /\ lock' = lock /\ worker[w].pc = "run"
        /\ UNCHANGED <<log, ranIn>> /\ worker[w].finishedProgress
    BY <1>5 DEF Delimit, Running, MustWait, historyVars
  <2>2. e.finishedProgress = worker[w].finishedProgress /\ e.pc = "commit" BY <1>1 DEF Worker
  <2> HIDE DEF e
  <2> QED BY <1>2, <2>1, <2>2 DEF HasLock
<1>6. CASE Commit(w)
  <2>1. PICK outcome \in {"ok", "failed"} :
          /\ worker' = [worker EXCEPT ![w].pc = "report", ![w].outcome = outcome,
                                      ![w].durable = outcome = "ok" /\ ~OverlappingSync]
          /\ worker[w].pc = "commit" /\ lock' = Free /\ UNCHANGED <<log, ranIn>>
    BY <1>6 DEF Commit, historyVars
  <2> DEFINE d == outcome = "ok" /\ ~OverlappingSync
             e == [worker[w] EXCEPT !.pc = "report", !.outcome = outcome, !.durable = d]
  <2>2. worker' = [worker EXCEPT ![w] = e] BY <2>1
  <2>3. e.finishedProgress = worker[w].finishedProgress /\ e.pc = "report" BY <1>1 DEF Worker
  <2> HIDE DEF e
  <2> QED BY <1>2, <2>1, <2>2, <2>3 DEF HasLock
<1>7. CASE StoreFinished(w)
  <2> DEFINE e == [worker[w] EXCEPT !.pc = "run", !.pos = worker[w].pos + 1, !.loaded = {}]
  <2>1. /\ worker' = [worker EXCEPT ![w] = e] /\ worker[w].pc = "store"
        /\ UNCHANGED <<log, ranIn, lock>>
    BY <1>7 DEF StoreFinished, historyVars
  <2>2. e.finishedProgress = worker[w].finishedProgress /\ e.pc = "run" BY <1>1 DEF Worker
  <2> HIDE DEF e
  <2> QED BY <1>2, <2>1, <2>2 DEF HasLock
<1>8. CASE ReportCommit(w)
  <2> DEFINE failed == worker[w].outcome = "failed"
             next == IF OverlappingSync /\ ~failed THEN "sync" ELSE "done"
             more == OverlappingSync /\ ~failed
             e == [worker[w] EXCEPT !.pc = next, !.progress = more]
  <2>1. /\ worker' = [worker EXCEPT ![w] = e] /\ worker[w].pc = "report"
        /\ UNCHANGED <<log, ranIn, lock>>
    BY <1>8 DEF ReportCommit, historyVars
  <2>2. e.finishedProgress = worker[w].finishedProgress /\ e.pc \in {"sync", "done"}
    BY <1>1 DEF Worker
  <2> HIDE DEF e
  <2> QED BY <1>2, <2>1, <2>2 DEF HasLock
<1>9. CASE Sync(w)
  <2>1. PICK synced \in BOOLEAN :
          worker' = [v \in DOMAIN worker |->
                       [worker[v] EXCEPT !.durable = @ \/ (synced /\ worker[v].outcome = "ok"),
                                         !.pc = IF v = w THEN "done" ELSE @]]
    BY <1>9 DEF Sync
  <2>2. ASSUME NEW v \in DOMAIN worker
        PROVE  /\ worker'[v].pc = IF v = w THEN "done" ELSE worker[v].pc
               /\ worker'[v].finishedProgress = worker[v].finishedProgress
    <3> DEFINE durable == worker[v].durable \/ (synced /\ worker[v].outcome = "ok")
               pc == IF v = w THEN "done" ELSE worker[v].pc
               e == [worker[v] EXCEPT !.durable = durable, !.pc = pc]
    <3>1. worker[v] \in Worker BY <1>1
    <3>2. worker'[v] = e BY <2>1
    <3>3. e.pc = pc /\ e.finishedProgress = worker[v].finishedProgress BY <3>1 DEF Worker
    <3> HIDE DEF e
    <3> QED BY <3>2, <3>3
  <2>3. worker[w].pc = "sync" /\ UNCHANGED <<log, ranIn, lock>> BY <1>9 DEF Sync, historyVars
  <2> QED BY <2>2, <2>3 DEF HasLock
<1>10. ASSUME NEW ok \in BOOLEAN, NEW f \in Worker, worker[w].pc = "run", f.pc = "run",
              f.finishedProgress => worker[w].finishedProgress,
              Executed(w, ok, [worker EXCEPT ![w] = f]), worker[w].pos = Frontier,
              OP \in word[Frontier], instr[Frontier].kind = "CALL" /\ ok => ~f.finishedProgress
       PROVE  /\ ranIn' = ranIn /\ lock' = lock /\ worker'[w].pc \in {"run", "store"}
              /\ \A v \in DOMAIN worker :
                   /\ worker'[v].finishedProgress => worker[v].finishedProgress
                   /\ v # w => /\ worker'[v].pc = worker[v].pc
                               /\ worker'[v].finishedProgress = worker[v].finishedProgress
              /\ instr[Frontier].kind = "CALL" /\ result'[Frontier] => ~worker'[w].finishedProgress
  <2> DEFINE l == word[Frontier] \cup ({FINISHED_OPERATION} \cup IF ok THEN {} ELSE {FAILED_CONDITION})
             marked == [f EXCEPT !.pos = Frontier + 1, !.overlappedWord = FALSE]
             loaded == [f EXCEPT !.pc = "store", !.loaded = l]
  <2>1. Frontier \in 1..MaxSlots /\ result \in [1..MaxSlots -> BOOLEAN]
    <3>1. Frontier \in Slots /\ Frontier \in Nat /\ MaxSlots \in Nat /\ 1 <= Frontier BY SlotTypes
    <3>2. Frontier < position BY <1>10, <3>1, PositionTypes DEF IInv, WordInv
    <3>3. position \in Nat /\ position <= MaxSlots + 1 BY PositionTypes, SlotTypes
    <3> QED BY <3>1, <3>2, <3>3 DEF IInv, TypeOK, TypeHistory
  <2>2. worker' = [worker EXCEPT ![w] = marked] \/ worker' = [worker EXCEPT ![w] = loaded]
    BY <1>1, <1>10 DEF Executed
  <2>3. /\ marked.pc = "run" /\ loaded.pc = "store"
        /\ marked.finishedProgress = f.finishedProgress /\ loaded.finishedProgress = f.finishedProgress
    BY <1>10 DEF Worker
  <2> HIDE DEF marked, loaded
  <2>4. PICK e : /\ worker' = [worker EXCEPT ![w] = e] /\ e.pc \in {"run", "store"}
                 /\ e.finishedProgress = f.finishedProgress
    BY <2>2, <2>3
  <2>5. ranIn' = ranIn /\ lock' = lock /\ result' = [result EXCEPT ![Frontier] = ok]
    BY <1>10 DEF Executed
  <2>6. result'[Frontier] = ok BY <2>1, <2>5
  <2>7. /\ worker'[w] = e
        /\ \A v \in DOMAIN worker :
             /\ worker'[v].finishedProgress => worker[v].finishedProgress
             /\ v # w => /\ worker'[v].pc = worker[v].pc
                         /\ worker'[v].finishedProgress = worker[v].finishedProgress
    BY <1>2, <1>10, <2>4
  <2> QED BY <1>10, <2>4, <2>5, <2>6, <2>7
<1>11. CASE ExecuteWrite(w) \/ ExecuteStart(w) \/ ExecuteCall(w) \/ ExecuteEnd(w)
  <2>1. worker[w].pc = "run" /\ OP \in word[worker[w].pos]
    BY <1>11 DEF ExecuteWrite, ExecuteStart, ExecuteCall, ExecuteEnd, Executes, Running, Fetched
  <2>2. worker[w].pos = Frontier BY <2>1, RunningWorker DEF Frontier
  <2>3. worker = [worker EXCEPT ![w] = worker[w]] BY <1>1
  <2>4. CASE ExecuteWrite(w)
    <3>1. PICK ok \in BOOLEAN, f \in Worker :
            WroteBy(w, f) /\ Executed(w, ok, [worker EXCEPT ![w] = f])
      BY <2>4, WriteRecord DEF IInv
    <3>2. instr[Frontier].kind # "CALL" BY <2>2, <2>4 DEF ExecuteWrite, Executes
    <3>3. f.pc = "run" /\ f.finishedProgress = worker[w].finishedProgress BY <2>1, <3>1 DEF WroteBy
    <3> QED BY <1>10, <2>1, <2>2, <3>1, <3>2, <3>3 DEF HasLock
  <2>5. CASE ExecuteStart(w)
    <3>1. PICK met \in BOOLEAN :
            Executed(w, Validated(w) /\ met,
                     [worker EXCEPT ![w].depth = @ + 1,
                                    ![w].validated = IF Validated(w) /\ met THEN @ + 1 ELSE @])
      BY <2>5 DEF ExecuteStart
    <3>2. instr[Frontier].kind # "CALL" BY <2>2, <2>5 DEF ExecuteStart, Executes
    <3>3. PICK ok \in BOOLEAN : ok = (Validated(w) /\ met) OBVIOUS
    <3> DEFINE v == IF ok THEN worker[w].validated + 1 ELSE worker[w].validated
               f == [worker[w] EXCEPT !.depth = worker[w].depth + 1, !.validated = v]
    <3>4. Executed(w, ok, [worker EXCEPT ![w] = f]) BY <3>1, <3>3
    <3>5. PICK x \in Worker, d \in Int, u \in Int :
            x = worker[w] /\ d = worker[w].depth + 1 /\ u = v
      BY <1>1 DEF Worker
    <3>6. f = [x EXCEPT !.depth = d, !.validated = u] BY <3>5
    <3> HIDE DEF f, v
    <3>7. f \in Worker /\ f.pc = "run" /\ f.finishedProgress = worker[w].finishedProgress
      BY <2>1, <3>5, <3>6 DEF Worker
    <3> QED BY <1>10, <2>1, <2>2, <3>2, <3>4, <3>7 DEF HasLock
  <2>6. CASE ExecuteCall(w)
    <3> DEFINE v == IF Validated(w) THEN FALSE ELSE worker[w].finishedProgress
               f == [worker[w] EXCEPT !.finishedProgress = v]
    <3>1. PICK ok \in BOOLEAN : ok = Validated(w) BY DEF Validated
    <3>2. Executed(w, ok, [worker EXCEPT ![w] = f]) BY <2>6, <3>1 DEF ExecuteCall
    <3>3. v \in BOOLEAN /\ (v => worker[w].finishedProgress) /\ (ok => ~v) BY <1>1, <3>1 DEF Worker
    <3> HIDE DEF v
    <3>4. f \in Worker /\ f.pc = "run" /\ f.finishedProgress = v BY <1>1, <2>1, <3>3 DEF Worker
    <3> HIDE DEF f
    <3> QED BY <1>10, <2>1, <2>2, <3>2, <3>3, <3>4 DEF HasLock
  <2>7. CASE ExecuteEnd(w)
    <3> DEFINE depth == worker[w].depth - 1
               v == ValidatedAfterEnd(worker[w].validated, depth)
               e == [worker[w] EXCEPT !.pos = worker[w].pos + 1, !.depth = depth, !.validated = v]
    <3>1. /\ worker' = [worker EXCEPT ![w] = e] /\ instr[Frontier].kind = "END"
          /\ UNCHANGED <<lock, ranIn>>
      BY <2>2, <2>7 DEF ExecuteEnd, Executes
    <3> HIDE DEF v, depth
    <3>2. e.pc = "run" /\ e.finishedProgress = worker[w].finishedProgress BY <1>1, <2>1 DEF Worker
    <3> HIDE DEF e
    <3> QED BY <1>2, <2>1, <3>1, <3>2 DEF HasLock
  <2> QED BY <1>11, <2>4, <2>5, <2>6, <2>7, SMTT(30)
<1> QED BY <1>3, <1>4, <1>5, <1>6, <1>7, <1>8, <1>9, <1>11 DEF WorkerStep

\* Only a running worker executes.
LEMMA WorkerExecutes ==
    ASSUME IInv, NEW w \in DOMAIN worker, WorkerStep(w)
    PROVE  \/ log' = log
           \/ /\ worker[w].pc = "run" /\ worker'[w].pc \in {"run", "store"}
              /\ Len(log') = Len(log) + 1 /\ txnOf'[Frontier] = w /\ log' # log
<1>1. log \in Seq(Slots) BY DEF IInv, TypeOK, TypeHistory
<1>2. CASE Executing(w)
  <2>1. PICK ok \in BOOLEAN : Runs(w, ok) /\ (RunsMarked(w, ok) \/ RunsEnd(w)) BY <1>2 DEF Executing
  <2>2. /\ log' = Append(log, Frontier) /\ txnOf' = [txnOf EXCEPT ![Frontier] = w]
        /\ worker[w].pc = "run" /\ worker'[w].pc \in {"run", "store"} /\ OP \in word[Frontier]
    BY <2>1 DEF Runs, RunsMarked, RunsEnd
  <2>3. Len(log') = Len(log) + 1 /\ log' # log BY <1>1, <2>2
  <2>4. Frontier \in 1..MaxSlots
    <3>1. Frontier \in Slots /\ Frontier \in Nat /\ MaxSlots \in Nat /\ 1 <= Frontier BY SlotTypes
    <3>2. Frontier < position BY <2>2, <3>1, PositionTypes DEF IInv, WordInv
    <3>3. position \in Nat /\ position <= MaxSlots + 1 BY PositionTypes, SlotTypes
    <3> QED BY <3>1, <3>2, <3>3
  <2>5. txnOf'[Frontier] = w BY <2>2, <2>4 DEF IInv, TypeOK, TypeHistory
  <2> QED BY <2>2, <2>3, <2>5
<1>3. SameHistory \/ Executing(w)
  BY WorkerEffect DEF Moves, Waits, Delimits, Stops, Commits, Stores, Reports, Syncs
<1> QED BY <1>2, <1>3 DEF SameHistory

\* A step of a worker moves no callback, and collects none.
LEMMA WorkerCallbacks ==
    ASSUME IInv, IInv', CursorInv, GroupInv, CallbackInv, NEW w \in DOMAIN worker, WorkerStep(w)
    PROVE  CallbackInv'
<1>1. /\ UNCHANGED <<instr, position, nextResolution, resolution, unwrittenResolution,
                     nextTxnCallbacks, call, caller, ranIn>>
      /\ DOMAIN worker' = DOMAIN worker
  BY WorkerEffect, WorkerFlags DEF jsVars, reserveVars, settleVars
<1>2. \A s \in Slots : OP \in word'[s] <=> OP \in word[s] BY WorkerOps
<1>3. /\ \A c : Waiting(c)' <=> Waiting(c)
      /\ \A r : Carried(r)' = Carried(r) /\ FP(r)' = FP(r)
      /\ Reserved' = Reserved
  BY <1>1 DEF Waiting, Carried, FP, Reserved
<1>4. /\ Len(log) \in Nat /\ Len(log') \in Nat /\ Len(log) <= Len(log') /\ Frontier = Len(log) + 1
      /\ Frontier' = Len(log') + 1
      /\ \A s \in 1..Len(log) : txnOf'[s] = txnOf[s] /\ result'[s] = result[s]
  BY SlotTypes, WorkerLog, FrontierTypes DEF IInv, TypeOK, TypeHistory, Frontier
<1>5. ASSUME NEW r \in Slots, Carried(r) # 0
      PROVE  /\ CarriedBy(r) /\ FP(r) \in Slots /\ FP(r) \in Nat /\ 1 <= FP(r)
             /\ Carried(r) \in Slots /\ Carried(r) \in Nat
  <2>1. CarriedBy(r) BY <1>5 DEF CallbackInv, ListedCallbacks, HeldInv
  <2> QED BY <2>1, WaitingTypes, ReservedTypes, SlotTypes DEF CarriedBy
<1>6. \A c \in nextTxnCallbacks : /\ Waiting(c) /\ c \in Slots /\ c \in Nat
                                  /\ c <= Len(log) \/ (c = Frontier /\ OP \in word[c])
  BY WaitingTypes DEF CallbackInv, ListedCallbacks, CollectedInv
<1>7. ListedCallbacks'
  <2>1. HeldInv'
    <3>1. ASSUME NEW r \in Slots, Carried(r)' # 0 PROVE CarriedBy(r)'
      <4>1. CarriedBy(r) /\ FP(r) \in Slots /\ Carried(r) \in Slots BY <1>3, <1>5, <3>1
      <4>2. Published(r)' => Published(r) BY <1>2, <1>3, <4>1 DEF Published
      <4>3. Published(r) => OP \in word'[Carried(r)] BY <1>2, <4>1 DEF CarriedBy
      <4> QED BY <1>1, <1>3, <4>1, <4>2, <4>3 DEF CarriedBy
    <3> QED BY <1>3, <3>1 DEF HeldInv, CallbackInv, ListedCallbacks
  <2>2. CollectedInv'
    <3>1. ASSUME NEW c \in nextTxnCallbacks
          PROVE  c <= Len(log') \/ (c = Frontier' /\ OP \in word'[c])
      <4>1. c \in Slots /\ c \in Nat /\ (c <= Len(log) \/ (c = Frontier /\ OP \in word[c])) BY <1>6
      <4>2. CASE c <= Len(log) BY <1>4, <4>1, <4>2
      <4>3. CASE c = Frontier /\ OP \in word[c]
        <5>1. c <= Len(log') \/ c = Frontier' BY <1>4, <4>1, <4>3
        <5> QED BY <1>2, <4>1, <4>3, <5>1
      <4> QED BY <4>1, <4>2, <4>3
    <3> QED BY <1>1, <1>3, <1>6, <3>1 DEF CollectedInv
  <2>3. KeptInv' BY <1>1, <1>3 DEF KeptInv, CallbackInv, ListedCallbacks
  <2> QED BY <2>1, <2>2, <2>3 DEF ListedCallbacks
<1>8. WaitInv'
  <2> SUFFICES ASSUME NEW v \in DOMAIN worker', worker'[v].pc = "wait"
               PROVE  /\ \A c \in nextTxnCallbacks : c <= Len(log')
                      /\ \A r \in Slots : Carried(r) # 0 /\ FP(r) <= Len(log') => Carried(r) <= Len(log')
    BY <1>1, <1>3 DEF WaitInv
  <2>1. v \in DOMAIN worker BY <1>1
  <2>2. CASE v # w
    <3>1. worker[v].pc = "wait" BY <2>1, <2>2, WorkerFlags
    <3>2. log' = log
      <4>1. ActiveWorkers = {v} BY <2>1, <3>1, OneActive DEF IInv
      <4>2. worker[w].pc # "run" BY <2>2, <4>1 DEF ActiveWorkers
      <4> QED BY <4>2, WorkerExecutes
    <3> QED BY <2>1, <3>1, <3>2 DEF CallbackInv, WaitInv
  <2>3. CASE v = w
    <3>1. Waits(w)
      BY <2>3, WorkerEffect
      DEF Moves, Waits, Delimits, Commits, Stores, Reports, Syncs, Executing, RunsMarked, RunsEnd
    <3>2. OP \notin word[Frontier] /\ log' = log BY <3>1 DEF Waits, Stops, SameHistory
    <3>3. ASSUME NEW r \in Slots, Carried(r) # 0, FP(r) <= Len(log) PROVE Carried(r) <= Len(log)
      <4>1. CarriedBy(r) /\ FP(r) \in Nat /\ 1 <= FP(r) /\ Carried(r) \in Nat BY <1>5, <3>3
      <4>2. FP(r) \in 1..Len(log) BY <1>4, <3>3, <4>1
      <4>3. Published(r) BY <4>2 DEF CursorInv, ExecutedInv, RunInv, Published
      <4>4. Carried(r) # Frontier BY <3>2, <4>1, <4>3 DEF CarriedBy
      <4>5. Carried(r) = FP(r) \/ Carried(r) = FP(r) + 1 BY <4>1 DEF CarriedBy
      <4> QED BY <1>4, <3>3, <4>1, <4>4, <4>5
    <3> QED BY <1>6, <3>2, <3>3
  <2> QED BY <2>2, <2>3
<1>9. /\ \A v \in DOMAIN worker : v \in Nat /\ v # Free /\ v # Js
      /\ \A v \in DOMAIN worker : HasLock(v) => lock = v
      /\ Free # Js
  <2>1. \A v \in DOMAIN worker : v \in Nat /\ 1 <= v BY EndTypes
  <2>2. \A v \in DOMAIN worker : v # Free /\ v # Js BY <2>1 DEF Free, Js
  <2> QED BY <2>1, <2>2 DEF Free, Js, CallbackInv, LockInv
<1>10. \A v \in DOMAIN worker : v # w => (HasLock(v)' <=> HasLock(v))
  BY WorkerFlags DEF HasLock
<1>11. LockInv'
  <2>1. \A v \in DOMAIN worker : HasLock(v)' => lock' = v
    BY <1>9, <1>10, WorkerFlags
  <2> QED BY <1>1, <2>1 DEF LockInv
<1>12. AnsweringInv'
  <2>1. Answering' <=> Answering BY <1>1 DEF Answering
  <2>2. (lock = Js) <=> Answering BY DEF CallbackInv, AnsweringInv
  <2>3. (lock' = Js) <=> (lock = Js) BY <1>9, WorkerFlags
  <2>4. ASSUME Answering PROVE worker'[call.worker].pc = "wait" /\ worker'[call.worker].finishedProgress
    <3>1. /\ call.worker \in DOMAIN worker /\ worker[call.worker].pc = "wait"
          /\ worker[call.worker].finishedProgress
      BY <2>4 DEF CallbackInv, AnsweringInv
    <3>2. worker[w].pc # "wait" BY <1>9, <2>2, <2>4, WorkerFlags
    <3> QED BY <3>1, <3>2, WorkerFlags
  <2> QED BY <1>1, <2>1, <2>2, <2>3, <2>4 DEF CallbackInv, AnsweringInv
<1>13. EffectInv'
  <2> SUFFICES ASSUME NEW c \in 1..Len(log'), Due(c)'
               PROVE  /\ txnOf'[c] \notin Ended' /\ Unanswered(txnOf[c])'
                      /\ Swept => c \in nextTxnCallbacks
    BY <1>1 DEF EffectInv, Swept, Answering
  <2>1. CASE c <= Len(log)
    <3>1. c \in 1..Len(log) BY <1>4, <2>1
    <3>2. PICK v : v = txnOf[c] /\ v \in DOMAIN worker
      BY <3>1 DEF GroupInv, HistoryInv, TxnInv, SpanInv
    <3>3. Due(c) /\ txnOf'[c] = v BY <1>1, <1>4, <3>1, <3>2 DEF Due
    <3>4. v \notin Ended /\ Unanswered(v) /\ (Swept => c \in nextTxnCallbacks)
      BY <3>1, <3>2, <3>3 DEF CallbackInv, EffectInv
    <3>5. worker[v].pc \notin ClosedPc BY <3>2, <3>4, EndTypes
    <3>6. worker'[v].pc \notin ClosedPc
      <4>1. CASE v # w BY <3>2, <3>5, <4>1, WorkerFlags
      <4>2. CASE v = w
        <5> SUFFICES ASSUME worker'[w].pc \in ClosedPc PROVE FALSE BY <4>2
        <5>1. Delimits(w)
          BY <3>5, <4>2, WorkerEffect
          DEF Moves, Waits, Commits, Stores, Reports, Syncs, Executing, RunsMarked, RunsEnd, ClosedPc
        <5>2. worker'[w].pc = "commit" /\ worker[w].pc = "run" BY <5>1 DEF Delimits, Stops
        <5>3. worker[w].finishedProgress BY <5>2, WorkerFlags
        <5>4. Answering /\ call.worker = w BY <3>4, <4>2, <5>3 DEF Unanswered
        <5> QED BY <5>2, <5>4 DEF CallbackInv, AnsweringInv
      <4> QED BY <4>1, <4>2
    <3>7. v \notin Ended'
      <4>1. v \in DOMAIN worker' /\ v # 0 BY <1>1, <1>9, <3>2 DEF Free
      <4> QED BY <3>6, <4>1 DEF Ended
    <3>8. Unanswered(v)'
      <4>1. worker'[v].finishedProgress => worker[v].finishedProgress BY <3>2, WorkerFlags
      <4> QED BY <1>1, <3>4, <4>1 DEF Unanswered, Answering
    <3>9. Unanswered(txnOf[c])' <=> Unanswered(v)' BY <3>3 DEF Unanswered
    <3> QED BY <3>3, <3>4, <3>7, <3>8, <3>9
  <2>2. CASE ~(c <= Len(log))
    <3>1. log' # log BY <2>2
    <3>2. /\ worker[w].pc = "run" /\ worker'[w].pc \in {"run", "store"}
          /\ Len(log') = Len(log) + 1 /\ txnOf'[Frontier] = w
      BY <3>1, WorkerExecutes
    <3>3. c = Frontier BY <1>4, <2>2, <3>2
    <3>4. w \notin Ended'
      <4>1. worker'[w].pc \notin ClosedPc BY <3>2 DEF ClosedPc
      <4>2. w # 0 BY <1>9 DEF Free
      <4> QED BY <4>1, <4>2 DEF Ended
    <3>5. ~worker'[w].finishedProgress BY <1>1, <3>1, <3>3, WorkerFlags DEF Due
    <3>6. ~Answering
      <4> SUFFICES ASSUME Answering PROVE FALSE OBVIOUS
      <4>1. call.worker \in DOMAIN worker /\ worker[call.worker].pc = "wait"
        BY DEF CallbackInv, AnsweringInv
      <4>2. ActiveWorkers = {call.worker} /\ ActiveWorkers = {w} BY <3>2, <4>1, OneActive DEF IInv
      <4>3. call.worker = w BY <4>2
      <4> QED BY <3>2, <4>1, <4>3
    <3>7. Unanswered(txnOf[c])' BY <3>2, <3>3, <3>5 DEF Unanswered
    <3> QED BY <3>2, <3>3, <3>4, <3>6, <3>7 DEF Swept
  <2> QED BY <2>1, <2>2
<1>14. RanInv'
  <2> SUFFICES ASSUME NEW c \in 1..MaxSlots, ranIn[c] # 0
               PROVE  c <= Len(log') /\ (result'[c] => ranIn[c] = txnOf'[c])
    BY <1>1 DEF RanInv
  <2>1. c <= Len(log) /\ (result[c] => ranIn[c] = txnOf[c]) BY DEF CallbackInv, RanInv
  <2>2. c \in 1..Len(log) BY <1>4, <2>1
  <2> QED BY <1>4, <2>1, <2>2
<1> QED BY <1>7, <1>8, <1>11, <1>12, <1>13, <1>14 DEF CallbackInv

-----------------------------------------------------------------------------
(* Steps of the JavaScript thread that reserve nothing. *)

\* When a slot is published, what was reserved behind it is.
LEMMA PublishedNext ==
    ASSUME IInv, CursorInv, GroupInv, Publishing, NEW s \in Slots, FP(call.res) < s, s < position
    PROVE  OP \in word[s]
<1>1. call.res \in Reserved BY DEF IInv, CallInv, Publishing
<1>2. /\ s \in Nat /\ 1 <= s /\ call.res \in Places /\ FP(call.res) \in Nat /\ call.res # 0
  BY <1>1, SlotTypes, ReservedTypes
<1>3. s \in 1..(position - 1) BY <1>2, PositionTypes
<1>4. s # FP(call.res) BY <1>2
<1>5. ASSUME Deferred PROVE s # FP(writeBatchStart)
  <2>1. writeBatchStart < call.res BY <1>5 DEF GroupInv, PromisesInv, DeferInv
  <2>2. writeBatchStart \in Reserved BY <1>5 DEF IInv, DeferredInv, Deferred
  <2>3. FP(writeBatchStart) < FP(call.res) BY <1>2, <2>1, <2>2, ReservedTypes DEF CursorInv, OrderInv
  <2>4. FP(writeBatchStart) \in Nat BY <2>2, ReservedTypes
  <2> QED BY <1>2, <2>3, <2>4
<1> QED BY <1>3, <1>4, <1>5 DEF GroupInv, PromisesInv, UnpublishedInv

\* No callback is moved or collected, and what is published is published behind it.
LEMMA KeepCallbacks ==
    ASSUME IInv, IInv', CursorInv, GroupInv, CallbackInv,
           SamePlaces, SameHistory, JsWords, JsWorkers,
           UNCHANGED <<unwrittenResolution, nextTxnCallbacks, ranIn>>,
           \A r \in Slots : Carried(r)' = Carried(r),
           \A r \in Reserved : Published(r)' /\ ~Published(r) =>
               \A s \in Slots : s = FP(r) + 1 /\ s < position => OP \in word[s],
           LockInv', AnsweringInv',
           \A v \in DOMAIN worker : Unanswered(v) => Unanswered(v)',
           Swept' => \A c \in 1..Len(log) : Due(c) => c \in nextTxnCallbacks
    PROVE  CallbackInv'
<1>1. /\ UNCHANGED <<instr, position, nextResolution, txnOf, result, log>>
      /\ \A r \in Slots : FP(r)' = FP(r)
      /\ Reserved' = Reserved /\ \A c : Waiting(c)' <=> Waiting(c)
  BY DEF SamePlaces, SameHistory, Reserved, Waiting
<1>2. \A s \in Slots : OP \in word[s] => OP \in word'[s] BY DEF JsWords
<1>3. ASSUME NEW r \in Slots, Carried(r) # 0
      PROVE  CarriedBy(r)'
  <2>1. CarriedBy(r) BY <1>3 DEF CallbackInv, ListedCallbacks, HeldInv
  <2>2. /\ r \in Reserved /\ FP(r) \in Slots /\ Carried(r) \in Slots /\ Carried(r) < position
        /\ Carried(r) = FP(r) \/ Carried(r) = FP(r) + 1
    BY <2>1, WaitingTypes, ReservedTypes DEF CarriedBy
  <2>3. ASSUME Published(r)' PROVE OP \in word'[Carried(r)]
    <3>1. CASE Published(r) BY <1>2, <2>1, <2>2, <3>1 DEF CarriedBy
    <3>2. CASE ~Published(r) /\ Carried(r) = FP(r)
      BY <1>1, <2>3, <3>2 DEF Published
    <3>3. CASE ~Published(r) /\ Carried(r) = FP(r) + 1 BY <1>2, <2>2, <2>3, <3>3
    <3> QED BY <2>2, <3>1, <3>2, <3>3
  <2> QED BY <1>1, <2>1, <2>3 DEF CarriedBy
<1>4. ListedCallbacks'
  <2>1. HeldInv' BY <1>3 DEF HeldInv, CallbackInv, ListedCallbacks
  <2>2. CollectedInv'
    <3>1. \A c \in nextTxnCallbacks : Waiting(c) /\ c \in Slots
      BY WaitingTypes DEF CallbackInv, ListedCallbacks, CollectedInv
    <3>2. Frontier' = Frontier BY <1>1 DEF Frontier
    <3> QED BY <1>1, <1>2, <3>1, <3>2 DEF CallbackInv, ListedCallbacks, CollectedInv
  <2>3. KeptInv' BY <1>1 DEF KeptInv, CallbackInv, ListedCallbacks
  <2> QED BY <2>1, <2>2, <2>3 DEF ListedCallbacks
<1>5. WaitInv'
  <2> SUFFICES ASSUME NEW v \in DOMAIN worker', worker'[v].pc = "wait"
               PROVE  /\ \A c \in nextTxnCallbacks : c <= Len(log)
                      /\ \A r \in Slots : Carried(r) # 0 /\ FP(r) <= Len(log) => Carried(r) <= Len(log)
    BY <1>1 DEF WaitInv
  <2>1. v \in DOMAIN worker /\ worker[v].pc = "wait" BY DEF JsWorkers, Noted
  <2> QED BY <2>1 DEF CallbackInv, WaitInv
<1>6. EffectInv'
  <2> SUFFICES ASSUME NEW c \in 1..Len(log), Due(c)'
               PROVE  /\ txnOf[c] \notin Ended' /\ Unanswered(txnOf[c])'
                      /\ Swept' => c \in nextTxnCallbacks
    BY <1>1 DEF EffectInv
  <2>1. Due(c) BY <1>1 DEF Due
  <2>2. PICK v : v = txnOf[c] /\ v \in DOMAIN worker
    BY DEF GroupInv, HistoryInv, TxnInv, SpanInv
  <2>3. v \notin Ended /\ Unanswered(v) BY <2>1, <2>2 DEF CallbackInv, EffectInv
  <2>4. Ended' = Ended
    <3>1. \A s \in 1..Len(log) : instr'[s].kind = instr[s].kind BY <1>1
    <3> QED BY <3>1, JsHistory DEF GroupInv, CursorInv, EndsKept
  <2>5. Unanswered(v)' BY <2>2, <2>3
  <2>6. Unanswered(txnOf[c])' <=> Unanswered(v)' BY <1>1, <2>2 DEF Unanswered
  <2> QED BY <2>1, <2>2, <2>3, <2>4, <2>5, <2>6
<1>7. RanInv' BY <1>1 DEF RanInv, CallbackInv
<1> QED BY <1>4, <1>5, <1>6, <1>7 DEF CallbackInv

\* The lock stays with whom it is, and the answer under way goes on.
LEMMA KeepAnswers ==
    ASSUME CallbackInv, JsWorkers, UNCHANGED lock,
           \A v \in DOMAIN worker : worker'[v].finishedProgress = worker[v].finishedProgress,
           caller'.status # 2, Answering' <=> Answering,
           Answering => /\ call'.worker = call.worker /\ call'.res = call.res
                        /\ call'.pc \in {"sweep", "settle", "status"}
    PROVE  /\ LockInv' /\ AnsweringInv'
           /\ \A v \in DOMAIN worker : Unanswered(v) => Unanswered(v)'
<1>1. LockInv'
  <2> SUFFICES ASSUME NEW v \in DOMAIN worker', HasLock(v)' PROVE lock = v BY DEF LockInv
  <2>1. v \in DOMAIN worker /\ HasLock(v) BY DEF JsWorkers, Noted, HasLock
  <2> QED BY <2>1 DEF CallbackInv, LockInv
<1>2. AnsweringInv'
  <2>1. (lock = Js) <=> Answering BY DEF CallbackInv, AnsweringInv
  <2>2. ASSUME Answering
        PROVE  /\ call'.res = 0 /\ call'.worker \in DOMAIN worker'
               /\ worker'[call'.worker].pc = "wait" /\ worker'[call'.worker].finishedProgress
    <3>1. /\ call.worker \in DOMAIN worker /\ worker[call.worker].pc = "wait" /\ call.res = 0
          /\ worker[call.worker].finishedProgress
      BY <2>2 DEF CallbackInv, AnsweringInv
    <3>2. call.worker \in DOMAIN worker' /\ worker'[call.worker].pc = "wait"
      BY <3>1 DEF JsWorkers, Noted
    <3> QED BY <2>2, <3>1, <3>2
  <2> QED BY <2>1, <2>2 DEF AnsweringInv
<1>3. \A v \in DOMAIN worker : Unanswered(v) => Unanswered(v)' BY DEF Unanswered
<1> QED BY <1>1, <1>2, <1>3

\* When resolveWrites stopped while it answers a worker, it has collected what that
\* worker executed.
LEMMA SweptCallbacks ==
    ASSUME IInv, CursorInv, GroupInv, CallbackInv, Answering,
           FINISHED_OPERATION \notin word[FP(unwrittenResolution)],
           NEW c \in 1..Len(log), Due(c)
    PROVE  c \in nextTxnCallbacks
<1> SUFFICES ASSUME c \notin nextTxnCallbacks PROVE FALSE OBVIOUS
<1>1. c \in Nat /\ c # 0 /\ c <= Len(log) /\ Len(log) \in Nat /\ Len(log) < position BY FrontierTypes, SlotTypes
<1>2. Waiting(c)
  <2>1. c \in 1..(position - 1) BY <1>1, PositionTypes
  <2> QED BY <2>1 DEF Waiting, Due
<1>3. PICK r \in Slots : Carried(r) = c
  <2>1. c \in 1..(position - 1) BY <1>2 DEF Waiting
  <2> QED BY <1>2, <2>1 DEF CallbackInv, ListedCallbacks, KeptInv
<1>4. CarriedBy(r) BY <1>1, <1>3 DEF CallbackInv, ListedCallbacks, HeldInv
<1>5. r \in Reserved /\ unwrittenResolution <= r /\ FP(r) \in Nat /\ (c = FP(r) \/ c = FP(r) + 1)
  BY <1>3, <1>4, ReservedTypes DEF CarriedBy
<1>6. PICK u \in Nat : u = unwrittenResolution BY SlotTypes
<1>7. u \in Reserved
  <2>1. r \in Nat /\ r < nextResolution /\ nextResolution \in Nat BY <1>5, PlaceTypes, SlotTypes
  <2>2. unwrittenResolution \in Slots BY DEF IInv, TypeOK, TypeSettle
  <2>3. 1 <= u BY <1>6, <2>2, SlotTypes
  <2> QED BY <1>5, <1>6, <2>1, <2>3, PlaceTypes
<1>8. FP(u) <= FP(r) /\ FP(u) \in Nat /\ 1 <= FP(u)
  <2>1. u \in Places /\ r \in Places /\ FP(u) \in Slots /\ FP(u) \in Nat /\ r \in Nat
    BY <1>5, <1>7, ReservedTypes
  <2>2. u < r => FP(u) < FP(r) BY <2>1 DEF CursorInv, OrderInv
  <2>3. u < r \/ u = r BY <1>5, <1>6, <2>1
  <2> QED BY <1>5, <2>1, <2>2, <2>3, SlotTypes
<1>9. FP(u) \in 1..Len(log) BY <1>1, <1>5, <1>8
<1>10. instr[FP(u)].kind # "END" BY <1>7 DEF IInv, ResolutionInv
<1>11. PICK w \in DOMAIN worker : worker[w].pc = "store"
  BY <1>6, <1>9, <1>10 DEF GroupInv, HistoryInv, FinishedInv
<1>12. call.worker \in DOMAIN worker /\ worker[call.worker].pc = "wait"
  BY DEF CallbackInv, AnsweringInv
<1>13. ActiveWorkers = {w} /\ ActiveWorkers = {call.worker} BY <1>11, <1>12, OneActive DEF IInv
<1>14. w = call.worker BY <1>13
<1> QED BY <1>11, <1>12, <1>14

\* The steps of the running function that only move on, and the one that settles.
LEMMA CounterCallbacks ==
    ASSUME IInv, IInv', CursorInv, GroupInv, CallbackInv,
           PublishLoad \/ SweepEnd \/ SettleEnd \/ SettleTxn
    PROVE  CallbackInv'
<1>1. /\ UNCHANGED <<word, instr, position, nextResolution, blocks, unwrittenResolution,
                     nextTxnCallbacks, caller, worker, lock, ranIn>>
      /\ SameHistory
  BY DEF PublishLoad, SweepEnd, SettleEnd, SettleTxn, reserveVars, batchVars, settleVars,
         promiseVars, historyVars, SameHistory
<1>2. \A r \in Slots : FP(r)' = FP(r) /\ Carried(r)' = Carried(r)
  <2>1. CASE UNCHANGED resolution BY <2>1 DEF FP, Carried
  <2>2. CASE SettleTxn
    <3>1. ASSUME NEW r \in Slots
          PROVE  \E x : resolution'[r] = [resolution[r] EXCEPT !.settled = x] \/ resolution'[r] = resolution[r]
      BY <2>2 DEF SettleTxn
    <3>2. \A r \in Slots : resolution[r] \in Resolution BY PlaceTypes
    <3> QED BY <3>1, <3>2 DEF FP, Carried, Resolution
  <2> QED BY <2>1, <2>2 DEF PublishLoad, SweepEnd, SettleEnd
<1>3. SamePlaces /\ JsWorkers /\ JsWords BY <1>1, <1>2, SameWorkers DEF SamePlaces, JsWords
<1>4. \A r \in Reserved : Published(r)' => Published(r)
  BY <1>1, <1>2, ReservedTypes DEF Published
<1>5. /\ call'.status = call.status /\ call'.worker = call.worker /\ call'.res = call.res
      /\ call.pc = "publish" \/ call' = [call EXCEPT !.pc = "settle"] \/ call' = call
         \/ call' = [call EXCEPT !.pc = IF call.res = 0 THEN "status" ELSE "promise"]
      /\ call \in Call
  BY DEF PublishLoad, SweepEnd, SettleEnd, SettleTxn, IInv, TypeOK, TypeCall, Call
<1>6. Answering => /\ call.res = 0 /\ call.pc \in {"sweep", "settle", "status"} /\ call.pc # "publish"
  BY DEF CallbackInv, AnsweringInv
<1>7. Answering => call'.pc \in {"sweep", "settle", "status"} BY <1>5, <1>6 DEF Call
<1>8. caller'.status # 2 /\ (Answering' <=> Answering) BY <1>1, <1>5 DEF CallbackInv, AnsweringInv, Answering
<1>9. /\ LockInv' /\ AnsweringInv'
      /\ \A v \in DOMAIN worker : Unanswered(v) => Unanswered(v)'
  BY <1>1, <1>3, <1>5, <1>7, <1>8, KeepAnswers
<1>10. Swept' => \A c \in 1..Len(log) : Due(c) => c \in nextTxnCallbacks
  <2> SUFFICES ASSUME Swept', NEW c \in 1..Len(log), Due(c) PROVE c \in nextTxnCallbacks OBVIOUS
  <2>1. Answering BY <1>8 DEF Swept
  <2>2. CASE SweepEnd
    <3>1. FINISHED_OPERATION \notin word[FP(unwrittenResolution)] BY <2>2 DEF SweepEnd, FP
    <3> QED BY <2>1, <3>1, SweptCallbacks
  <2>3. CASE PublishLoad BY <1>6, <2>1, <2>3 DEF PublishLoad
  <2>4. CASE SettleEnd \/ SettleTxn
    <3>1. Swept BY <2>1, <2>4 DEF SettleEnd, SettleTxn, Swept
    <3> QED BY <3>1 DEF CallbackInv, EffectInv
  <2> QED BY <2>2, <2>3, <2>4
<1> QED BY <1>1, <1>2, <1>3, <1>4, <1>9, <1>10, KeepCallbacks

\* The status of the calls that are no answer.
LEMMA CallStatus ==
    /\ Idle.status = 0
    /\ \A r : WriteCall(r).status = 0
    /\ \A w, status : CallbackCall(w, status).status = status
BY DEF Idle, WriteCall, CallbackCall

\* Starting a worker leaves the others alone.
LEMMA OldWorkers ==
    ASSUME IInv, NEW e, worker' = Append(worker, e)
    PROVE  \A v \in DOMAIN worker : worker'[v] = worker[v]
<1>1. worker \in Seq(Worker) /\ Len(worker) \in Nat /\ DOMAIN worker = 1..Len(worker) BY EndTypes DEF IInv, TypeOK, TypeWorker
<1> QED BY <1>1

\* A closure answers nobody.
LEMMA ClosureAnswers ==
    ASSUME CallbackInv, call.pc \notin {"sweep", "settle", "status"}
    PROVE  ~Answering
BY DEF CallbackInv, AnsweringInv

\* The task that starts a worker.
LEMMA StartCallbacks ==
    ASSUME IInv, IInv', CursorInv, GroupInv, CallbackInv, RunEnqueuedCommit
    PROVE  CallbackInv'
<1>1. /\ UNCHANGED <<word, instr, position, nextResolution, blocks, resolution, call, caller,
                     unwrittenResolution, nextTxnCallbacks, lock, ranIn>>
      /\ SameHistory /\ enqueuedCommit
      /\ worker' = Append(worker, NewWorker(startAddress, flushResolvers))
      /\ call.pc = "idle"
  BY DEF RunEnqueuedCommit, StartWriting, EventLoopIdle, reserveVars, batchVars, promiseVars,
         settleVars, historyVars, SameHistory
<1>2. JsWorkers
  <2>1. ActiveWorkers = {} BY <1>1, PendingAddress DEF IInv, FrontierInv
  <2> QED BY <1>1, <2>1, StartedWorker
<1>3. SamePlaces /\ JsWords /\ \A r \in Slots : Carried(r)' = Carried(r) BY <1>1 DEF SamePlaces, FP, JsWords, Carried
<1>4. ~Answering BY <1>1, ClosureAnswers
<1>5. ~Answering' /\ caller'.status # 2 BY <1>1, <1>4 DEF Answering, CallbackInv, AnsweringInv
<1>6. \A v \in DOMAIN worker : worker'[v] = worker[v] BY <1>1, OldWorkers
<1>7. /\ LockInv' /\ AnsweringInv'
      /\ \A v \in DOMAIN worker : Unanswered(v) => Unanswered(v)'
  BY <1>1, <1>2, <1>4, <1>5, <1>6, KeepAnswers
<1>8. \A r \in Reserved : Published(r)' => Published(r) BY <1>1 DEF Published, FP
<1> QED BY <1>1, <1>2, <1>3, <1>5, <1>7, <1>8, KeepCallbacks DEF Swept

\* The closure picks its promise and returns.
LEMMA AssignCallbacks ==
    ASSUME IInv, IInv', CursorInv, GroupInv, CallbackInv, AssignPromise
    PROVE  CallbackInv'
<1>1. /\ UNCHANGED <<word, instr, position, nextResolution, blocks,
                     unwrittenResolution, nextTxnCallbacks, worker, lock, ranIn>>
      /\ SameHistory /\ call.pc = "promise" /\ call' = caller /\ caller' = Idle
  BY DEF AssignPromise, reserveVars, batchVars, settleVars, historyVars, SameHistory
<1>2. \A q \in Slots : FP(q)' = FP(q) /\ Carried(q)' = Carried(q)
  <2>1. PICK r \in Slots : r = call.res
    <3>1. call.res \in Reserved BY <1>1 DEF IInv, CallInv
    <3> QED BY <3>1, ReservedTypes
  <2>2. PICK x, y : resolution' = [resolution EXCEPT ![r].promise = x, ![r].flush = y]
    BY <2>1 DEF AssignPromise
  <2>3. \A q \in Slots : resolution[q] \in Resolution BY PlaceTypes
  <2> DEFINE e == [resolution[r] EXCEPT !.promise = x, !.flush = y]
  <2>4. resolution' = [resolution EXCEPT ![r] = e] BY <2>2
  <2>5. e.flagPosition = resolution[r].flagPosition /\ e.callbacks = resolution[r].callbacks
    BY <2>3 DEF Resolution
  <2> HIDE DEF e
  <2>6. resolution'[r] = e /\ \A q \in Slots : q # r => resolution'[q] = resolution[q]
    BY <2>4 DEF IInv, TypeOK, TypeReserve
  <2> QED BY <2>5, <2>6 DEF FP, Carried
<1>3. SamePlaces /\ JsWords /\ JsWorkers BY <1>1, <1>2, SameWorkers DEF SamePlaces, JsWords
<1>4. ~Answering BY <1>1, ClosureAnswers
<1>5. ~Answering' /\ caller'.status # 2
  BY <1>1, CallStatus DEF Answering, CallbackInv, AnsweringInv
<1>6. /\ LockInv' /\ AnsweringInv'
      /\ \A v \in DOMAIN worker : Unanswered(v) => Unanswered(v)'
  BY <1>1, <1>3, <1>4, <1>5, KeepAnswers
<1>7. \A r \in Reserved : Published(r)' => Published(r) BY <1>1, <1>2, ReservedTypes DEF Published
<1> QED BY <1>1, <1>2, <1>3, <1>5, <1>6, <1>7, KeepCallbacks DEF Swept

\* What a closure notes.
LEMMA NoteCallbacks ==
    ASSUME IInv, IInv', CursorInv, GroupInv, CallbackInv, NEW seen, call.pc \in {"publish", "note"},
           NoteWrite(call.res, seen), JsWords, TXN_DELIMITER \in seen => OpenDelimiters # {},
           \A r \in Reserved : Published(r)' /\ ~Published(r) => Publishing /\ r = call.res
    PROVE  CallbackInv'
<1>1. /\ UNCHANGED <<unwrittenResolution, nextTxnCallbacks, caller, lock, ranIn>>
      /\ call'.status = call.status
      /\ UNCHANGED worker \/ \E e : worker' = Append(worker, e)
  BY DEF NoteWrite, StartWriting, historyVars, IInv, TypeOK, TypeCall, Call
<1>2. JsWorkers /\ SamePlaces /\ SameHistory BY NoteKeeps
<1>3. \A q \in Slots : Carried(q)' = Carried(q)
  <2>1. call.res \in Places BY CallPlace
  <2>2. CASE TXN_DELIMITER \in seen
    <3>1. QueueCommitResolution(call.res) BY <2>2, NoteKeeps
    <3> QED BY <2>1, <3>1, LinkEffect DEF Carried
  <2>3. CASE TXN_DELIMITER \notin seen
    <3>1. UNCHANGED resolution BY <2>3, NoteKeeps
    <3> QED BY <3>1 DEF Carried
  <2> QED BY <2>2, <2>3
<1>4. ~Answering BY ClosureAnswers
<1>5. ~Answering' /\ caller'.status # 2 BY <1>1, <1>4 DEF Answering, CallbackInv, AnsweringInv
<1>6. \A v \in DOMAIN worker : worker'[v] = worker[v] BY <1>1, OldWorkers
<1>7. /\ LockInv' /\ AnsweringInv'
      /\ \A v \in DOMAIN worker : Unanswered(v) => Unanswered(v)'
  BY <1>1, <1>2, <1>4, <1>5, <1>6, KeepAnswers
<1>8. ASSUME NEW r \in Reserved, Published(r)' /\ ~Published(r), NEW s \in Slots, s = FP(r) + 1, s < position
      PROVE  OP \in word[s]
  <2>1. Publishing /\ r = call.res BY <1>8
  <2>2. FP(r) < s BY <1>8, ReservedTypes
  <2> QED BY <1>8, <2>1, <2>2, PublishedNext
<1> QED BY <1>1, <1>2, <1>3, <1>5, <1>7, <1>8, KeepCallbacks DEF Swept

\* A closure publishes its slot, with an atomic or with a plain store.
LEMMA PublishCallbacks ==
    ASSUME IInv, IInv', CursorInv, GroupInv, CallbackInv, PublishAtomic \/ NotePlainWrite
    PROVE  CallbackInv'
<1>1. CASE PublishAtomic
  <2> DEFINE k == FP(call.res)
             seen == word[k]
  <2>1. /\ call.pc = "publish" /\ NoteWrite(call.res, seen)
        /\ word' = [word EXCEPT ![k] = seen \cup {OP}]
    BY <1>1 DEF PublishAtomic, CallSlot, FP
  <2>2. Publishing BY <2>1 DEF Publishing
  <2>3. k \in Slots /\ OP \notin seen /\ call.res \in Reserved
    BY <2>2, CallReserved, Unpublished DEF IInv, CallInv, Publishing
  <2>4. word'[k] = seen \cup {OP} /\ \A s \in Slots : s # k => word'[s] = word[s]
    BY <2>1, <2>3 DEF IInv, TypeOK, TypeWord
  <2>5. JsWords BY <2>4 DEF JsWords
  <2>6. TXN_DELIMITER \in seen => OpenDelimiters # {} BY <2>3 DEF OpenDelimiters
  <2> HIDE DEF seen
  <2>7. JsWorkers /\ SamePlaces BY <2>1, <2>6, NoteKeeps
  <2>8. ASSUME NEW r \in Reserved, Published(r)', ~Published(r) PROVE r = call.res
    <3>1. r \in Slots /\ FP(r) \in Slots /\ FP(r)' = FP(r) BY <2>7, ReservedTypes DEF SamePlaces
    <3>2. FP(r) = k BY <2>4, <2>8, <3>1 DEF Published
    <3> QED BY <2>3, <2>8, <3>2 DEF IInv, ResolutionInv
  <2> QED BY <2>1, <2>2, <2>5, <2>6, <2>8, NoteCallbacks
<1>2. CASE NotePlainWrite
  <2>1. call.pc = "note" /\ NoteWrite(call.res, call.seen) /\ UNCHANGED word
    BY <1>2 DEF NotePlainWrite
  <2>2. TXN_DELIMITER \notin call.seen BY <2>1 DEF IInv, CallInv
  <2>3. JsWords BY <2>1 DEF JsWords
  <2>4. JsWorkers /\ SamePlaces BY <2>1, <2>2, NoteKeeps
  <2>5. \A r \in Reserved : Published(r)' => Published(r)
    BY <2>1, <2>4, ReservedTypes DEF Published, SamePlaces
  <2> QED BY <2>1, <2>2, <2>3, <2>5, NoteCallbacks
<1> QED BY <1>1, <1>2

LEMMA StoreCallbacks ==
    ASSUME IInv, IInv', CursorInv, GroupInv, CallbackInv, PublishStore
    PROVE  CallbackInv'
<1> DEFINE noted == [call EXCEPT !.pc = "note"]
           k == FP(call.res)
<1>1. /\ call.pc = "store" /\ word' = [word EXCEPT ![k] = {OP}]
      /\ UNCHANGED <<instr, position, nextResolution, blocks, resolution, unwrittenResolution,
                     nextTxnCallbacks, worker, lock, ranIn>>
      /\ SameHistory
      /\ \/ call' = noted /\ caller' = caller
         \/ call' = WriteCall(writeBatchStart) /\ caller' = noted
  BY DEF PublishStore, CallSlot, FP, reserveVars, batchVars, promiseVars, settleVars, historyVars,
         SameHistory
<1>2. Publishing BY <1>1 DEF Publishing
<1>3. k \in Slots /\ OP \notin word[k] /\ call.res \in Reserved
  BY <1>2, CallReserved, Unpublished DEF IInv, CallInv, Publishing
<1>4. word'[k] = {OP} /\ \A s \in Slots : s # k => word'[s] = word[s]
  BY <1>1, <1>3 DEF IInv, TypeOK, TypeWord
<1>5. SamePlaces /\ JsWords /\ JsWorkers /\ \A r \in Slots : Carried(r)' = Carried(r)
  BY <1>1, <1>3, <1>4, SameWorkers DEF SamePlaces, FP, JsWords, Carried
<1>6. ~Answering BY <1>1, ClosureAnswers
<1>7. ~Answering' /\ caller'.status # 2
  <2>1. noted.status = call.status BY DEF IInv, TypeOK, TypeCall, Call
  <2>2. call.status # 2 /\ caller.status # 2 BY <1>6 DEF Answering, CallbackInv, AnsweringInv
  <2> HIDE DEF noted
  <2>3. caller'.status # 2 /\ call'.status # 2 BY <1>1, <2>1, <2>2, CallStatus
  <2> QED BY <2>3 DEF Answering
<1>8. /\ LockInv' /\ AnsweringInv'
      /\ \A v \in DOMAIN worker : Unanswered(v) => Unanswered(v)'
  BY <1>1, <1>5, <1>6, <1>7, KeepAnswers
<1>9. ASSUME NEW r \in Reserved, Published(r)' /\ ~Published(r), NEW s \in Slots, s = FP(r) + 1, s < position
      PROVE  OP \in word[s]
  <2>1. r \in Slots /\ FP(r) \in Slots /\ FP(r)' = FP(r) BY <1>5, ReservedTypes DEF SamePlaces
  <2>2. FP(r) = k BY <1>4, <1>9, <2>1 DEF Published
  <2>3. r = call.res BY <1>3, <2>2 DEF IInv, ResolutionInv
  <2>4. FP(r) < s BY <1>9, ReservedTypes
  <2> QED BY <1>2, <1>9, <2>3, <2>4, PublishedNext
<1> QED BY <1>1, <1>5, <1>7, <1>8, <1>9, KeepCallbacks DEF Swept

\* The callbacks that take note of what a worker did.
LEMMA TaskCallbacks ==
    ASSUME IInv, IInv', CursorInv, GroupInv, CallbackInv, NEW w \in DOMAIN worker,
           CommitProgress(w) \/ CallbackProgress(w) \/ Complete(w)
    PROVE  CallbackInv'
<1>1. worker[w] \in Worker /\ w \in Nat /\ 1 <= w BY WorkerTypes, EndTypes DEF IInv
<1>2. ASSUME NEW e, worker' = [worker EXCEPT ![w] = e]
      PROVE  worker'[w] = e /\ \A v \in DOMAIN worker : v # w => worker'[v] = worker[v]
  BY <1>2 DEF IInv, TypeOK, TypeWorker
<1>3. ASSUME NEW status, Callback(w, status)
      PROVE  /\ UNCHANGED <<word, unwrittenResolution, nextTxnCallbacks, caller, ranIn>>
             /\ SamePlaces /\ SameHistory /\ JsWords /\ \A r \in Slots : Carried(r)' = Carried(r)
             /\ call' = CallbackCall(w, status) /\ ~Answering
             /\ \A r \in Reserved : Published(r)' => Published(r)
  <2>1. /\ UNCHANGED <<word, instr, position, nextResolution, blocks, unwrittenResolution,
                       nextTxnCallbacks, caller, ranIn>>
        /\ SameHistory /\ call.pc = "idle" /\ call' = CallbackCall(w, status)
        /\ IF TXN_DELIMITER \in word[position] THEN QueueCommitResolution(nextResolution)
           ELSE UNCHANGED <<resolution, txnResolution>>
    BY <1>3 DEF Callback, EventLoopIdle, reserveVars, batchVars, promiseVars, historyVars, SameHistory
  <2>2. \A r \in Slots : FP(r)' = FP(r) /\ Carried(r)' = Carried(r)
    <3>1. nextResolution \in Places
      <4>1. nextResolution \in Nat /\ 1 <= nextResolution /\ nextResolution <= nextResolution BY SlotTypes
      <4> QED BY <4>1, PlaceTypes
    <3>2. CASE QueueCommitResolution(nextResolution) BY <3>1, <3>2, LinkEffect DEF Carried
    <3>3. CASE UNCHANGED resolution BY <3>3 DEF FP, Carried
    <3> QED BY <2>1, <3>2, <3>3
  <2>3. SamePlaces /\ JsWords BY <2>1, <2>2 DEF SamePlaces, JsWords
  <2>4. \A r \in Reserved : Published(r)' => Published(r) BY <2>1, <2>2, ReservedTypes DEF Published
  <2>5. ~Answering BY <2>1, ClosureAnswers
  <2> QED BY <2>1, <2>2, <2>3, <2>4, <2>5
<1>4. ASSUME NEW e, worker' = [worker EXCEPT ![w] = e], Noted(e, worker[w]),
             e.finishedProgress = worker[w].finishedProgress, UNCHANGED lock,
             NEW status, Callback(w, status), status # 2
      PROVE  CallbackInv'
  <2>1. JsWorkers BY <1>4, NotedWorker
  <2>2. ~Answering /\ ~Answering' BY <1>3, <1>4, CallStatus DEF Answering
  <2>3. \A v \in DOMAIN worker : worker'[v].finishedProgress = worker[v].finishedProgress BY <1>2, <1>4
  <2>4. caller'.status # 2 BY <1>3, <1>4 DEF CallbackInv, AnsweringInv
  <2>5. /\ LockInv' /\ AnsweringInv'
        /\ \A v \in DOMAIN worker : Unanswered(v) => Unanswered(v)'
    BY <1>4, <2>1, <2>2, <2>3, <2>4, KeepAnswers
  <2> QED BY <1>3, <1>4, <2>1, <2>2, <2>5, KeepCallbacks DEF Swept
<1>5. CASE CommitProgress(w)
  <2> DEFINE e == [worker[w] EXCEPT !.progress = FALSE]
  <2>1. worker' = [worker EXCEPT ![w] = e] /\ Callback(w, 1) /\ UNCHANGED lock
    BY <1>5 DEF CommitProgress, ProgressCommitted
  <2>2. Noted(e, worker[w]) /\ e.finishedProgress = worker[w].finishedProgress
    BY <1>1 DEF Noted, SameEnd, Worker
  <2> HIDE DEF e
  <2>3. 1 # 2 OBVIOUS
  <2> QED BY <1>4, <2>1, <2>2, <2>3
<1>6. CASE Complete(w)
  <2> DEFINE e == [worker[w] EXCEPT !.pc = "gone", !.progress = FALSE]
  <2>1. /\ worker' = [worker EXCEPT ![w] = e] /\ Callback(w, CompletionStatus(w)) /\ worker[w].pc = "done"
        /\ UNCHANGED lock
    BY <1>6 DEF Complete
  <2>2. Noted(e, worker[w]) /\ e.finishedProgress = worker[w].finishedProgress
    BY <1>1, <2>1 DEF Noted, SameEnd, Worker
  <2> HIDE DEF e
  <2>3. CompletionStatus(w) # 2 BY DEF CompletionStatus
  <2> QED BY <1>4, <2>1, <2>2, <2>3
<1>7. CASE CallbackProgress(w)
  <2> DEFINE e == [worker[w] EXCEPT !.finishedProgress = TRUE]
  <2>1. /\ worker' = [worker EXCEPT ![w] = e] /\ Callback(w, 2) /\ worker[w].pc = "wait" /\ lock = Free
        /\ lock' = Js
    BY <1>7 DEF CallbackProgress
  <2>2. Noted(e, worker[w]) /\ e.finishedProgress /\ e.pc = "wait" BY <1>1, <2>1 DEF Noted, SameEnd, Worker
  <2> HIDE DEF e
  <2>3. JsWorkers BY <2>1, <2>2, NotedWorker
  <2>4. call'.status = 2 /\ call'.pc = "sweep" /\ call'.res = 0 /\ call'.worker = w
    BY <1>1, <1>3, <2>1, CallStatus, CallbackCallRecord
  <2>5. LockInv'
    <3> SUFFICES ASSUME NEW v \in DOMAIN worker', HasLock(v)' PROVE FALSE BY DEF LockInv
    <3>1. v \in DOMAIN worker /\ HasLock(v) BY <2>3 DEF JsWorkers, Noted, HasLock
    <3>2. lock = v BY <3>1 DEF CallbackInv, LockInv
    <3> QED BY <2>1, <3>1, <3>2, EndTypes DEF Free
  <2>6. AnsweringInv'
    <3>1. w \in DOMAIN worker' /\ worker'[w].pc = "wait" /\ worker'[w].finishedProgress
      BY <1>2, <2>1, <2>2, <2>3 DEF JsWorkers
    <3>2. caller'.status # 2 BY <1>3, <2>1 DEF CallbackInv, AnsweringInv
    <3> QED BY <2>1, <2>4, <3>1, <3>2 DEF AnsweringInv, Answering
  <2>7. \A v \in DOMAIN worker : Unanswered(v) => Unanswered(v)'
    <3>1. \A v \in DOMAIN worker : v # w => worker'[v].finishedProgress = worker[v].finishedProgress
      BY <1>2, <2>1
    <3>2. ~Answering BY <1>3, <2>1
    <3> QED BY <2>4, <3>1, <3>2 DEF Unanswered, Answering
  <2>8. ~Swept' BY <2>4 DEF Swept
  <2> QED BY <1>3, <2>1, <2>3, <2>5, <2>6, <2>7, <2>8, KeepCallbacks
<1> QED BY <1>5, <1>6, <1>7

\* resolveWrites collects the callback of the oldest resolution it did not read yet.
LEMMA SweepCallbacks ==
    ASSUME IInv, IInv', CursorInv, GroupInv, CallbackInv, SweepNext
    PROVE  CallbackInv'
<1> DEFINE r == unwrittenResolution
           status == word[FP(r)]
           let == LetGo(r)
           e == [resolution[r] EXCEPT !.callbacks = 0, !.flag = status, !.released = let]
<1>1. /\ call.pc = "sweep" /\ FINISHED_OPERATION \in status /\ unwrittenResolution' = r + 1
      /\ UNCHANGED <<word, instr, position, nextResolution, call, caller, worker, lock, ranIn,
                     txnOf, result, log>>
      /\ resolution' = [resolution EXCEPT ![r] = e]
      /\ nextTxnCallbacks' = nextTxnCallbacks \cup ({Carried(r)} \ {0})
  BY DEF SweepNext, reserveVars, historyVars, FP, Carried
<1>2. r \in Slots /\ r \in Nat /\ FP(r) \in Slots /\ FP(r) \in Nat /\ 1 <= FP(r) /\ resolution[r] \in Resolution
  <2>1. r \in Slots BY DEF IInv, TypeOK, TypeSettle
  <2>2. r \in Places BY <2>1, SlotTypes DEF Places
  <2> QED BY <2>1, <2>2, SlotTypes, PlaceTypes
<1>3. e.flagPosition = resolution[r].flagPosition /\ e.callbacks = 0 BY <1>2 DEF Resolution
<1> HIDE DEF e, let
<1>4. resolution'[r] = e /\ \A q \in Slots : q # r => resolution'[q] = resolution[q]
  BY <1>1, <1>2 DEF IInv, TypeOK, TypeReserve
<1>5. /\ \A q \in Slots : FP(q)' = FP(q) /\ (q # r => Carried(q)' = Carried(q))
      /\ \A q \in Slots : q = r => Carried(q)' = 0
      /\ Reserved' = Reserved /\ \A c : Waiting(c)' <=> Waiting(c)
  <2>1. \A q \in Slots : q # r => FP(q)' = FP(q) /\ Carried(q)' = Carried(q)
    BY <1>4 DEF FP, Carried
  <2>2. resolution'[r].flagPosition = resolution[r].flagPosition /\ resolution'[r].callbacks = 0
    BY <1>3, <1>4
  <2>3. \A q \in Slots : q = r => FP(q)' = FP(q) /\ Carried(q)' = 0 BY <2>2 DEF FP, Carried
  <2>4. \A q \in Slots : FP(q)' = FP(q) BY <2>1, <2>3
  <2> QED BY <1>1, <2>1, <2>3, <2>4 DEF Reserved, Waiting
<1>6. FP(r) \in 1..Len(log) /\ Len(log) \in Nat /\ Frontier = Len(log) + 1
  <2>1. FP(r) <= Len(log) BY <1>1, <1>2 DEF CursorInv, ExecutedInv, FinishInv
  <2> QED BY <1>2, <2>1, SlotTypes
<1>7. ASSUME Carried(r) # 0
      PROVE  /\ Waiting(Carried(r)) /\ Carried(r) \in Nat
             /\ Carried(r) = FP(r) \/ Carried(r) = FP(r) + 1
             /\ Carried(r) <= Len(log) \/ (Carried(r) = Frontier /\ OP \in word[Carried(r)])
             /\ \A q \in Slots : Carried(q) = Carried(r) => q = r
  <2>1. CarriedBy(r) BY <1>2, <1>7 DEF CallbackInv, ListedCallbacks, HeldInv
  <2>2. Carried(r) \in Nat /\ (Carried(r) = FP(r) \/ Carried(r) = FP(r) + 1) BY <2>1, WaitingTypes DEF CarriedBy
  <2>3. Published(r) BY <1>6 DEF CursorInv, ExecutedInv, RunInv, Published
  <2>4. OP \in word[Carried(r)] BY <2>1, <2>3 DEF CarriedBy
  <2>5. Carried(r) <= Len(log) \/ Carried(r) = Frontier BY <1>2, <1>6, <2>2
  <2>6. \A q \in Slots : Carried(q) = Carried(r) => q = r
    BY <1>2, <1>7 DEF CallbackInv, ListedCallbacks, HeldInv
  <2> QED BY <2>1, <2>2, <2>4, <2>5, <2>6 DEF CarriedBy
<1>8. ListedCallbacks'
  <2>1. HeldInv'
    <3>1. ASSUME NEW q \in Slots, Carried(q)' # 0 PROVE CarriedBy(q)'
      <4>1. q # r BY <1>5, <3>1
      <4>2. Carried(q) = Carried(q)' /\ Carried(q) # 0 BY <1>5, <3>1, <4>1
      <4>3. CarriedBy(q) BY <4>2 DEF CallbackInv, ListedCallbacks, HeldInv
      <4>4. r + 1 <= q
        <5>1. r <= q BY <4>3 DEF CarriedBy
        <5> QED BY <1>2, <4>1, <5>1, SlotTypes
      <4>5. Carried(q) \notin nextTxnCallbacks'
        <5>1. Carried(q) # Carried(r) BY <1>2, <4>1, <4>2 DEF CallbackInv, ListedCallbacks, HeldInv
        <5> QED BY <1>1, <4>3, <5>1 DEF CarriedBy
      <4>6. Published(q)' <=> Published(q) BY <1>1, <1>5 DEF Published
      <4> QED BY <1>1, <1>5, <4>2, <4>3, <4>4, <4>5, <4>6 DEF CarriedBy
    <3>2. ASSUME NEW q \in Slots, NEW p \in Slots, Carried(q)' # 0, Carried(q)' = Carried(p)' PROVE q = p
      <4>1. q # r /\ p # r BY <1>5, <3>2
      <4>2. Carried(q) # 0 /\ Carried(q) = Carried(p) BY <1>5, <3>2, <4>1
      <4> QED BY <4>2 DEF CallbackInv, ListedCallbacks, HeldInv
    <3> QED BY <3>1, <3>2 DEF HeldInv
  <2>2. CollectedInv'
    <3>1. ASSUME NEW c \in nextTxnCallbacks'
          PROVE  Waiting(c) /\ (c <= Len(log) \/ (c = Frontier /\ OP \in word[c]))
      <4>1. c \in nextTxnCallbacks \/ (c = Carried(r) /\ c # 0) BY <1>1
      <4>2. CASE c \in nextTxnCallbacks BY <4>2 DEF CallbackInv, ListedCallbacks, CollectedInv
      <4>3. CASE c = Carried(r) /\ c # 0 BY <1>7, <4>3
      <4> QED BY <4>1, <4>2, <4>3
    <3>2. Frontier' = Frontier BY <1>1 DEF Frontier
    <3> QED BY <1>1, <1>5, <3>1, <3>2 DEF CollectedInv
  <2>3. KeptInv'
    <3> SUFFICES ASSUME NEW c \in 1..(position - 1), Waiting(c)
                 PROVE  c \in nextTxnCallbacks' \/ \E q \in Slots : Carried(q)' = c
      BY <1>1, <1>5 DEF KeptInv
    <3>1. c # 0 BY WaitingTypes
    <3>2. c \in nextTxnCallbacks \/ \E q \in Slots : Carried(q) = c
      BY DEF CallbackInv, ListedCallbacks, KeptInv
    <3>3. CASE c \in nextTxnCallbacks \/ c = Carried(r) BY <1>1, <3>1, <3>3
    <3>4. CASE c # Carried(r) /\ \E q \in Slots : Carried(q) = c BY <1>5, <3>4
    <3> QED BY <3>2, <3>3, <3>4
  <2> QED BY <2>1, <2>2, <2>3 DEF ListedCallbacks
<1>9. WaitInv'
  <2> SUFFICES ASSUME NEW v \in DOMAIN worker, worker[v].pc = "wait"
               PROVE  /\ \A c \in nextTxnCallbacks' : c <= Len(log)
                      /\ \A q \in Slots : Carried(q)' # 0 /\ FP(q)' <= Len(log) => Carried(q)' <= Len(log)
    BY <1>1 DEF WaitInv
  <2>1. /\ \A c \in nextTxnCallbacks : c <= Len(log)
        /\ \A q \in Slots : Carried(q) # 0 /\ FP(q) <= Len(log) => Carried(q) <= Len(log)
    BY DEF CallbackInv, WaitInv
  <2>2. Carried(r) # 0 => Carried(r) <= Len(log) BY <1>2, <1>6, <2>1
  <2>3. \A q \in Slots : q = r => Carried(q)' = 0
    <3> TAKE q \in Slots
    <3> HAVE q = r
    <3>1. resolution'[r].callbacks = 0 BY <1>3, <1>4
    <3> QED BY <3>1 DEF Carried
  <2> QED BY <1>1, <1>5, <2>1, <2>2, <2>3
<1>10. LockInv' /\ AnsweringInv'
  BY <1>1 DEF LockInv, HasLock, AnsweringInv, Answering, CallbackInv
<1>11. EffectInv'
  <2>1. ~Swept' /\ Ended' = Ended BY <1>1 DEF Swept, Ended
  <2>2. \A v : Unanswered(v)' <=> Unanswered(v) BY <1>1 DEF Unanswered, Answering
  <2> SUFFICES ASSUME NEW c \in 1..Len(log), Due(c)
               PROVE  txnOf[c] \notin Ended' /\ Unanswered(txnOf[c])'
    BY <1>1, <2>1 DEF EffectInv, Due
  <2>3. Unanswered(txnOf[c])' <=> Unanswered(txnOf[c]) BY <1>1 DEF Unanswered, Answering
  <2> QED BY <2>1, <2>3 DEF CallbackInv, EffectInv
<1>12. RanInv' BY <1>1 DEF RanInv, CallbackInv
<1> QED BY <1>8, <1>9, <1>10, <1>11, <1>12 DEF CallbackInv

\* The callbacks run, in the transaction of the worker that waits for them.
LEMMA EndCallbacks ==
    ASSUME IInv, IInv', CursorInv, GroupInv, CallbackInv, EndCallback
    PROVE  CallbackInv'
<1>1. /\ UNCHANGED <<word, instr, position, nextResolution, blocks, resolution, unwrittenResolution,
                     caller, worker>>
      /\ SameHistory /\ call.pc = "status" /\ call' = Idle
      /\ ranIn' = [s \in 1..MaxSlots |->
                     IF Answering /\ s \in nextTxnCallbacks THEN call.worker ELSE ranIn[s]]
      /\ nextTxnCallbacks' = IF Answering THEN {} ELSE nextTxnCallbacks
      /\ lock' = IF Answering THEN Free ELSE lock
  BY DEF EndCallback, reserveVars, batchVars, promiseVars, SameHistory, Answering
<1>2. ~Answering' BY <1>1, CallStatus DEF Answering
<1>3. /\ \A r : Carried(r)' = Carried(r) /\ FP(r)' = FP(r)
      /\ Reserved' = Reserved
  BY <1>1 DEF Carried, FP, Reserved
<1>4. SamePlaces /\ JsWords /\ JsWorkers BY <1>1, SameWorkers DEF SamePlaces, FP, JsWords
<1>5. CASE ~Answering
  <2>1. ranIn' = ranIn
    <3>1. ranIn \in [1..MaxSlots -> Nat] BY DEF IInv, TypeOK, TypeHistory
    <3> QED BY <1>1, <1>5, <3>1
  <2>2. UNCHANGED <<nextTxnCallbacks, lock>> /\ caller'.status # 2
    BY <1>1, <1>5 DEF CallbackInv, AnsweringInv
  <2>3. /\ LockInv' /\ AnsweringInv'
        /\ \A v \in DOMAIN worker : Unanswered(v) => Unanswered(v)'
    BY <1>1, <1>2, <1>4, <1>5, <2>2, KeepAnswers
  <2>4. \A r \in Reserved : Published(r)' => Published(r) BY <1>1, <1>3 DEF Published
  <2> QED BY <1>1, <1>2, <1>3, <1>4, <2>1, <2>2, <2>3, <2>4, KeepCallbacks DEF Swept
<1>6. CASE Answering
  <2>1. /\ call.worker \in DOMAIN worker /\ worker[call.worker].pc = "wait" /\ lock = Js
        /\ caller.status # 2
    BY <1>6 DEF CallbackInv, AnsweringInv
  <2>2. call.worker # 0 /\ call.worker = Len(worker)
    <3>1. call.worker \notin Ended BY <2>1, EndTypes DEF ClosedPc
    <3>2. call.worker = Len(worker) BY <2>1, <3>1 DEF GroupInv, HistoryInv, TxnInv, LastInv
    <3> QED BY <2>1, <3>2, EndTypes
  <2>3. /\ \A c \in 1..MaxSlots : ranIn'[c] = IF c \in nextTxnCallbacks THEN call.worker ELSE ranIn[c]
        /\ nextTxnCallbacks' = {} /\ lock' = Free
    BY <1>1, <1>6
  <2>4. \A c : Waiting(c) => c \in 1..MaxSlots BY WaitingTypes
  <2>5. \A c : Waiting(c)' => Waiting(c) /\ c \notin nextTxnCallbacks
    <3> TAKE c
    <3> HAVE Waiting(c)'
    <3>1. c \in 1..(position - 1) /\ instr[c].kind = "CALL" /\ ranIn'[c] = 0 BY <1>1 DEF Waiting
    <3>2. c \in 1..MaxSlots
      <4>1. c \in Nat /\ 1 <= c /\ c < position /\ position \in Nat /\ position <= MaxSlots + 1 /\ MaxSlots \in Nat
        BY <3>1, PositionTypes, SlotTypes
      <4> QED BY <4>1
    <3> QED BY <2>2, <2>3, <3>1, <3>2 DEF Waiting
  <2>6. \A c : Waiting(c) /\ c \notin nextTxnCallbacks => Waiting(c)'
    <3> TAKE c
    <3> HAVE Waiting(c) /\ c \notin nextTxnCallbacks
    <3>1. ranIn'[c] = ranIn[c] BY <2>3, <2>4
    <3> QED BY <1>1, <3>1 DEF Waiting
  <2>7. ListedCallbacks'
    <3>1. HeldInv'
      <4>1. ASSUME NEW r \in Slots, Carried(r) # 0 PROVE CarriedBy(r)'
        <5>1. CarriedBy(r) BY <4>1 DEF CallbackInv, ListedCallbacks, HeldInv
        <5>2. Published(r)' <=> Published(r) BY <1>1, <1>3 DEF Published
        <5>3. PICK c : c = Carried(r) OBVIOUS
        <5>4. Waiting(c) /\ c \notin nextTxnCallbacks BY <5>1, <5>3 DEF CarriedBy
        <5>5. Waiting(c)' BY <2>6, <5>4
        <5>6. Waiting(Carried(r))' <=> Waiting(c)' BY <1>3, <5>3 DEF Waiting
        <5> QED BY <1>1, <1>3, <2>3, <5>1, <5>2, <5>5, <5>6 DEF CarriedBy
      <4> QED BY <1>3, <4>1 DEF HeldInv, CallbackInv, ListedCallbacks
    <3>2. CollectedInv' BY <2>3 DEF CollectedInv
    <3>3. KeptInv'
      <4> SUFFICES ASSUME NEW c \in 1..(position - 1), Waiting(c)' PROVE \E r \in Slots : Carried(r)' = c
        BY <1>1 DEF KeptInv
      <4>1. Waiting(c) /\ c \notin nextTxnCallbacks BY <2>5
      <4>2. \E r \in Slots : Carried(r) = c BY <4>1 DEF CallbackInv, ListedCallbacks, KeptInv
      <4> QED BY <1>3, <4>2
    <3> QED BY <3>1, <3>2, <3>3 DEF ListedCallbacks
  <2>8. /\ \A c \in nextTxnCallbacks : c <= Len(log)
        /\ \A r \in Slots : Carried(r) # 0 /\ FP(r) <= Len(log) => Carried(r) <= Len(log)
    BY <2>1 DEF CallbackInv, WaitInv
  <2>9. WaitInv'
    <3>1. \A r \in Slots : Carried(r)' # 0 /\ FP(r)' <= Len(log') => Carried(r)' <= Len(log')
      BY <1>1, <1>3, <2>8 DEF SameHistory
    <3>2. \A c \in nextTxnCallbacks' : c <= Len(log') BY <2>3
    <3> QED BY <3>1, <3>2 DEF WaitInv
  <2>10. LockInv'
    <3> SUFFICES ASSUME NEW v \in DOMAIN worker, HasLock(v) PROVE FALSE BY <1>1 DEF LockInv, HasLock
    <3>1. lock = v BY DEF CallbackInv, LockInv
    <3> QED BY <2>1, <3>1, EndTypes DEF Js
  <2>11. AnsweringInv'
    <3>1. lock' # Js BY <2>3 DEF Free, Js
    <3> QED BY <1>1, <1>2, <2>1, <3>1 DEF AnsweringInv
  <2>12. EffectInv'
    <3> SUFFICES ASSUME NEW c \in 1..Len(log), Due(c)' PROVE FALSE BY <1>1 DEF EffectInv, SameHistory
    <3>1. c \in 1..MaxSlots
      <4>1. Len(log) \in Nat /\ Len(log) <= MaxSlots /\ MaxSlots \in Nat BY SlotTypes
      <4> QED BY <4>1
    <3>2. Due(c) /\ c \notin nextTxnCallbacks
      BY <1>1, <2>2, <2>3, <3>1 DEF Due, SameHistory
    <3>3. Swept BY <1>1, <1>6 DEF Swept
    <3> QED BY <3>2, <3>3 DEF CallbackInv, EffectInv
  <2>13. RanInv'
    <3> SUFFICES ASSUME NEW c \in 1..MaxSlots, ranIn'[c] # 0
                 PROVE  c <= Len(log) /\ (result[c] => ranIn'[c] = txnOf[c])
      BY <1>1 DEF RanInv, SameHistory
    <3>1. CASE c \notin nextTxnCallbacks
      <4>1. ranIn'[c] = ranIn[c] BY <2>3, <3>1
      <4> QED BY <4>1 DEF CallbackInv, RanInv
    <3>2. CASE c \in nextTxnCallbacks
      <4>1. ranIn'[c] = Len(worker) /\ c <= Len(log) BY <2>2, <2>3, <2>8, <3>2
      <4>2. ASSUME result[c] PROVE txnOf[c] = Len(worker)
        <5>1. Waiting(c) BY <3>2 DEF CallbackInv, ListedCallbacks, CollectedInv
        <5>2. c \in 1..Len(log) BY <4>1, SlotTypes
        <5>3. Due(c) BY <4>2, <5>1 DEF Due, Waiting
        <5>4. txnOf[c] \notin Ended BY <5>2, <5>3 DEF CallbackInv, EffectInv
        <5>5. txnOf[c] \in DOMAIN worker BY <5>2 DEF GroupInv, HistoryInv, TxnInv, SpanInv
        <5> QED BY <5>4, <5>5 DEF GroupInv, HistoryInv, TxnInv, LastInv
      <4> QED BY <4>1, <4>2
    <3> QED BY <3>1, <3>2
  <2> QED BY <2>7, <2>9, <2>10, <2>11, <2>12, <2>13 DEF CallbackInv
<1> QED BY <1>5, <1>6

-----------------------------------------------------------------------------
(* Reservations: a slot is added behind everything that was executed. *)

\* A reservation adds at most the callback c0, on the resolution of its first slot.
Adds(c0) ==
    /\ UNCHANGED <<nextTxnCallbacks, ranIn, lock, caller>> /\ call.pc = "idle" /\ call'.status # 2
    /\ \A s \in Slots : s < position /\ OP \in word'[s] => OP \in word[s]
    /\ \A r \in Slots : IF r = nextResolution /\ c0 # 0 THEN Carried(r)' = c0 ELSE Carried(r)' = Carried(r)
    /\ \A s \in 1..(position' - 1) : s >= position /\ instr'[s].kind = "CALL" => s = c0
    /\ c0 # 0 =>
         /\ c0 \in 1..(position' - 1) /\ (c0 = position \/ c0 = position + 1) /\ instr'[c0].kind = "CALL"
         /\ \A n \in Slots : n = nextResolution => n \in Reserved' /\ FP(n)' = position
         /\ OP \notin word'[position]

LEMMA GrownCallbacks ==
    ASSUME IInv, IInv', CursorInv, GroupInv, CallbackInv, Grown, NEW c0 \in Nat, Adds(c0)
    PROVE  CallbackInv'
<1>1. /\ UNCHANGED <<nextTxnCallbacks, ranIn, lock, caller, worker, unwrittenResolution, txnOf, result, log>>
      /\ call.pc = "idle" /\ call'.status # 2 /\ position <= position'
      /\ \A s \in Slots : s < position => instr'[s] = instr[s]
      /\ \A s \in Slots : s < position /\ OP \in word'[s] => OP \in word[s]
      /\ \A s \in Slots : OP \in word[s] => OP \in word'[s]
  BY GrownPlaces DEF Adds, Grown, SameHistory
<1>2. PICK n \in Slots, p \in Nat :
        n = nextResolution /\ p = position /\ n \in Nat /\ p \in Slots /\ p > Len(log) /\ Len(log) \in Nat
  <2>1. Len(log) < position BY DEF IInv, FrontierInv
  <2> QED BY <2>1, SlotTypes, PositionTypes
<1>3. PICK e \in Nat : e = position' /\ p <= e BY <1>1, <1>2, GrownPlaces
<1>4. Carried(n) = 0 /\ \A r \in Slots : Carried(r) # 0 => r \in Reserved /\ r # n /\ CarriedBy(r)
  <2>1. \A r \in Slots : Carried(r) # 0 => CarriedBy(r) BY DEF CallbackInv, ListedCallbacks, HeldInv
  <2>2. \A r \in Reserved : r # n
    <3>1. \A r \in Reserved : r \in Nat /\ r < n BY <1>2, ReservedTypes
    <3> QED BY <1>2, <3>1
  <2> QED BY <2>1, <2>2 DEF CarriedBy
<1>5. /\ c0 # 0 => Carried(n)' = c0
      /\ c0 = 0 => Carried(n)' = 0
      /\ \A r \in Slots : r # n => Carried(r)' = Carried(r)
  BY <1>2, <1>4 DEF Adds
<1>6. ASSUME NEW c, Waiting(c) PROVE Waiting(c)' /\ c < p /\ c \in Nat /\ c \in Slots
  <2>1. c \in Slots /\ c \in Nat /\ 1 <= c /\ c < p BY <1>2, <1>6, WaitingTypes
  <2>2. c \in 1..(e - 1)
    <3>1. c < p /\ p <= e /\ p \in Nat /\ e \in Nat /\ c \in Nat /\ 1 <= c BY <1>2, <1>3, <2>1
    <3> QED BY <3>1
  <2>3. c \in 1..(position' - 1) BY <1>3, <2>2
  <2>4. instr'[c].kind = "CALL" /\ ranIn'[c] = 0 BY <1>1, <1>2, <1>6, <2>1 DEF Waiting
  <2> QED BY <2>1, <2>3, <2>4 DEF Waiting
<1>7. ASSUME c0 # 0
      PROVE  /\ Waiting(c0)' /\ c0 >= p /\ c0 \notin nextTxnCallbacks'
             /\ n \in Reserved' /\ FP(n)' = p /\ (c0 = p \/ c0 = p + 1) /\ OP \notin word'[p]
  <2>1. c0 \in 1..(position' - 1) /\ (c0 = p \/ c0 = p + 1) /\ instr'[c0].kind = "CALL"
    BY <1>2, <1>7 DEF Adds
  <2>2. c0 \in 1..MaxSlots
    <3>1. position' \in Slots BY DEF IInv, TypeOK, TypeReserve
    <3>2. e <= MaxSlots + 1 /\ MaxSlots \in Nat BY <1>3, <3>1, SlotTypes
    <3>3. c0 \in 1..(e - 1) BY <1>3, <2>1
    <3>4. e \in Nat BY <1>3
    <3>5. 1 <= c0 /\ c0 <= e - 1 BY <3>3, <3>4
    <3> QED BY <3>2, <3>4, <3>5
  <2>3. ranIn[c0] = 0
    <3>1. ~(c0 <= Len(log)) BY <1>2, <2>1
    <3> QED BY <2>2, <3>1 DEF CallbackInv, RanInv
  <2>4. c0 \notin nextTxnCallbacks
    <3>1. \A c \in nextTxnCallbacks : Waiting(c) BY DEF CallbackInv, ListedCallbacks, CollectedInv
    <3>2. \A c \in nextTxnCallbacks : c < p BY <1>6, <3>1
    <3>3. c0 >= p BY <1>2, <2>1
    <3> QED BY <1>2, <3>2, <3>3
  <2>5. n \in Reserved' /\ FP(n)' = p /\ OP \notin word'[p] BY <1>2, <1>7 DEF Adds
  <2>6. c0 >= p BY <1>2, <2>1
  <2> QED BY <1>1, <2>1, <2>3, <2>4, <2>5, <2>6 DEF Waiting
<1>8. ListedCallbacks'
  <2>1. HeldInv'
    <3>1. ASSUME NEW r \in Slots, Carried(r)' # 0 PROVE CarriedBy(r)'
      <4>1. CASE r = n
        <5>1. c0 # 0 /\ Carried(r)' = c0 BY <1>5, <3>1, <4>1
        <5>2. FP(r)' = p /\ r \in Reserved' BY <1>7, <4>1, <5>1
        <5>3. unwrittenResolution' <= r BY <1>1, <1>2, <4>1, SlotTypes
        <5>4. ~Published(r)' BY <1>7, <5>1, <5>2 DEF Published
        <5> QED BY <1>7, <5>1, <5>2, <5>3, <5>4 DEF CarriedBy
      <4>2. CASE r # n
        <5>1. Carried(r)' = Carried(r) /\ Carried(r) # 0 BY <1>5, <3>1, <4>2
        <5>2. CarriedBy(r) /\ r \in Reserved BY <1>4, <5>1
        <5>3. r \in Reserved' /\ FP(r)' = FP(r) /\ FP(r) \in Slots /\ FP(r) < position
          BY <5>2, GrownPlaces
        <5>4. Published(r)' => Published(r) BY <1>1, <5>3 DEF Published
        <5>5. PICK c : c = Carried(r) OBVIOUS
        <5>6. /\ Waiting(c) /\ unwrittenResolution <= r /\ c \notin nextTxnCallbacks
              /\ c = FP(r) \/ c = FP(r) + 1
              /\ Published(r) => OP \in word[c]
          BY <5>2, <5>5 DEF CarriedBy
        <5>7. Waiting(c)' /\ c \in Slots BY <1>6, <5>6
        <5>8. Published(r)' => OP \in word'[c] BY <1>1, <5>4, <5>6, <5>7
        <5>9. Carried(r)' = c BY <5>1, <5>5
        <5> QED BY <1>1, <5>3, <5>6, <5>7, <5>8, <5>9 DEF CarriedBy
      <4> QED BY <4>1, <4>2
    <3>2. ASSUME NEW r \in Slots, NEW q \in Slots, Carried(r)' # 0, Carried(r)' = Carried(q)' PROVE r = q
      <4>1. ASSUME NEW x \in Slots, x # n, Carried(x)' # 0, c0 # 0 PROVE Carried(x)' # c0
        <5>1. Carried(x)' = Carried(x) /\ CarriedBy(x) BY <1>4, <1>5, <4>1
        <5>2. Carried(x) < p /\ Carried(x) \in Nat BY <1>6, <5>1 DEF CarriedBy
        <5> QED BY <1>2, <1>7, <4>1, <5>1, <5>2
      <4>2. CASE r # n /\ q # n
        BY <1>5, <3>2, <4>2 DEF CallbackInv, ListedCallbacks, HeldInv
      <4>3. CASE r = n /\ q # n BY <1>5, <3>2, <4>1, <4>3
      <4>4. CASE r # n /\ q = n BY <1>5, <3>2, <4>1, <4>4
      <4> QED BY <4>2, <4>3, <4>4
    <3> QED BY <3>1, <3>2 DEF HeldInv
  <2>2. CollectedInv'
    <3>1. ASSUME NEW c \in nextTxnCallbacks
          PROVE  Waiting(c)' /\ (c <= Len(log) \/ (c = Frontier /\ OP \in word'[c]))
      <4>1. Waiting(c) /\ (c <= Len(log) \/ (c = Frontier /\ OP \in word[c]))
        BY DEF CallbackInv, ListedCallbacks, CollectedInv
      <4> QED BY <1>1, <1>6, <4>1
    <3>2. Frontier' = Frontier BY <1>1 DEF Frontier
    <3> QED BY <1>1, <3>1, <3>2 DEF CollectedInv
  <2>3. KeptInv'
    <3> SUFFICES ASSUME NEW c \in 1..(position' - 1), Waiting(c)'
                 PROVE  c \in nextTxnCallbacks' \/ \E r \in Slots : Carried(r)' = c
      BY DEF KeptInv
    <3>1. c \in Nat /\ c # 0 /\ 1 <= c BY <1>3
    <3>2. CASE c < p
      <4>1. c \in 1..(position - 1) /\ c \in Slots
        <5>1. c \in 1..(position - 1) BY <1>2, <3>1, <3>2
        <5> QED BY <5>1, PositionTypes
      <4>2. Waiting(c) BY <1>1, <1>2, <3>2, <4>1 DEF Waiting
      <4>3. c \in nextTxnCallbacks \/ \E r \in Slots : Carried(r) = c
        BY <4>1, <4>2 DEF CallbackInv, ListedCallbacks, KeptInv
      <4> QED BY <1>1, <1>4, <1>5, <3>1, <4>3
    <3>3. CASE c >= p
      <4>1. c = c0 BY <1>2, <3>3 DEF Adds, Waiting
      <4>2. Carried(n)' = c BY <1>5, <3>1, <4>1
      <4> QED BY <4>2
    <3> QED BY <1>2, <3>1, <3>2, <3>3
  <2> QED BY <2>1, <2>2, <2>3 DEF ListedCallbacks
<1>9. WaitInv'
  <2> SUFFICES ASSUME NEW w \in DOMAIN worker, worker[w].pc = "wait"
               PROVE  /\ \A c \in nextTxnCallbacks : c <= Len(log)
                      /\ \A r \in Slots : Carried(r)' # 0 /\ FP(r)' <= Len(log) => Carried(r)' <= Len(log)
    BY <1>1 DEF WaitInv
  <2>1. /\ \A c \in nextTxnCallbacks : c <= Len(log)
        /\ \A r \in Slots : Carried(r) # 0 /\ FP(r) <= Len(log) => Carried(r) <= Len(log)
    BY DEF CallbackInv, WaitInv
  <2>2. ASSUME NEW r \in Slots, Carried(r)' # 0, FP(r)' <= Len(log) PROVE Carried(r)' <= Len(log)
    <3>1. r # n
      <4> SUFFICES ASSUME r = n PROVE FALSE OBVIOUS
      <4>1. c0 # 0 BY <1>5, <2>2
      <4>2. FP(r)' = p BY <1>7, <4>1
      <4> QED BY <1>2, <2>2, <4>2
    <3>2. Carried(r)' = Carried(r) /\ r \in Reserved BY <1>4, <1>5, <2>2, <3>1
    <3>3. FP(r)' = FP(r) BY <3>2, GrownPlaces
    <3> QED BY <2>1, <2>2, <3>2, <3>3
  <2> QED BY <2>1, <2>2
<1>10. LockInv' BY <1>1 DEF CallbackInv, LockInv, HasLock
<1>11. ~Answering /\ ~Answering' /\ ~Swept'
  <2>1. ~Answering BY <1>1, ClosureAnswers
  <2> QED BY <1>1, <2>1 DEF Answering, Swept
<1>12. AnsweringInv' BY <1>1, <1>11 DEF CallbackInv, AnsweringInv
<1>13. EffectInv'
  <2> SUFFICES ASSUME NEW c \in 1..Len(log), Due(c)'
               PROVE  txnOf[c] \notin Ended' /\ Unanswered(txnOf[c])'
    BY <1>1, <1>11 DEF EffectInv
  <2>1. c \in Slots /\ c < position
    <3>1. c \in Nat /\ c < p BY <1>2
    <3> QED BY <1>2, <3>1, SlotTypes
  <2>2. Due(c) BY <1>1, <2>1 DEF Due
  <2>3. txnOf[c] \notin Ended /\ Unanswered(txnOf[c]) BY <2>2 DEF CallbackInv, EffectInv
  <2> QED BY <1>1, <1>11, <2>3 DEF Ended, Unanswered
<1>14. RanInv' BY <1>1 DEF CallbackInv, RanInv
<1> QED BY <1>8, <1>9, <1>10, <1>12, <1>13, <1>14 DEF CallbackInv

\* The end of a block adds no callback.
LEMMA FinishCallbacks ==
    ASSUME IInv, IInv', CursorInv, GroupInv, CallbackInv, EndEventTurn \/ EndIfVersion
    PROVE  CallbackInv'
<1>1. Grown /\ position' = position + 1 BY FinishCases
<1>2. /\ call.pc = "idle" /\ UNCHANGED <<nextTxnCallbacks, ranIn, lock, caller>>
      /\ \E d : FinishBatch(d)
      /\ call' = call \/ \E x : call' = WriteCall(x)
  BY DEF EndEventTurn, EndIfVersion, EventLoopIdle, settleVars, historyVars
<1>3. call'.status # 2
  <2>1. call.status # 2 BY <1>2, ClosureAnswers DEF Answering
  <2> QED BY <1>2, <2>1, CallStatus
<1>4. PICK d : FinishBatch(d) BY <1>2
<1>5. PICK p \in Slots, n \in Slots : p = position /\ n = nextResolution /\ p \in Nat /\ p \in 1..MaxSlots
  <2>1. position \in Slots /\ position \in Nat /\ 1 <= position BY PositionTypes, SlotTypes
  <2>2. position <= MaxSlots
    <3>1. position' \in Slots BY DEF IInv, TypeOK, TypeReserve
    <3>2. position + 1 <= MaxSlots + 1 /\ MaxSlots \in Nat BY <1>1, <3>1, SlotTypes
    <3> QED BY <2>1, <3>2
  <2>3. position \in 1..MaxSlots BY <2>1, <2>2, SlotTypes
  <2> QED BY <2>1, <2>3, SlotTypes
<1>6. /\ instr' = [instr EXCEPT ![p] = [kind |-> "END", depth |-> d, within |-> blocks]]
      /\ word' = [word EXCEPT ![p + 1] = {}, ![p] = IF d = 0 THEN @ \cup {OP} ELSE {OP}]
      /\ resolution' = [resolution EXCEPT ![n].flagPosition = @ + 1]
  BY <1>4, <1>5 DEF FinishBatch
<1>7. \A s \in Slots : s < p => word'[s] = word[s]
  <2> TAKE s \in Slots
  <2> HAVE s < p
  <2>1. s # p /\ s # p + 1
    <3>1. s \in Nat BY SlotTypes
    <3> QED BY <1>5, <3>1
  <2> QED BY <1>6, <2>1 DEF IInv, TypeOK, TypeWord
<1>8. \A r \in Slots : Carried(r)' = Carried(r)
  <2> DEFINE e == [resolution[n] EXCEPT !.flagPosition = @ + 1]
  <2>1. resolution' = [resolution EXCEPT ![n] = e] BY <1>6
  <2>2. resolution \in [Slots -> Resolution] BY DEF IInv, TypeOK, TypeReserve
  <2>3. e.callbacks = resolution[n].callbacks BY <2>2 DEF Resolution
  <2> HIDE DEF e
  <2>4. \A r \in Slots : resolution'[r] = resolution[r] \/ (r = n /\ resolution'[r] = e) BY <2>1, <2>2
  <2> QED BY <2>3, <2>4 DEF Carried
<1>9. ASSUME NEW s \in 1..(position' - 1), s >= position PROVE instr'[s].kind # "CALL"
  <2>1. s = p BY <1>1, <1>5, <1>9
  <2>2. instr'[p].kind = "END" BY <1>5, <1>6 DEF IInv, TypeOK, TypeReserve
  <2> QED BY <2>1, <2>2
<1>10. Adds(0) BY <1>2, <1>3, <1>5, <1>7, <1>8, <1>9 DEF Adds
<1>11. 0 \in Nat OBVIOUS
<1> QED BY <1>1, <1>10, <1>11, GrownCallbacks

\* transactionAsync leaves its callback on the placeholder; the resolutions after it are new.
LEMMA ReservedCarried ==
    ASSUME IInv, NEW kind \in Kinds, NEW opened \in Nat, WriteInstructions(kind, opened)
    PROVE  \A q \in Slots :
             IF q = nextResolution
             THEN Carried(q)' = (IF kind = "CALL" THEN InstrSlot ELSE Carried(q))
             ELSE Carried(q)' = Carried(q) \/ (q > nextResolution /\ Carried(q)' = 0)
<1> DEFINE called == IF kind = "CALL" THEN [resolution EXCEPT ![nextResolution].callbacks = InstrSlot]
                                      ELSE resolution
           own == IF OpensTurn THEN [called EXCEPT ![InstrRes] = NewResolution(InstrSlot)] ELSE called
<1>1. /\ InstrSlot + Len(Enclosing) + opened <= MaxSlots
      /\ resolution' = [own EXCEPT ![InstrRes + 1] = NewResolution(InstrSlot + 1)]
  BY DEF WriteInstructions
<1>2. PICK n \in Slots, m \in Slots, k \in Nat :
        /\ n = nextResolution /\ m = InstrRes /\ k = InstrSlot
        /\ (OpensTurn /\ m = n + 1) \/ (~OpensTurn /\ m = n)
  <2>1. /\ InstrSlot \in 1..MaxSlots /\ InstrRes \in 1..MaxSlots /\ nextResolution \in Slots
        /\ (OpensTurn /\ InstrRes = nextResolution + 1) \/ (~OpensTurn /\ InstrRes = nextResolution)
    BY <1>1, ReservedPlace
  <2>2. InstrSlot \in Nat /\ InstrRes \in Slots BY <2>1, SlotTypes
  <2> QED BY <2>1, <2>2
<1>3. n \in Nat /\ m \in Nat /\ n <= m /\ n # m + 1 BY <1>2, SlotTypes
<1>4. resolution \in [Slots -> Resolution] BY DEF IInv, TypeOK, TypeReserve
<1>5. \A s \in Nat : NewResolution(s).callbacks = 0 BY DEF NewResolution
<1>6. /\ DOMAIN called = Slots /\ \A q \in Slots : q # n => called[q] = resolution[q]
      /\ called[n].callbacks = IF kind = "CALL" THEN k ELSE resolution[n].callbacks
  <2> DEFINE e == [resolution[n] EXCEPT !.callbacks = k]
  <2>1. e.callbacks = k BY <1>4 DEF Resolution
  <2>2. called = IF kind = "CALL" THEN [resolution EXCEPT ![n] = e] ELSE resolution BY <1>2
  <2> HIDE DEF e, called
  <2> QED BY <1>4, <2>1, <2>2
<1> HIDE DEF called
<1>7. /\ DOMAIN own = Slots
      /\ \A q \in Slots : (own[q] = called[q]) \/ (OpensTurn /\ q = m /\ own[q] = NewResolution(k))
  <2>1. CASE OpensTurn
    <3>1. own = [called EXCEPT ![m] = NewResolution(k)] BY <1>2, <2>1
    <3> HIDE DEF own
    <3> QED BY <1>6, <2>1, <3>1
  <2>2. CASE ~OpensTurn
    <3>1. own = called BY <2>2
    <3> HIDE DEF own
    <3> QED BY <1>6, <3>1
  <2> QED BY <2>1, <2>2
<1> HIDE DEF own
<1>8. \A q \in Slots : \/ resolution'[q] = called[q]
                       \/ OpensTurn /\ q = m /\ resolution'[q] = NewResolution(k)
                       \/ q = m + 1 /\ resolution'[q] = NewResolution(k + 1)
  BY <1>1, <1>2, <1>7
<1>9. ASSUME NEW q \in Slots, q = n
      PROVE  Carried(q)' = IF kind = "CALL" THEN k ELSE Carried(q)
  <2>1. q # m + 1 /\ (OpensTurn => q # m) BY <1>2, <1>3, <1>9
  <2>2. resolution'[q] = called[q] BY <1>8, <2>1
  <2> QED BY <1>6, <1>9, <2>2 DEF Carried
<1>10. ASSUME NEW q \in Slots, q # n
       PROVE  Carried(q)' = Carried(q) \/ (q > nextResolution /\ Carried(q)' = 0)
  <2>1. CASE resolution'[q] = called[q] BY <1>6, <1>10, <2>1 DEF Carried
  <2>2. CASE OpensTurn /\ q = m /\ resolution'[q] = NewResolution(k)
    <3>1. q > n BY <1>2, <1>3, <2>2
    <3> QED BY <1>2, <1>5, <2>2, <3>1 DEF Carried
  <2>3. CASE q = m + 1 /\ resolution'[q] = NewResolution(k + 1)
    <3>1. q > n /\ k + 1 \in Nat BY <1>2, <1>3, <2>3
    <3> QED BY <1>2, <1>5, <2>3, <3>1 DEF Carried
  <2> QED BY <1>8, <2>1, <2>2, <2>3
<1> QED BY <1>2, <1>9, <1>10

LEMMA ReserveCallbacks ==
    ASSUME IInv, IInv', CursorInv, GroupInv, CallbackInv, NEW kind \in Operations,
           Write(kind) \/ IfVersion(kind)
    PROVE  CallbackInv'
<1>1. Grown BY ReserveCases
<1>2. PICK opened \in {0, 1} : kind \in Kinds /\ WriteInstructions(kind, opened)
  BY DEF Write, IfVersion, Kinds
<1>3. opened \in Nat BY <1>2
<1>4. /\ call.pc = "idle" /\ UNCHANGED <<word, nextTxnCallbacks, ranIn, lock, caller>>
      /\ InstrSlot + Len(Enclosing) + opened <= MaxSlots
  BY <1>2 DEF WriteInstructions, settleVars, historyVars
<1>5. call'.status # 2
  <2>1. call.status # 2 BY <1>4, ClosureAnswers DEF Answering
  <2>2. call' = call \/ \E x : call' = WriteCall(x) BY DEF Write, IfVersion
  <2> QED BY <2>1, <2>2, CallStatus
<1>6. PICK p \in Slots, n \in Slots, k \in 1..MaxSlots, m \in Nat :
        /\ p = position /\ n = nextResolution /\ k = InstrSlot /\ m = InstrRes
        /\ p \in Nat /\ n \in Nat /\ k \in Nat /\ n <= m /\ (k = p \/ (k = p + 1 /\ OpensTurn))
  <2>1. /\ position \in Slots /\ nextResolution \in Slots
        /\ \/ OpensTurn /\ InstrSlot = position + 1 /\ InstrRes = nextResolution + 1
           \/ ~OpensTurn /\ InstrSlot = position /\ InstrRes = nextResolution
        /\ InstrSlot \in 1..MaxSlots /\ InstrRes \in 1..MaxSlots
    BY <1>3, <1>4, ReservedPlace
  <2>2. /\ position \in Nat /\ nextResolution \in Nat
        /\ \A s \in 1..MaxSlots : s \in Nat
    BY <2>1, SlotTypes
  <2>3. nextResolution <= InstrRes BY <2>1, <2>2
  <2> QED BY <2>1, <2>2, <2>3
<1>7. /\ position' = k + 1 /\ nextResolution' = m + 1
      /\ OpensTurn => instr'[p].kind = "START"
      /\ instr'[k].kind = kind /\ FP(n)' = p
  BY <1>2, <1>3, <1>6, ReservedRecords DEF FP
<1>8. PICK c0 \in Nat : c0 = IF kind = "CALL" THEN k ELSE 0 BY <1>6
<1>9. c0 # 0 => kind = "CALL" /\ c0 = k BY <1>8
<1>10. kind = "CALL" => c0 = k /\ c0 # 0
  <2>1. k # 0 BY <1>6, SlotTypes
  <2> QED BY <1>8, <2>1
<1>11. \A r \in Slots : Carried(r) # 0 => r < n
  <2>1. \A r \in Slots : Carried(r) # 0 => r \in Reserved
    BY DEF CallbackInv, ListedCallbacks, HeldInv, CarriedBy
  <2> QED BY <1>6, <2>1, ReservedTypes
<1>12. ASSUME NEW r \in Slots
       PROVE  IF r = nextResolution /\ c0 # 0 THEN Carried(r)' = c0 ELSE Carried(r)' = Carried(r)
  <2>1. IF r = n THEN Carried(r)' = (IF kind = "CALL" THEN k ELSE Carried(r))
        ELSE Carried(r)' = Carried(r) \/ (r > n /\ Carried(r)' = 0)
    BY <1>2, <1>3, <1>6, ReservedCarried
  <2>2. r > n => Carried(r) = 0
    <3>1. r \in Nat BY SlotTypes
    <3> QED BY <1>6, <1>11, <3>1
  <2> QED BY <1>6, <1>9, <1>10, <2>1, <2>2
<1>13. ASSUME NEW s \in 1..(position' - 1), s >= position, instr'[s].kind = "CALL" PROVE s = c0
  <2>1. s \in Nat /\ s <= k /\ s >= p BY <1>6, <1>7, <1>13
  <2>2. s = k \/ (s = p /\ OpensTurn) BY <1>6, <2>1
  <2> QED BY <1>7, <1>10, <1>13, <2>2
<1>14. ASSUME c0 # 0
       PROVE  /\ c0 \in 1..(position' - 1) /\ (c0 = position \/ c0 = position + 1) /\ instr'[c0].kind = "CALL"
              /\ \A x \in Slots : x = nextResolution => x \in Reserved' /\ FP(x)' = position
              /\ OP \notin word'[position]
  <2>1. c0 = k /\ kind = "CALL" BY <1>9, <1>14
  <2>2. k \in 1..(position' - 1)
    <3>1. 1 <= k BY <1>6
    <3>2. k \in 1..(k + 1 - 1) BY <1>6, <3>1
    <3> QED BY <1>7, <3>2
  <2>3. n \in Reserved'
    <3>1. 1 <= n BY SlotTypes
    <3>2. n \in 1..(m + 1 - 1) BY <1>6, <3>1
    <3> QED BY <1>7, <3>2 DEF Reserved
  <2>4. OP \notin word[p]
    <3>1. p >= position BY <1>6
    <3> QED BY <3>1, Zenon DEF IInv, WordInv
  <2> QED BY <1>4, <1>6, <1>7, <2>1, <2>2, <2>3, <2>4 DEF FP
<1>15. Adds(c0) BY <1>4, <1>5, <1>12, <1>13, <1>14 DEF Adds
<1> QED BY <1>1, <1>15, GrownCallbacks

-----------------------------------------------------------------------------
(* Every behaviour. *)

LEMMA InitCallbacks == Init => CallbackInv
<1> SUFFICES ASSUME Init PROVE CallbackInv OBVIOUS
<1>1. /\ position = 1 /\ log = <<>> /\ call = Idle /\ caller = Idle /\ worker = <<>> /\ lock = Free
      /\ nextTxnCallbacks = {} /\ \A s \in 1..MaxSlots : ranIn[s] = 0
  BY DEF Init
<1>2. Len(log) = 0 /\ DOMAIN worker = {} BY <1>1
<1>3. \A r \in Slots : Carried(r) = 0
  <2>1. \A s : NewResolution(s).callbacks = 0 BY DEF NewResolution
  <2> TAKE r \in Slots
  <2>2. PICK s : resolution[r] = NewResolution(s) BY DEF Init
  <2> QED BY <2>1, <2>2 DEF Carried
<1>4. ListedCallbacks
  <2>1. HeldInv BY <1>3 DEF HeldInv
  <2>2. CollectedInv BY <1>1 DEF CollectedInv
  <2>3. KeptInv BY <1>1 DEF KeptInv
  <2> QED BY <2>1, <2>2, <2>3 DEF ListedCallbacks
<1>5. WaitInv /\ LockInv BY <1>2 DEF WaitInv, LockInv
<1>6. AnsweringInv
  <2>1. ~Answering /\ caller.status # 2 BY <1>1, CallStatus DEF Answering
  <2> QED BY <1>1, <2>1 DEF AnsweringInv, Free, Js
<1>7. EffectInv /\ RanInv BY <1>1, <1>2 DEF EffectInv, RanInv
<1> QED BY <1>4, <1>5, <1>6, <1>7 DEF CallbackInv

LEMMA StutterCallbacks ==
    ASSUME IInv, IInv', CursorInv, GroupInv, CallbackInv, UNCHANGED vars
    PROVE  CallbackInv'
<1>1. /\ UNCHANGED <<word, instr, position, nextResolution, blocks, resolution, call, caller,
                     unwrittenResolution, nextTxnCallbacks, worker, lock, ranIn, txnOf, result, log>>
  BY DEF vars, jsVars, reserveVars, batchVars, settleVars, historyVars
<1>2. UNCHANGED <<ListedCallbacks, WaitInv, LockInv, AnsweringInv, EffectInv, RanInv>>
  BY <1>1 DEF ListedCallbacks, HeldInv, CarriedBy, CollectedInv, KeptInv, WaitInv, LockInv, AnsweringInv,
              EffectInv, RanInv, Carried, Waiting, Reserved, FP, Published, Frontier, HasLock, Answering,
              Unanswered, Due, Swept, Ended
<1> QED BY <1>2 DEF CallbackInv

LEMMA NextCallbacks ==
    ASSUME IInv, IInv', CursorInv, GroupInv, CallbackInv, [Next]_vars
    PROVE  CallbackInv'
<1>1. CASE UNCHANGED vars BY <1>1, StutterCallbacks
<1>2. CASE Next
  <2>1. ASSUME NEW kind \in Operations, Write(kind) \/ IfVersion(kind) PROVE CallbackInv'
    BY <2>1, ReserveCallbacks
  <2>2. CASE EndEventTurn \/ EndIfVersion BY <2>2, FinishCallbacks
  <2>3. CASE CallStep
    BY <2>3, PublishCallbacks, StoreCallbacks, AssignCallbacks, SweepCallbacks, CounterCallbacks,
       EndCallbacks
    DEF CallStep
  <2>4. CASE RunEnqueuedCommit BY <2>4, StartCallbacks
  <2>5. ASSUME NEW w \in DOMAIN worker, WorkerStep(w) PROVE CallbackInv'
    BY <2>5, WorkerCallbacks
  <2>6. ASSUME NEW w \in DOMAIN worker, CommitProgress(w) \/ CallbackProgress(w) \/ Complete(w)
        PROVE  CallbackInv'
    BY <2>6, TaskCallbacks
  <2> QED BY <1>2, <2>1, <2>2, <2>3, <2>4, <2>5, <2>6 DEF Next
<1> QED BY <1>1, <1>2

\* What is known of the user callbacks that did not run yet holds in every state.
THEOREM CallbackCorrect == Spec => []CallbackInv
<1>1. Init => CallbackInv BY InitCallbacks
<1>2. IInv /\ CursorInv /\ GroupInv /\ CallbackInv /\ IInv' /\ [Next]_vars => CallbackInv'
  BY NextCallbacks
<1> QED BY <1>1, <1>2, InvariantCorrect, CursorCorrect, GroupCorrect, PTL DEF Spec

-----------------------------------------------------------------------------
(* In which transaction a user callback runs. *)

(* A user callback of transaction() that takes effect runs inside the        *)
(* transaction that contains its instruction, before that is committed, and  *)
(* in no other: WaitForCallbacks holds the commit back until the event loop  *)
(* has run every callback that resolveWrites collected.                      *)
THEOREM EffectiveInOwnTxnCorrect == Spec => []EffectiveInOwnTxn
<1>1. ASSUME IInv, BlocksInv, GroupInv, CallbackInv PROVE EffectiveInOwnTxn
  <2> SUFFICES ASSUME NEW s \in 1..MaxSlots, instr[s].kind = "CALL", result[s]
               PROVE  /\ ranIn[s] # 0 => txnOf[s] = ranIn[s]
                      /\ txnOf[s] # 0 /\ worker[txnOf[s]].outcome # "none" => ranIn[s] = txnOf[s]
    BY DEF EffectiveInOwnTxn
  <2>1. ranIn[s] # 0 => ranIn[s] = txnOf[s] BY <1>1 DEF CallbackInv, RanInv
  <2>2. ASSUME txnOf[s] # 0, worker[txnOf[s]].outcome # "none" PROVE ranIn[s] # 0
    <3>1. s \in 1..Len(log)
      <4>1. ~(s > Len(log)) BY <1>1, <2>2 DEF BlocksInv, DoneInv
      <4> QED BY <1>1, <4>1, FrontierTypes
    <3>2. txnOf[s] \in DOMAIN worker BY <1>1, <3>1 DEF GroupInv, HistoryInv, TxnInv, SpanInv
    <3>3. worker[txnOf[s]].pc \in ClosedPc
      BY <1>1, <2>2, <3>2 DEF GroupInv, HistoryInv, OutcomeInv
    <3>4. txnOf[s] \in Ended BY <3>2, <3>3 DEF Ended
    <3>5. ~Due(s) BY <1>1, <3>1, <3>4 DEF CallbackInv, EffectInv
    <3> QED BY <3>5 DEF Due
  <2> QED BY <2>1, <2>2
<1>2. IInv /\ BlocksInv /\ GroupInv /\ CallbackInv => EffectiveInOwnTxn BY <1>1
<1> QED BY <1>2, InvariantCorrect, BlocksCorrect, GroupCorrect, CallbackCorrect, PTL

\* Where the program opens no conditional block, every block that is open is a batch or an
\* event turn, and every block start and user callback executed so far takes effect.
NoCondition == \A s \in 1..(position - 1) : instr[s].kind # "COND"
StartsAt(s) == \A i \in 1..Len(OpenAt(s)) : instr[FP(OpenAt(s)[i])].kind = "START"
AllStarts == \A s \in 1..position : StartsAt(s)
AllMet == \A s \in 1..Len(log) : instr[s].kind \in {"START", "CALL"} => result[s]
PlainInv == NoCondition /\ AllStarts /\ AllMet

\* A step that neither reserves nor executes.
LEMMA StaticPlain ==
    ASSUME IInv, PlainInv, UNCHANGED <<reserveVars, batchVars, result, log>>,
           \A q \in Slots : FP(q)' = FP(q), InsideInv
    PROVE  PlainInv'
<1>1. /\ UNCHANGED <<instr, position, blocks, result, log>>
      /\ \A s : OpenAt(s)' = OpenAt(s)
  BY DEF reserveVars, batchVars, OpenAt
<1>2. NoCondition' /\ AllMet' BY <1>1 DEF PlainInv, NoCondition, AllMet
<1>3. ASSUME NEW s \in 1..position PROVE StartsAt(s)'
  <2>1. StartsAt(s) /\ InsideAt(s) BY DEF PlainInv, AllStarts, InsideInv
  <2>2. \A i \in 1..Len(OpenAt(s)) : OpenAt(s)[i] \in Slots
    <3>1. \A r \in Reserved : r \in Slots BY PlaceTypes, SlotTypes
    <3> QED BY <2>1, <3>1 DEF InsideAt
  <2>3. \A i \in 1..Len(OpenAt(s)) : FP(OpenAt(s)[i])' = FP(OpenAt(s)[i])
    <3> TAKE i \in 1..Len(OpenAt(s))
    <3>1. PICK b \in Slots : b = OpenAt(s)[i] BY <2>2
    <3>2. FP(b)' = FP(b) OBVIOUS
    <3> QED BY <1>1, <3>1, <3>2 DEF FP
  <2> QED BY <1>1, <2>1, <2>3 DEF StartsAt, FP
<1> QED BY <1>1, <1>2, <1>3 DEF PlainInv, AllStarts

\* The worker executes the instruction at the frontier: all blocks around it are met.
LEMMA ExecutedPlain ==
    ASSUME IInv, BlocksInv, BlocksInv', PlainInv, NEW w \in DOMAIN worker, Executing(w)
    PROVE  PlainInv'
<1>1. PICK ok \in BOOLEAN : Runs(w, ok) /\ (RunsMarked(w, ok) \/ RunsEnd(w)) BY DEF Executing
<1>2. /\ UNCHANGED <<instr, position, blocks, resolution>>
      /\ \A s : OpenAt(s)' = OpenAt(s) /\ FP(s)' = FP(s)
  BY <1>1 DEF Runs, jsVars, reserveVars, batchVars, OpenAt, FP
<1>3. NoCondition' /\ AllStarts'
  BY <1>2 DEF PlainInv, NoCondition, AllStarts, StartsAt
<1>4. PICK f \in Slots : f = Frontier /\ f \in Nat /\ f = Len(log) + 1 /\ Len(log) \in Nat
  BY SlotTypes
<1>5. f < position /\ f \in 1..MaxSlots /\ f \in 1..position
  <2>1. OP \in word[f] BY <1>1, <1>4 DEF Runs
  <2>2. position \in Nat /\ position <= MaxSlots + 1 /\ MaxSlots \in Nat /\ 1 <= f
    BY <1>4, SlotTypes, FrontierTypes DEF Slots
  <2>3. ~(f >= position) BY <1>4, <2>1 DEF IInv, WordInv
  <2> QED BY <1>4, <2>2, <2>3
<1>6. /\ log' = Append(log, f) /\ txnOf' = [txnOf EXCEPT ![f] = w] /\ w # 0
      /\ result' = result \/ result' = [result EXCEPT ![f] = ok]
      /\ log \in Seq(Slots) /\ txnOf \in [1..MaxSlots -> Nat] /\ result \in [1..MaxSlots -> BOOLEAN]
  <2>1. w # 0 BY DEF IInv, TypeOK, TypeWorker
  <2> QED BY <1>1, <1>4, <2>1 DEF Runs, RunsMarked, RunsEnd, IInv, TypeOK, TypeHistory
<1>7. /\ Len(log') = f /\ txnOf'[f] # 0
      /\ \A s \in 1..MaxSlots : s # f => result'[s] = result[s]
  <2>1. Len(Append(log, f)) = Len(log) + 1 BY <1>4, <1>6
  <2>2. txnOf'[f] = w BY <1>5, <1>6
  <2>3. \A s \in 1..MaxSlots : s # f => result'[s] = result[s] BY <1>6
  <2> QED BY <1>4, <1>6, <2>1, <2>2, <2>3
<1>0. MaxSlots \in Nat /\ \A s \in 1..Len(log) : s # f /\ s \in 1..MaxSlots
  <2>1. MaxSlots \in Nat /\ Len(log) \in Nat /\ Len(log) <= MaxSlots BY SlotTypes
  <2> QED BY <1>4, <2>1
<1>8. ASSUME instr[f].kind \in {"START", "CALL"} PROVE result'[f]
  <2>1. /\ OpenAt(f) = instr[f].within /\ OpenAt(f) \in Seq(Slots) BY <1>5, OpenTypes DEF IInv
  <2>2. \A i \in 1..Len(OpenAt(f)) : /\ FP(OpenAt(f)[i]) \in 1..Len(log)
                                     /\ instr[FP(OpenAt(f)[i])].kind = "START"
    <3> TAKE i \in 1..Len(OpenAt(f))
    <3>1. InsideAt(f) /\ StartsAt(f) BY <1>5 DEF BlocksInv, InsideInv, PlainInv, AllStarts
    <3>2. OpenAt(f)[i] \in Reserved /\ FP(OpenAt(f)[i]) < f BY <3>1 DEF InsideAt
    <3>3. FP(OpenAt(f)[i]) \in 1..(position - 1) BY <3>2 DEF IInv, ResolutionInv
    <3>4. FP(OpenAt(f)[i]) \in 1..Len(log) BY <1>4, <3>2, <3>3
    <3> QED BY <3>1, <3>4 DEF StartsAt
  <2>3. \A i \in 1..Len(OpenAt(f)) : result'[FP(OpenAt(f)[i])]
    <3> TAKE i \in 1..Len(OpenAt(f))
    <3>1. PICK b : b = FP(OpenAt(f)[i]) OBVIOUS
    <3>2. b \in 1..Len(log) /\ instr[b].kind = "START" BY <2>2, <3>1
    <3>3. result[b] BY <3>2 DEF PlainInv, AllMet
    <3>4. b # f /\ b \in 1..MaxSlots BY <1>0, <3>2
    <3> QED BY <1>7, <3>1, <3>3, <3>4
  <2>4. \A b \in EnclosingSlots(f)' : result'[b]
    BY <1>2, <2>1, <2>3 DEF EnclosingSlots, FP
  <2>5. LET met == \A b \in EnclosingSlots(f)' : result'[b]
        IN  met /\ instr'[f].kind \in Unconditional => result'[f]
    <3>1. instr'[f].kind # "END" BY <1>2, <1>8
    <3> QED BY <1>5, <1>7, <3>1 DEF BlocksInv, ConditionsNest
  <2>6. instr'[f].kind \in Unconditional BY <1>2, <1>8 DEF Unconditional
  <2> QED BY <2>4, <2>5, <2>6
<1>9. AllMet'
  <2> SUFFICES ASSUME NEW s \in 1..f, instr[s].kind \in {"START", "CALL"} PROVE result'[s]
    BY <1>2, <1>7 DEF AllMet
  <2>1. CASE s = f BY <1>8, <2>1
  <2>2. CASE s # f
    <3>1. s \in 1..Len(log) BY <1>4, <2>2
    <3>3. s \in 1..MaxSlots BY <1>0, <3>1
    <3>2. result[s] BY <3>1 DEF PlainInv, AllMet
    <3> QED BY <1>7, <2>2, <3>2, <3>3
  <2> QED BY <2>1, <2>2
<1> QED BY <1>3, <1>9 DEF PlainInv

\* A reservation of anything but a conditional block.
LEMMA ReservedPlain ==
    ASSUME IInv, BlocksInv, PlainInv, IInv', BlocksInv', NEW kind, kind # "COND", Reserves(kind),
           UNCHANGED <<log, result>>
    PROVE  PlainInv'
<1>1. PICK p \in Slots, e \in Slots :
        p = position /\ e = position' /\ p \in Nat /\ e \in Nat /\ 1 <= p /\ (e = p + 1 \/ e = p + 2)
  <2>1. position \in Slots /\ position' \in Slots BY DEF IInv, TypeOK, TypeReserve
  <2>2. position' = position + 1 \/ position' = position + 2 BY DEF Reserves
  <2> QED BY <2>1, <2>2, SlotTypes
<1>2. /\ \A s \in p..(e - 1) : instr'[s].kind # "COND"
      /\ \A s \in 1..MaxSlots : s < p => instr'[s] = instr[s]
      /\ \A r \in Reserved : r \in Reserved' /\ FP(r)' = FP(r)
      /\ \A s \in 1..p : OpenAt(s)' = OpenAt(s)
  BY <1>1 DEF Reserves, Grows
<1>0. /\ MaxSlots \in Nat /\ p - 1 \in Nat /\ e - 1 \in Nat
      /\ \A s \in 1..(p - 1) : s \in 1..MaxSlots /\ s < p
      /\ \A s \in 1..(e - 1) : s \in 1..MaxSlots /\ s < e /\ s \in Nat /\ (s < p \/ s \in p..(e - 1))
      /\ p \in 1..(e - 1)
  <2>1. p <= MaxSlots + 1 /\ e <= MaxSlots + 1 /\ MaxSlots \in Nat BY <1>1, SlotTypes
  <2>2. PICK c \in Nat : c = p - 1 /\ p = c + 1 BY <1>1
  <2>8. e \in Nat /\ p \in Nat /\ 1 <= p /\ p < e
    <3>1. CASE e = p + 1 BY <1>1, <3>1
    <3>2. CASE e = p + 2 BY <1>1, <3>2
    <3> QED BY <1>1, <3>1, <3>2
  <2>3. PICK d \in Nat : d = e - 1 /\ e = d + 1 BY <2>8
  <2>4. c < d /\ d <= MaxSlots BY <2>1, <2>2, <2>3, <2>8
  <2>5. \A s \in 1..c : s \in 1..MaxSlots /\ s < p BY <2>1, <2>2, <2>4
  <2>6. \A s \in 1..d : s \in 1..MaxSlots /\ s < e /\ s \in Nat /\ (s < p \/ s \in p..d)
    BY <2>1, <2>3, <2>4, <2>8
  <2>7. p \in 1..d BY <1>1, <2>2, <2>4
  <2> QED BY <2>1, <2>2, <2>3, <2>5, <2>6, <2>7
<1>3. ASSUME NEW s \in 1..(e - 1) PROVE instr'[s].kind # "COND"
  <2>1. CASE s < p
    <3>1. s \in 1..(position - 1) /\ s \in 1..MaxSlots BY <1>0, <1>1, <2>1
    <3> QED BY <1>2, <2>1, <3>1 DEF PlainInv, NoCondition
  <2>2. CASE ~(s < p)
    <3>1. s \in p..(e - 1) BY <1>0, <2>2
    <3> QED BY <1>2, <3>1
  <2> QED BY <2>1, <2>2
<1>4. NoCondition' BY <1>1, <1>3 DEF NoCondition
<1>5. ASSUME NEW s \in 1..p PROVE StartsAt(s)'
  <2>1. StartsAt(s) /\ InsideAt(s) BY <1>1 DEF PlainInv, AllStarts, BlocksInv, InsideInv
  <2> SUFFICES ASSUME NEW i \in 1..Len(OpenAt(s))
               PROVE  instr'[resolution'[OpenAt(s)[i]].flagPosition].kind = "START"
    BY <1>2 DEF StartsAt, FP
  <2>2. PICK b : b = OpenAt(s)[i] OBVIOUS
  <2>3. b \in Reserved /\ instr[FP(b)].kind = "START" BY <2>1, <2>2 DEF StartsAt, InsideAt
  <2>4. PICK x : x = FP(b) OBVIOUS
  <2>5. x \in 1..(position - 1) BY <2>3, <2>4 DEF IInv, ResolutionInv
  <2>6. x < p /\ x \in 1..MaxSlots BY <1>0, <1>1, <2>5
  <2>7. FP(b)' = x BY <1>2, <2>3, <2>4
  <2>8. instr'[x].kind = "START" BY <1>2, <2>3, <2>4, <2>6
  <2> QED BY <2>2, <2>7, <2>8 DEF FP
<1>6. ASSUME NEW s \in 1..(e - 1), s \in Nat, StartsAt(s)' PROVE StartsAt(s + 1)'
  <2>1. ShapeAt(s)' BY <1>1, <1>6 DEF BlocksInv, ShapeInv
  <2>2. PICK old \in Seq(Slots) : old = OpenAt(s)' /\ Len(old) \in Nat
    <3>1. s < e /\ s \in 1..MaxSlots BY <1>0, <1>6
    <3>2. OpenAt(s)' = instr'[s].within BY <1>1, <3>1 DEF OpenAt
    <3>3. instr'[s] \in Instruction BY <3>1 DEF IInv, TypeOK, TypeReserve
    <3> QED BY <3>2, <3>3 DEF Instruction
  <2>3. \A i \in 1..Len(old) : instr'[resolution'[old[i]].flagPosition].kind = "START"
    BY <1>6, <2>2 DEF StartsAt, FP
  <2>4. CASE instr'[s].kind \in {"START", "COND"}
    <3>1. PICK r \in Reserved' : resolution'[r].flagPosition = s /\ OpenAt(s + 1)' = Append(old, r)
      BY <2>1, <2>2, <2>4 DEF ShapeAt, FP
    <3>2. r \in Slots
      <4>1. PICK n \in Slots : n = nextResolution' BY DEF IInv, TypeOK, TypeReserve
      <4>2. r \in 1..(n - 1) BY <3>1, <4>1 DEF Reserved
      <4> QED BY <1>0, <4>2 DEF Slots
    <3>3. instr'[s].kind = "START" BY <1>3, <1>6, <2>4
    <3>4. /\ Len(Append(old, r)) = Len(old) + 1 /\ Append(old, r)[Len(old) + 1] = r
          /\ \A i \in 1..Len(old) : Append(old, r)[i] = old[i]
      BY <2>2, <3>2, SeqAppend
    <3>5. \A i \in 1..(Len(old) + 1) : i \in 1..Len(old) \/ i = Len(old) + 1 BY <2>2
    <3>6. \A i \in 1..(Len(old) + 1) : Append(old, r)[i] = r \/ i \in 1..Len(old) BY <3>4, <3>5
    <3>7. \A i \in 1..Len(Append(old, r)) :
            instr'[resolution'[Append(old, r)[i]].flagPosition].kind = "START"
      BY <2>3, <3>1, <3>3, <3>4, <3>6
    <3> QED BY <3>1, <3>7 DEF StartsAt, FP
  <2>5. CASE instr'[s].kind = "END"
    <3>1. Len(old) > 0 /\ OpenAt(s + 1)' = SubSeq(old, 1, Len(old) - 1)
      BY <2>1, <2>2, <2>5 DEF ShapeAt
    <3>2. PICK front : front = SubSeq(old, 1, Len(old) - 1) OBVIOUS
    <3>3. Len(front) = Len(old) - 1 /\ \A i \in 1..Len(front) : front[i] = old[i]
      BY <2>2, <3>1, <3>2, SeqFront
    <3>4. \A i \in 1..Len(front) : i \in 1..Len(old) BY <2>2, <3>3
    <3>5. \A i \in 1..Len(front) : instr'[resolution'[front[i]].flagPosition].kind = "START"
      BY <2>3, <3>3, <3>4
    <3> QED BY <3>1, <3>2, <3>5 DEF StartsAt, FP
  <2>6. CASE instr'[s].kind \notin {"START", "COND", "END"}
    <3>1. OpenAt(s + 1)' = old BY <2>1, <2>2, <2>6 DEF ShapeAt
    <3> QED BY <2>3, <3>1 DEF StartsAt, FP
  <2> QED BY <2>4, <2>5, <2>6
<1>7. AllStarts'
  <2>1. StartsAt(p)' BY <1>1, <1>5
  <2>2. StartsAt(p + 1)'
    <3>1. p \in 1..(e - 1) BY <1>0
    <3> QED BY <1>1, <1>6, <2>1, <3>1
  <2>3. e = p + 2 => StartsAt(p + 2)'
    <3>1. CASE e = p + 2
      <4>1. PICK q \in Nat : q = p + 1 BY <1>1
      <4>2. q \in 1..(e - 1) /\ q + 1 = p + 2 BY <1>1, <3>1, <4>1
      <4>3. StartsAt(q)' BY <2>2, <4>1
      <4>4. StartsAt(q + 1)' BY <1>6, <4>2, <4>3
      <4> QED BY <4>2, <4>4
    <3> QED BY <3>1
  <2>4. \A s \in 1..e : s \in 1..p \/ s = p + 1 \/ (e = p + 2 /\ s = p + 2) BY <1>1
  <2> QED BY <1>1, <1>5, <2>2, <2>3, <2>4 DEF AllStarts
<1>8. AllMet'
  <2> SUFFICES ASSUME NEW s \in 1..Len(log), instr'[s].kind \in {"START", "CALL"} PROVE result[s]
    BY DEF AllMet
  <2>1. s < p /\ s \in 1..MaxSlots
    <3>1. Len(log) \in Nat /\ Len(log) < position BY FrontierTypes
    <3>2. s \in 1..(p - 1) BY <1>1, <3>1
    <3> QED BY <1>0, <3>2
  <2>2. instr'[s] = instr[s] BY <1>2, <2>1
  <2> QED BY <2>2 DEF PlainInv, AllMet
<1> QED BY <1>4, <1>7, <1>8 DEF PlainInv

LEMMA InitPlain == Init => PlainInv
<1> SUFFICES ASSUME Init PROVE PlainInv OBVIOUS
<1>1. position = 1 /\ blocks = <<>> /\ log = <<>> BY DEF Init
<1>2. NoCondition /\ AllMet BY <1>1 DEF NoCondition, AllMet
<1>3. AllStarts BY <1>1 DEF AllStarts, StartsAt, OpenAt
<1> QED BY <1>2, <1>3 DEF PlainInv

LEMMA NextPlain ==
    ASSUME "COND" \notin Operations, IInv, IInv', BlocksInv, BlocksInv', PlainInv, [Next]_vars
    PROVE  PlainInv'
<1>0. InsideInv BY DEF BlocksInv
<1>1. ASSUME NEW kind \in Operations, Write(kind) \/ IfVersion(kind) PROVE PlainInv'
  <2>1. kind # "COND" /\ Reserves(kind) BY <1>1, ReservationBlocks
  <2>2. UNCHANGED <<log, result>>
    BY <1>1 DEF Write, IfVersion, WriteInstructions, historyVars
  <2> QED BY <2>1, <2>2, ReservedPlain
<1>2. CASE EndEventTurn \/ EndIfVersion
  <2>1. Reserves("END") BY <1>2, ReservationBlocks
  <2>2. UNCHANGED <<log, result>> BY <1>2 DEF EndEventTurn, EndIfVersion, historyVars
  <2>3. "END" # "COND" OBVIOUS
  <2> QED BY <2>1, <2>2, <2>3, ReservedPlain
<1>3. ASSUME \/ CallStep \/ RunEnqueuedCommit
             \/ \E w \in DOMAIN worker : CommitProgress(w) \/ CallbackProgress(w) \/ Complete(w)
      PROVE  PlainInv'
  BY <1>0, <1>3, JsPlaces, StaticPlain
<1>4. ASSUME NEW w \in DOMAIN worker, WorkerStep(w) PROVE PlainInv'
  <2>1. /\ UNCHANGED jsVars
        /\ \/ Moves(w) \/ Waits(w) \/ Delimits(w) \/ Commits(w) \/ Stores(w) \/ Reports(w)
           \/ Syncs(w) \/ Executing(w)
    BY <1>4, WorkerEffect
  <2>2. CASE Executing(w) BY <2>2, ExecutedPlain
  <2>3. CASE ~Executing(w)
    <3>1. SameHistory
      BY <2>1, <2>3 DEF Moves, Waits, Delimits, Stops, Commits, Stores, Reports, Syncs
    <3>2. UNCHANGED <<reserveVars, batchVars, result, log>> /\ \A q \in Slots : FP(q)' = FP(q)
      BY <2>1, <3>1 DEF jsVars, SameHistory, FP
    <3> QED BY <1>0, <3>2, StaticPlain
  <2> QED BY <2>2, <2>3
<1>5. CASE UNCHANGED vars
  <2>1. UNCHANGED <<reserveVars, batchVars, result, log>> /\ \A q \in Slots : FP(q)' = FP(q)
    BY <1>5 DEF vars, jsVars, historyVars, FP
  <2> QED BY <1>0, <2>1, StaticPlain
<1> QED BY <1>1, <1>2, <1>3, <1>4, <1>5 DEF Next

(* Where the program opens no conditional block, every user callback takes   *)
(* effect, so CallbackInOwnTxn holds of all of them.  (Inside an ifVersion   *)
(* block whose condition fails it does not: the worker skips the callback    *)
(* and JavaScript still runs it, in whatever transaction comes next.)        *)
THEOREM CallbackInOwnTxnCorrect == Spec /\ "COND" \notin Operations => []CallbackInOwnTxn
<1>1. ASSUME IInv, BlocksInv, PlainInv, CallbackInv, EffectiveInOwnTxn PROVE CallbackInOwnTxn
  <2> SUFFICES ASSUME NEW s \in 1..MaxSlots, instr[s].kind = "CALL", ranIn[s] # 0
               PROVE  txnOf[s] = ranIn[s]
    BY DEF CallbackInOwnTxn
  <2>1. s \in 1..Len(log) BY <1>1, FrontierTypes DEF CallbackInv, RanInv
  <2>2. result[s] BY <1>1, <2>1 DEF PlainInv, AllMet
  <2> QED BY <1>1, <2>2 DEF EffectiveInOwnTxn
<1>2. IInv /\ BlocksInv /\ PlainInv /\ CallbackInv /\ EffectiveInOwnTxn => CallbackInOwnTxn BY <1>1
<1>3. Init => PlainInv BY InitPlain
<1>4. CASE "COND" \notin Operations
  <2>1. IInv /\ IInv' /\ BlocksInv /\ BlocksInv' /\ PlainInv /\ [Next]_vars => PlainInv'
    BY <1>4, NextPlain
  <2> QED BY <1>2, <1>3, <2>1, InvariantCorrect, BlocksCorrect, CallbackCorrect,
             EffectiveInOwnTxnCorrect, PTL DEF Spec
<1>5. CASE ~("COND" \notin Operations) BY <1>5, PTL
<1> QED BY <1>4, <1>5

-----------------------------------------------------------------------------
(* What is on disk, relative to the invariants above. *)

\* A worker is started when the one before it has let go of the lock, so everything before
\* its own commit was decided.
Decided == {"report", "sync", "done", "gone"}
DecidedInv ==
    \A w \in DOMAIN worker :
        /\ worker[w].pc \in Decided => worker[w].outcome # "none"
        /\ Failed(w) => CommitCanFail
        /\ worker[w].pc # "queued" => \A v \in DOMAIN worker : v < w => worker[v].pc \in Decided

\* What was committed is on disk once its worker, or a later one, is done, and once
\* something later is on disk.
OnDisk(v) == Failed(v) \/ worker[v].durable
SyncedInv ==
    /\ ~OverlappingSync => \A v \in DOMAIN worker : worker[v].outcome = "ok" => worker[v].durable
    /\ \A w, v \in DOMAIN worker :
         worker[w].pc \in {"done", "gone"} /\ worker[w].outcome = "ok" /\ v <= w => OnDisk(v)
    /\ \A w, v \in DOMAIN worker :
         worker[w].durable /\ worker[w].outcome = "ok" /\ v <= w => OnDisk(v)

DiskInv == DecidedInv /\ (~SyncCanFail => SyncedInv)

\* Outcomes are decided once and stay decided.
LEMMA DiskTypes ==
    ASSUME IInv, NEW v \in DOMAIN worker
    PROVE  /\ v \in Nat /\ v # 0 /\ worker[v].outcome \in {"none", "ok", "failed"}
           /\ worker[v].durable \in BOOLEAN /\ worker[v].resolvers \subseteq Slots
           /\ worker[v].pc \in {"queued", "run", "store", "wait", "commit", "report", "sync", "done", "gone"}
<1>1. worker[v] \in Worker BY WorkerTypes DEF IInv
<1>2. v \in Nat /\ v # 0 BY EndTypes
<1> QED BY <1>1, <1>2 DEF Worker

\* What a step of a worker changes in what the workers say of themselves.
LEMMA WorkerReports ==
    ASSUME IInv, NEW w \in DOMAIN worker, WorkerStep(w)
    PROVE  /\ DOMAIN worker' = DOMAIN worker
           /\ \A v \in DOMAIN worker : /\ worker'[v].resolvers = worker[v].resolvers
                                       /\ v # w => worker'[v].pc = worker[v].pc
                                                   /\ worker'[v].outcome = worker[v].outcome
                                       /\ worker[v].durable =>
                                            worker'[v].durable \/ worker[v].pc = "commit"
           /\ \/ Commits(w) \/ Reports(w) \/ Syncs(w)
              \/ /\ \A v \in DOMAIN worker : /\ worker'[v].outcome = worker[v].outcome
                                             /\ worker'[v].durable = worker[v].durable
                 /\ worker[w].pc \notin Decided /\ worker'[w].pc \notin Decided
                 /\ worker[w].pc = "queued" => lock = Free
<1>1. DOMAIN worker' = DOMAIN worker BY WorkerEffect
<1>2. CASE Moves(w) BY <1>1, <1>2 DEF Moves, Others, SameEnd, Decided
<1>3. CASE Waits(w) \/ Delimits(w)
  BY <1>1, <1>3 DEF Waits, Delimits, Stops, Others, Decided
<1>4. CASE Commits(w)
  <2>1. worker[w].pc = "commit" /\ Others(w) /\ worker'[w].resolvers = worker[w].resolvers
    BY <1>4 DEF Commits
  <2> QED BY <1>1, <1>4, <2>1 DEF Others
<1>5. CASE Stores(w) BY <1>1, <1>5 DEF Stores, Others, SameEnd, Decided
<1>6. CASE Reports(w) BY <1>1, <1>6 DEF Reports, Others, SameEnd
<1>7. CASE Syncs(w)
  <2>1. \A v \in DOMAIN worker : /\ worker'[v].resolvers = worker[v].resolvers
                                 /\ v # w => worker'[v].pc = worker[v].pc
                                 /\ worker'[v].outcome = worker[v].outcome
                                 /\ worker[v].durable => worker'[v].durable
    BY <1>7 DEF Syncs
  <2> QED BY <1>1, <1>7, <2>1
<1>8. CASE Executing(w)
  BY <1>1, <1>8 DEF Executing, Runs, RunsMarked, RunsEnd, SameEnd, Decided
<1> QED BY <1>2, <1>3, <1>4, <1>5, <1>6, <1>7, <1>8, WorkerEffect

LEMMA WorkerDecided ==
    ASSUME IInv, IInv', TxnInv, OutcomeInv, LockInv, DecidedInv, NEW w \in DOMAIN worker, WorkerStep(w)
    PROVE  DecidedInv'
<1>1. DOMAIN worker' = DOMAIN worker BY WorkerReports
<1>2. ASSUME worker[w].pc = "queued", lock = Free, NEW v \in DOMAIN worker, v < w
      PROVE  worker[v].pc \in Decided
  <2>1. v \in Nat /\ v # 0 /\ w \in Nat /\ w <= Len(worker) /\ Len(worker) \in Nat
    BY DiskTypes, EndTypes
  <2>2. v # Len(worker) BY <1>2, <2>1
  <2>3. worker[v].pc \in ClosedPc BY <2>2, EndTypes DEF TxnInv, LastInv
  <2>4. worker[v].pc # "commit" BY <1>2, <2>1 DEF LockInv, HasLock, Free
  <2> QED BY <2>3, <2>4 DEF ClosedPc, Decided
<1>3. \A v \in DOMAIN worker : worker[v].pc \in Decided => worker'[v].pc \in Decided
  <2>1. CASE Commits(w) BY <2>1, WorkerReports DEF Commits, Decided
  <2>2. CASE Reports(w) BY <2>2, WorkerReports DEF Reports, Decided
  <2>3. CASE Syncs(w) BY <2>3, WorkerReports DEF Syncs, Decided
  <2>4. CASE worker[w].pc \notin Decided BY <2>4, WorkerReports
  <2> QED BY <2>1, <2>2, <2>3, <2>4, WorkerReports
<1>4. ASSUME NEW u \in DOMAIN worker
      PROVE  /\ worker'[u].pc \in Decided => worker'[u].outcome # "none"
             /\ worker'[u].outcome = "failed" => CommitCanFail
  <2>1. /\ worker[u].pc \in Decided => worker[u].outcome # "none"
        /\ worker[u].outcome = "failed" => CommitCanFail
    BY DEF DecidedInv, Failed
  <2>2. CASE Commits(w)
    <3>1. worker'[w].outcome \in {"ok"} \cup IF CommitCanFail THEN {"failed"} ELSE {}
      BY <2>2 DEF Commits
    <3> QED BY <2>1, <3>1, WorkerReports
  <2>3. CASE Reports(w)
    <3>1. worker[w].pc = "report" /\ worker'[w].outcome = worker[w].outcome
      BY <2>3 DEF Reports, SameEnd
    <3> QED BY <2>1, <3>1, WorkerReports DEF Decided
  <2>4. CASE Syncs(w)
    <3>1. worker[w].pc = "sync" /\ worker'[w].outcome = worker[w].outcome
      BY <2>4 DEF Syncs
    <3> QED BY <2>1, <3>1, WorkerReports DEF Decided
  <2>5. CASE /\ \A v \in DOMAIN worker : worker'[v].outcome = worker[v].outcome
             /\ worker'[w].pc \notin Decided
    BY <2>1, <2>5, WorkerReports
  <2> QED BY <2>2, <2>3, <2>4, <2>5, WorkerReports
<1>5. ASSUME NEW u \in DOMAIN worker, worker'[u].pc # "queued", NEW v \in DOMAIN worker, v < u
      PROVE  worker'[v].pc \in Decided
  <2>1. worker[u].pc # "queued" \/ (u = w /\ lock = Free)
    <3>1. CASE u # w BY <1>5, <3>1, WorkerReports
    <3>2. CASE u = w
      <4>1. CASE Commits(w) BY <3>2, <4>1 DEF Commits
      <4>2. CASE Reports(w) BY <3>2, <4>2 DEF Reports
      <4>3. CASE Syncs(w) BY <3>2, <4>3 DEF Syncs
      <4> QED BY <3>2, <4>1, <4>2, <4>3, WorkerReports
    <3> QED BY <3>1, <3>2
  <2>2. worker[v].pc \in Decided BY <1>2, <1>5, <2>1 DEF DecidedInv
  <2> QED BY <1>3, <2>2
<1> QED BY <1>1, <1>4, <1>5 DEF DecidedInv, Failed

LEMMA WorkerSynced ==
    ASSUME IInv, IInv', OutcomeInv, DecidedInv, SyncedInv, ~SyncCanFail,
           NEW w \in DOMAIN worker, WorkerStep(w)
    PROVE  SyncedInv'
<1>1. DOMAIN worker' = DOMAIN worker BY WorkerReports
<1>2. ASSUME ~OverlappingSync, NEW v \in DOMAIN worker, worker'[v].outcome = "ok"
      PROVE  worker'[v].durable
  <2>1. CASE Commits(w) /\ v = w BY <1>2, <2>1 DEF Commits
  <2>2. CASE ~(Commits(w) /\ v = w)
    <3>1. worker[v].outcome = "ok"
      <4>1. CASE Reports(w) BY <1>2, <4>1, WorkerReports DEF Reports, SameEnd
      <4>2. CASE Syncs(w) BY <1>2, <4>2 DEF Syncs
      <4> QED BY <1>2, <2>2, <4>1, <4>2, WorkerReports
    <3>2. worker[v].durable /\ worker[v].pc # "commit"
      BY <1>2, <3>1 DEF SyncedInv, OutcomeInv
    <3> QED BY <3>2, WorkerReports
  <2> QED BY <2>1, <2>2
<1>3. ASSUME NEW v \in DOMAIN worker, OnDisk(v), worker[v].pc \in Decided
      PROVE  OnDisk(v)'
  <2>1. ~(Commits(w) /\ v = w) BY <1>3 DEF Commits, Decided
  <2>2. worker'[v].outcome = worker[v].outcome
    <3>1. CASE Reports(w) BY <3>1, WorkerReports DEF Reports, SameEnd
    <3>2. CASE Syncs(w) BY <3>2 DEF Syncs
    <3> QED BY <2>1, <3>1, <3>2, WorkerReports
  <2>3. worker[v].durable => worker'[v].durable BY <1>3, WorkerReports DEF Decided
  <2> QED BY <1>3, <2>2, <2>3 DEF OnDisk, Failed
<1>4. ASSUME NEW u \in DOMAIN worker, NEW v \in DOMAIN worker,
             worker'[u].pc \in {"done", "gone"}, worker'[u].outcome = "ok", v <= u
      PROVE  OnDisk(v)'
  <2>1. v \in Nat /\ u \in Nat BY DiskTypes
  <2>2. CASE worker[u].pc \in {"done", "gone"}
    <3>1. worker[u].outcome = "ok"
      <4>1. CASE Commits(w) BY <1>4, <2>2, <4>1, WorkerReports DEF Commits
      <4>2. CASE Reports(w) BY <1>4, <4>2, WorkerReports DEF Reports, SameEnd
      <4>3. CASE Syncs(w) BY <1>4, <4>3 DEF Syncs
      <4> QED BY <1>4, <4>1, <4>2, <4>3, WorkerReports
    <3>2. OnDisk(v) BY <1>4, <2>2, <3>1 DEF SyncedInv
    <3>3. worker[v].pc \in Decided
      <4>1. CASE v = u BY <2>2, <4>1 DEF Decided
      <4>2. CASE v < u BY <2>2, <4>2 DEF DecidedInv
      <4> QED BY <1>4, <2>1, <4>1, <4>2
    <3> QED BY <1>3, <3>2, <3>3
  <2>3. CASE worker[u].pc \notin {"done", "gone"}
    <3>1. u = w /\ (Reports(w) \/ Syncs(w))
      <4>1. u = w BY <1>4, <2>3, WorkerReports
      <4>2. ~Commits(w) BY <1>4, <4>1 DEF Commits
      <4>3. worker'[w].pc \in Decided BY <1>4, <4>1 DEF Decided
      <4> QED BY <4>1, <4>2, <4>3, WorkerReports
    <3>2. worker[u].pc \in {"report", "sync"} BY <3>1 DEF Reports, Syncs
    <3>3. worker[v].pc \in Decided /\ worker[v].outcome \in {"ok", "failed"}
      <4>1. CASE v = u BY <3>2, <4>1, DiskTypes DEF Decided, DecidedInv
      <4>2. CASE v < u BY <3>2, <4>2, DiskTypes DEF Decided, DecidedInv
      <4> QED BY <1>4, <2>1, <4>1, <4>2
    <3>4. CASE Reports(w)
      <4>1. ~OverlappingSync
        <5>1. worker'[w].outcome = worker[w].outcome /\ worker'[w].pc # "sync"
          BY <1>4, <3>1, <3>4 DEF Reports, SameEnd
        <5>2. ~Failed(w) BY <1>4, <3>1, <5>1 DEF Failed
        <5> QED BY <3>4, <5>1, <5>2 DEF Reports
      <4>2. OnDisk(v) BY <3>3, <4>1 DEF SyncedInv, OnDisk, Failed
      <4> QED BY <1>3, <3>3, <4>2
    <3>5. CASE Syncs(w)
      <4>1. /\ worker'[v].outcome = worker[v].outcome
            /\ worker[v].outcome = "ok" => worker'[v].durable
        BY <3>5 DEF Syncs
      <4> QED BY <3>3, <4>1 DEF OnDisk, Failed
    <3> QED BY <3>1, <3>4, <3>5
  <2> QED BY <2>2, <2>3
<1>5. ASSUME NEW u \in DOMAIN worker, NEW v \in DOMAIN worker,
             worker'[u].durable, worker'[u].outcome = "ok", v <= u
      PROVE  OnDisk(v)'
  <2>1. v \in Nat /\ u \in Nat BY DiskTypes
  <2>2. ASSUME worker[u].pc # "queued", v < u
        PROVE  worker[v].pc \in Decided /\ worker[v].outcome \in {"ok", "failed"}
    BY <2>2, DiskTypes DEF DecidedInv
  <2>3. CASE v = u BY <1>5, <2>3 DEF OnDisk
  <2>4. CASE v < u /\ Commits(w) /\ u = w
    <3>1. ~OverlappingSync /\ worker[u].pc # "queued" BY <1>5, <2>4 DEF Commits
    <3>2. OnDisk(v) BY <2>2, <2>4, <3>1 DEF SyncedInv, OnDisk, Failed
    <3> QED BY <1>3, <2>2, <2>4, <3>1, <3>2
  <2>5. CASE v < u /\ ~(Commits(w) /\ u = w)
    <3>1. worker[u].outcome = "ok" /\ (Syncs(w) \/ worker[u].durable)
      <4>1. CASE Reports(w) BY <1>5, <4>1, WorkerReports DEF Reports, Others, SameEnd
      <4>2. CASE Syncs(w) BY <1>5, <4>2 DEF Syncs
      <4>3. CASE Commits(w) BY <1>5, <2>5, <4>3 DEF Commits, Others
      <4> QED BY <1>5, <4>1, <4>2, <4>3, WorkerReports
    <3>2. worker[u].pc # "queued" BY <3>1 DEF OutcomeInv, ClosedPc
    <3>3. worker[v].pc \in Decided /\ worker[v].outcome \in {"ok", "failed"} BY <2>2, <2>5, <3>2
    <3>4. CASE Syncs(w)
      <4>1. /\ worker'[v].outcome = worker[v].outcome
            /\ worker[v].outcome = "ok" => worker'[v].durable
        BY <3>4 DEF Syncs
      <4> QED BY <3>3, <4>1 DEF OnDisk, Failed
    <3>5. CASE worker[u].durable
      <4>1. OnDisk(v) BY <1>5, <3>1, <3>5 DEF SyncedInv
      <4> QED BY <1>3, <3>3, <4>1
    <3> QED BY <3>1, <3>4, <3>5
  <2> QED BY <1>5, <2>1, <2>3, <2>4, <2>5
<1> QED BY <1>1, <1>2, <1>4, <1>5 DEF SyncedInv

\* Steps of the JavaScript thread decide nothing and write nothing out.
LEMMA JsDisk ==
    ASSUME IInv, IInv', DiskInv, JsWorkers
    PROVE  DiskInv'
<1>1. ASSUME NEW v \in DOMAIN worker
      PROVE  /\ v \in DOMAIN worker' /\ worker'[v].outcome = worker[v].outcome
             /\ worker'[v].durable = worker[v].durable
             /\ worker'[v].pc = worker[v].pc \/ (worker[v].pc = "done" /\ worker'[v].pc = "gone")
  BY DEF JsWorkers, Noted, SameEnd
<1>2. \A v \in DOMAIN worker' : v \in DOMAIN worker \/ (worker'[v].pc = "queued" /\ worker'[v].outcome = "none")
  BY DEF JsWorkers
<1>3. \A w \in DOMAIN worker, v \in DOMAIN worker' : v <= w => v \in DOMAIN worker
  <2> SUFFICES ASSUME NEW w \in DOMAIN worker, NEW v \in DOMAIN worker', v <= w PROVE v \in DOMAIN worker
    OBVIOUS
  <2>1. w \in Nat /\ w <= Len(worker) /\ Len(worker) \in Nat BY EndTypes
  <2>2. v \in Nat /\ v # 0
    <3>1. worker' \in Seq(Worker) BY DEF IInv, TypeOK, TypeWorker
    <3> QED BY <3>1, SeqDomain
  <2>3. 1 <= v /\ v <= Len(worker) BY <2>1, <2>2
  <2> QED BY <2>2, <2>3, EndTypes
<1>4. DecidedInv'
  <2>1. ASSUME NEW w \in DOMAIN worker', worker'[w].pc # "queued", NEW v \in DOMAIN worker', v < w
        PROVE  worker'[v].pc \in Decided
    <3>1. w \in DOMAIN worker /\ worker[w].pc # "queued" BY <1>1, <1>2, <2>1
    <3>2. v <= w
      <4>1. worker' \in Seq(Worker) BY DEF IInv, TypeOK, TypeWorker
      <4>2. v \in Nat /\ w \in Nat BY <4>1, SeqDomain
      <4> QED BY <2>1, <4>2
    <3>3. v \in DOMAIN worker BY <1>3, <3>1, <3>2
    <3>4. worker[v].pc \in Decided BY <2>1, <3>1, <3>3 DEF DiskInv, DecidedInv
    <3> QED BY <1>1, <3>3, <3>4 DEF Decided
  <2>2. ASSUME NEW w \in DOMAIN worker'
        PROVE  /\ worker'[w].pc \in Decided => worker'[w].outcome # "none"
               /\ worker'[w].outcome = "failed" => CommitCanFail
    <3>1. CASE w \in DOMAIN worker
      <4>1. /\ worker[w].pc \in Decided => worker[w].outcome # "none"
            /\ worker[w].outcome = "failed" => CommitCanFail
        BY <3>1 DEF DiskInv, DecidedInv, Failed
      <4> QED BY <1>1, <3>1, <4>1 DEF Decided
    <3>2. CASE w \notin DOMAIN worker BY <1>2, <3>2 DEF Decided
    <3> QED BY <3>1, <3>2
  <2> QED BY <2>1, <2>2 DEF DecidedInv, Failed
<1>5. ASSUME SyncedInv PROVE SyncedInv'
  <2>1. ASSUME ~OverlappingSync, NEW v \in DOMAIN worker', worker'[v].outcome = "ok"
        PROVE  worker'[v].durable
    BY <1>1, <1>2, <1>5, <2>1 DEF SyncedInv
  <2>2. ASSUME NEW w \in DOMAIN worker', NEW v \in DOMAIN worker',
               worker'[w].pc \in {"done", "gone"}, worker'[w].outcome = "ok", v <= w
        PROVE  OnDisk(v)'
    <3>1. w \in DOMAIN worker /\ worker[w].pc \in {"done", "gone"} /\ worker[w].outcome = "ok"
      BY <1>1, <1>2, <2>2
    <3>2. v \in DOMAIN worker BY <1>3, <2>2, <3>1
    <3>3. OnDisk(v) BY <1>5, <2>2, <3>1, <3>2 DEF SyncedInv
    <3> QED BY <1>1, <3>2, <3>3 DEF OnDisk, Failed
  <2>3. ASSUME NEW w \in DOMAIN worker', NEW v \in DOMAIN worker',
               worker'[w].durable, worker'[w].outcome = "ok", v <= w
        PROVE  OnDisk(v)'
    <3>1. w \in DOMAIN worker /\ worker[w].durable /\ worker[w].outcome = "ok" BY <1>1, <1>2, <2>3
    <3>2. v \in DOMAIN worker BY <1>3, <2>3, <3>1
    <3>3. OnDisk(v) BY <1>5, <2>3, <3>1, <3>2 DEF SyncedInv
    <3> QED BY <1>1, <3>2, <3>3 DEF OnDisk, Failed
  <2> QED BY <2>1, <2>2, <2>3 DEF SyncedInv
<1> QED BY <1>4, <1>5 DEF DiskInv

\* What JavaScript does to the workers in any step of its own.
LEMMA JsStepWorkers ==
    ASSUME IInv, IInv',
           \/ \E kind \in Operations : Write(kind) \/ IfVersion(kind)
           \/ EndEventTurn \/ EndIfVersion \/ CallStep \/ RunEnqueuedCommit
           \/ \E w \in DOMAIN worker : CommitProgress(w) \/ CallbackProgress(w) \/ Complete(w)
    PROVE  JsWorkers
<1>1. CASE \E kind \in Operations : Write(kind) \/ IfVersion(kind)
  <2>1. UNCHANGED worker BY <1>1 DEF Write, IfVersion, WriteInstructions
  <2> QED BY <2>1, SameWorkers
<1>2. CASE EndEventTurn \/ EndIfVersion
  <2>1. UNCHANGED worker BY <1>2 DEF EndEventTurn, EndIfVersion
  <2> QED BY <2>1, SameWorkers
<1>3. CASE PublishAtomic
  <2> DEFINE k == FP(call.res)
             seen == word[k]
  <2>1. call.pc = "publish" /\ NoteWrite(call.res, seen)
    BY <1>3 DEF PublishAtomic, CallSlot, FP
  <2>2. k \in Slots /\ OP \notin seen BY <2>1, CallReserved DEF IInv, CallInv, Publishing, Published
  <2>3. TXN_DELIMITER \in seen => OpenDelimiters # {} BY <2>2 DEF OpenDelimiters
  <2> HIDE DEF seen
  <2> QED BY <2>1, <2>3, NoteKeeps
<1>4. CASE NotePlainWrite
  <2>1. call.pc = "note" /\ NoteWrite(call.res, call.seen) BY <1>4 DEF NotePlainWrite
  <2>2. TXN_DELIMITER \notin call.seen BY <2>1 DEF IInv, CallInv
  <2> QED BY <2>1, <2>2, NoteKeeps
<1>5. CASE \/ PublishLoad \/ PublishStore \/ AssignPromise \/ SweepNext \/ SweepEnd \/ SettleTxn
           \/ SettleEnd \/ EndCallback
  <2>1. UNCHANGED worker
    BY <1>5 DEF PublishLoad, PublishStore, AssignPromise, SweepNext, SweepEnd, SettleTxn, SettleEnd,
                EndCallback
  <2> QED BY <2>1, SameWorkers
<1>6. CASE RunEnqueuedCommit
  <2>1. /\ worker' = Append(worker, NewWorker(startAddress, flushResolvers))
        /\ call.pc = "idle" /\ enqueuedCommit
    BY <1>6 DEF RunEnqueuedCommit, StartWriting, EventLoopIdle
  <2>2. ActiveWorkers = {} BY <2>1, PendingAddress DEF IInv, FrontierInv
  <2> QED BY <2>1, <2>2, StartedWorker
<1>7. ASSUME NEW w \in DOMAIN worker, CommitProgress(w) \/ CallbackProgress(w) \/ Complete(w)
      PROVE  JsWorkers
  <2>1. worker[w] \in Worker BY WorkerTypes DEF IInv
  <2>2. PICK e : worker' = [worker EXCEPT ![w] = e] /\ Noted(e, worker[w])
    <3>1. CASE CommitProgress(w)
      <4>1. Noted([worker[w] EXCEPT !.progress = FALSE], worker[w])
        BY <2>1 DEF Noted, SameEnd, Worker
      <4> QED BY <3>1, <4>1 DEF CommitProgress
    <3>2. CASE CallbackProgress(w)
      <4>1. Noted([worker[w] EXCEPT !.finishedProgress = TRUE], worker[w])
        BY <2>1 DEF Noted, SameEnd, Worker
      <4> QED BY <3>2, <4>1 DEF CallbackProgress
    <3>3. CASE Complete(w)
      <4>1. worker[w].pc = "done" BY <3>3 DEF Complete
      <4>2. Noted([worker[w] EXCEPT !.pc = "gone", !.progress = FALSE], worker[w])
        BY <2>1, <4>1 DEF Noted, SameEnd, Worker
      <4> QED BY <3>3, <4>2 DEF Complete
    <3> QED BY <1>7, <3>1, <3>2, <3>3
  <2> QED BY <2>2, NotedWorker
<1> QED BY <1>1, <1>2, <1>3, <1>4, <1>5, <1>6, <1>7 DEF CallStep

\* What is on disk is known in every state.
THEOREM DiskCorrect == Spec => []DiskInv
<1>1. Init => DiskInv
  <2> SUFFICES ASSUME Init PROVE DiskInv OBVIOUS
  <2>1. DOMAIN worker = {} BY DEF Init
  <2> QED BY <2>1 DEF DiskInv, DecidedInv, SyncedInv
<1>2. IInv /\ GroupInv /\ CallbackInv /\ DiskInv /\ IInv' /\ [Next]_vars => DiskInv'
  <2> SUFFICES ASSUME IInv, GroupInv, CallbackInv, DiskInv, IInv', [Next]_vars PROVE DiskInv'
    OBVIOUS
  <2>1. ASSUME NEW w \in DOMAIN worker, WorkerStep(w) PROVE DiskInv'
    <3>1. TxnInv /\ OutcomeInv /\ LockInv /\ DecidedInv
      BY DEF GroupInv, HistoryInv, CallbackInv, DiskInv
    <3>2. DecidedInv' BY <2>1, <3>1, WorkerDecided
    <3>3. ~SyncCanFail => SyncedInv' BY <2>1, <3>1, WorkerSynced DEF DiskInv
    <3> QED BY <3>2, <3>3 DEF DiskInv
  <2>2. CASE UNCHANGED vars
    <3>1. UNCHANGED worker BY <2>2 DEF vars
    <3> QED BY <3>1, SameWorkers, JsDisk
  <2>3. CASE Next
    <3>1. CASE \/ \E kind \in Operations : Write(kind) \/ IfVersion(kind)
               \/ EndEventTurn \/ EndIfVersion \/ CallStep \/ RunEnqueuedCommit
               \/ \E w \in DOMAIN worker : CommitProgress(w) \/ CallbackProgress(w) \/ Complete(w)
      BY <3>1, JsStepWorkers, JsDisk
    <3> QED BY <2>1, <2>3, <3>1 DEF Next
  <2> QED BY <2>2, <2>3
<1> QED BY <1>1, <1>2, InvariantCorrect, GroupCorrect, CallbackCorrect, PTL DEF Spec

-----------------------------------------------------------------------------
(* What a settled promise says. *)

\* Only where the end of its transaction was skipped is a write bypassed.
LEMMA SkippedBypassed ==
    ASSUME IInv, CursorInv, TruthInv, NEW r \in Slots, NEW v \in Ended, v \in DOMAIN worker,
           FP(r) \in 1..Len(log), txnOf[FP(r)] = v, Skipped(End(v))
    PROVE  Bypassed(FP(r))
<1>1. ChainInv /\ ListedInv /\ SpanInv /\ StrictInv
  BY DEF TruthInv, GroupInv, AnswerInv, HistoryInv, ListInv, TxnInv
<1>2. PICK q \in Slots : NextTxn(q) # 0 /\ FP(q) < End(v) /\ End(v) < FP(NextTxn(q)) BY DEF Skipped
<1>3. Is(q) BY <1>1, <1>2 DEF ChainInv
<1>4. PICK u \in Ended : End(u) = FP(q)
  <2>1. \A p \in Places : Is(p) => Closed(FP(p)) BY <1>1 DEF ListedInv
  <2>2. q \in Places BY <1>3 DEF CursorInv, LinkInv
  <2> QED BY <1>3, <2>1, <2>2 DEF Closed
<1>5. u \in Nat /\ v \in Nat /\ v # 0 /\ End(u) \in Nat /\ End(v) \in Nat BY EndTypes
<1>6. ~(v <= u)
  <2>1. u # v BY <1>2, <1>4, <1>5
  <2>2. ~(v < u)
    <3>1. v < u => End(v) < End(u) BY <1>1 DEF StrictInv
    <3> QED BY <1>2, <1>4, <1>5, <3>1
  <2> QED BY <1>5, <2>1, <2>2
<1>7. FP(q) <= FP(r)
  <2>1. ~(FP(r) < End(u)) BY <1>1, <1>6 DEF SpanInv
  <2>2. FP(r) \in Nat BY PlaceTypes
  <2> QED BY <1>4, <1>5, <2>1, <2>2
<1>8. worker[txnOf[FP(r)]].instructions = End(v) BY <1>5 DEF End
<1> QED BY <1>2, <1>7, <1>8 DEF Bypassed, NextTxn, FP

\* A transaction is decided before any later one.
LEMMA DecidedBefore ==
    ASSUME IInv, OutcomeInv, DecidedInv, NEW v \in DOMAIN worker, NEW u \in DOMAIN worker, v <= u,
           worker[u].outcome # "none"
    PROVE  worker[v].pc \in Decided /\ worker[v].outcome \in {"ok", "failed"}
<1>1. worker[u].pc \in Decided BY DEF OutcomeInv, ClosedPc, Decided
<1>2. v \in Nat /\ u \in Nat BY DiskTypes
<1>3. worker[v].pc \in Decided
  <2>1. CASE v = u BY <1>1, <2>1
  <2>2. CASE v < u BY <1>1, <2>2 DEF DecidedInv, Decided
  <2> QED BY <1>2, <2>1, <2>2
<1>4. worker[v].outcome # "none" BY <1>3 DEF DecidedInv
<1> QED BY <1>3, <1>4, DiskTypes

(* Resolve and reject tell every write the truth: its transaction has ended,   *)
(* and is committed if the promise was resolved, failed if it was rejected,    *)
(* for the writes that share the promise of another one as for the others, and *)
(* the answer of a conditional write is the outcome of its condition.  Only    *)
(* what queueCommitResolution (write.js) bypassed, by replacing a link of the  *)
(* list of delimiters, is answered as a later transaction ended.               *)
THEOREM PromiseTruthCorrect == Spec => []PromiseTruth
<1>1. ASSUME IInv, CursorInv, TruthInv, DiskInv PROVE PromiseTruth
  <2> SUFFICES ASSUME NEW r \in Slots, SettledAs(r) # "pending"
               PROVE  /\ txnOf[FP(r)] # 0 /\ worker[txnOf[FP(r)]].outcome # "none"
                      /\ ~Bypassed(FP(r)) => worker[txnOf[FP(r)]].outcome =
                           IF SettledAs(r) = "rejected" THEN "failed" ELSE "ok"
                      /\ Conditional(r) /\ SettledAs(r) # "rejected" =>
                           (SettledAs(r) = "true") = result[FP(r)]
    BY DEF PromiseTruth, FP
  <2>1. PICK v \in Ended :
             /\ v \in DOMAIN worker /\ FP(r) \in 1..Len(log) /\ txnOf[FP(r)] = v
             /\ Answered(SettledAs(r), v)
             /\ Conditional(r) /\ SettledAs(r) # "rejected" => (SettledAs(r) = "true") = result[FP(r)]
    BY <1>1, SettledTogether
  <2>2. v # 0 /\ v \in Nat BY <1>1, <2>1, EndTypes
  <2>3. CASE Agrees(SettledAs(r), v)
    <3>1. worker[v].outcome = IF SettledAs(r) = "rejected" THEN "failed" ELSE "ok"
      BY <2>3 DEF Agrees, Failed, Acknowledged
    <3> QED BY <2>1, <2>2, <3>1
  <2>4. ASSUME Skipped(End(v)), NEW u \in Ended, v < u, Agrees(SettledAs(r), u)
        PROVE  Bypassed(FP(r)) /\ worker[v].outcome # "none"
    <3>1. Bypassed(FP(r)) BY <1>1, <2>1, <2>4, SkippedBypassed
    <3>2. u \in DOMAIN worker /\ v <= u
      <4>1. u \in Nat BY <1>1, EndTypes
      <4>2. u # 0 BY <2>2, <2>4, <4>1
      <4> QED BY <1>1, <2>2, <2>4, <4>1, <4>2, EndTypes
    <3>3. worker[u].outcome # "none" BY <2>4 DEF Agrees, Failed, Acknowledged
    <3>4. OutcomeInv /\ DecidedInv BY <1>1 DEF TruthInv, GroupInv, HistoryInv, DiskInv
    <3>5. worker[v].outcome \in {"ok", "failed"}
      BY <1>1, <2>1, <3>2, <3>3, <3>4, DecidedBefore
    <3> QED BY <3>1, <3>5
  <2> QED BY <2>1, <2>2, <2>3, <2>4 DEF Answered
<1>2. IInv /\ CursorInv /\ TruthInv /\ DiskInv => PromiseTruth BY <1>1
<1> QED BY <1>2, InvariantCorrect, CursorCorrect, TruthCorrect, DiskCorrect, PTL

(* As long as no sync fails, a resolved promise means that the write is on     *)
(* disk, with overlappingSync as without (writer.cpp WriteWorker::Write), or   *)
(* that its transaction was bypassed and failed.                               *)
THEOREM ResolvedDurableCorrect == Spec /\ ~SyncCanFail => []ResolvedIsDurable
<1>1. ASSUME IInv, CursorInv, TruthInv, DiskInv, ~SyncCanFail PROVE ResolvedIsDurable
  <2> SUFFICES ASSUME ~SeparateFlushed, NEW r \in Slots, SettledAs(r) \in {"true", "false"}
               PROVE  \/ worker[txnOf[FP(r)]].durable
                      \/ Bypassed(FP(r)) /\ worker[txnOf[FP(r)]].outcome = "failed"
    BY DEF ResolvedIsDurable, FP
  <2>1. PICK v \in Ended :
             /\ v \in DOMAIN worker /\ FP(r) \in 1..Len(log) /\ txnOf[FP(r)] = v
             /\ Answered(SettledAs(r), v)
    BY <1>1, SettledTogether
  <2>2. CASE Agrees(SettledAs(r), v)
    <3>1. Acknowledged(v) BY <2>2 DEF Agrees
    <3> QED BY <1>1, <2>1, <3>1 DEF Acknowledged
  <2>3. ASSUME Skipped(End(v)), NEW u \in Ended, v < u, Agrees(SettledAs(r), u)
        PROVE  Bypassed(FP(r)) /\ OnDisk(v)
    <3>1. Bypassed(FP(r)) BY <1>1, <2>1, <2>3, SkippedBypassed
    <3>2. Acknowledged(u) BY <2>3 DEF Agrees
    <3>3. worker[u].outcome = "ok" /\ worker[u].durable BY <1>1, <3>2 DEF Acknowledged
    <3>4. u \in DOMAIN worker /\ v <= u
      <4>1. u \in Nat /\ v \in Nat /\ v # 0 BY <1>1, <2>1, EndTypes
      <4>2. u # 0 BY <2>3, <4>1
      <4> QED BY <1>1, <2>3, <4>1, <4>2, EndTypes
    <3>5. OnDisk(v) BY <1>1, <2>1, <3>3, <3>4 DEF DiskInv, SyncedInv
    <3> QED BY <3>1, <3>5
  <2> QED BY <2>1, <2>2, <2>3 DEF Answered, OnDisk, Failed
<1>2. CASE ~SyncCanFail
  <2>1. IInv /\ CursorInv /\ TruthInv /\ DiskInv => ResolvedIsDurable BY <1>1, <1>2
  <2> QED BY <2>1, InvariantCorrect, CursorCorrect, TruthCorrect, DiskCorrect, PTL
<1>3. CASE SyncCanFail BY <1>3
<1> QED BY <1>2, <1>3


-----------------------------------------------------------------------------
(* Flush promises: which workers resolve them, and what is on disk then.     *)

Flush(r) == resolution[r].flush

\* The start of a block is published behind what is in the block only where that block
\* is an event turn; a delimiter seen there is the start address of a worker at once.
TurnInOrder == EventTurnBatching \/ Operations \cap {"COND", "START"} = {}
TurnsInv ==
    /\ Deferred => EventTurnBatching
    /\ EventTurnBatching => startAddress = 0

\* A flush promise that is in use was created by a closure that knows the previous status
\* of its word.
Used(f) == f = flushPromise \/ f \in flushResolvers \/ \E w \in DOMAIN worker : Delivers(w, f)
UsedInv ==
    \A f \in Slots : Used(f) =>
        /\ f \in Reserved /\ Published(f)
        /\ call.pc = "note" => call.res # f
        /\ caller.pc = "note" => caller.res # f

\* The write whose promise has a flush promise lies before the end of the transaction of
\* the worker that resolves it.
CarrierInv ==
    \A w \in DOMAIN worker, q \in Reserved :
        w \in Ended /\ Delivers(w, Flush(q)) /\ Promise(q) = q => FP(q) < End(w)

\* While the start of an event turn is not published, no worker resolves a flush promise
\* of a write in that turn.
Ahead(q) == (Deferred /\ writeBatchStart < q) \/ (Publishing /\ call.res < q)
AheadInv ==
    /\ \A q \in Reserved : Promise(q) = q /\ Ahead(q) =>
           \A w \in DOMAIN worker : ~Delivers(w, Flush(q))
    /\ Deferred => \A w \in DOMAIN worker : ~Delivers(w, flushPromise)

\* The shared flush promise of a worker that closed its transaction is given up by the
\* closure that publishes there.
GivenUpInv ==
    \A w \in DOMAIN worker :
        w \in Ended /\ flushPromise # 0 /\ Delivers(w, flushPromise) => OP \notin word[End(w)]

\* Flush promises are resolved by workers that are done.
IsOver(w) == worker[w].pc = "gone" /\ worker[w].outcome = "ok"
Finishing == call.pc \in {"sweep", "settle", "status"} /\ call.res = 0 /\ call.status = 0
FlushedInv ==
    /\ Finishing => IsOver(call.worker)
    /\ \A f \in flushed : \E w \in DOMAIN worker : Delivers(w, f) /\ IsOver(w)

CarryInv == CarrierInv /\ AheadInv /\ GivenUpInv
FlushInv == TurnsInv /\ UsedInv /\ CarryInv /\ FlushedInv

-----------------------------------------------------------------------------
(* Steps of the workers. *)

LEMMA WorkerFlush ==
    ASSUME IInv, IInv', CursorInv, GroupInv, GroupInv', FlushInv, NEW w \in DOMAIN worker, WorkerStep(w)
    PROVE  FlushInv'
<1>1. /\ UNCHANGED <<resolution, nextResolution, position, blocks, writeBatchStart, startAddress,
                     call, caller, flushPromise, flushResolvers, flushed>>
      /\ DOMAIN worker' = DOMAIN worker
  BY WorkerEffect DEF jsVars, reserveVars, batchVars, startVars, promiseVars, settleVars
<1>2. \A f : \A v \in DOMAIN worker : Delivers(v, f)' <=> Delivers(v, f)
  BY WorkerReports DEF Delivers
<1>3. \A s \in Slots : OP \in word'[s] <=> OP \in word[s] BY WorkerOps
<1>4. /\ Reserved' = Reserved /\ (Deferred' <=> Deferred) /\ (Publishing' <=> Publishing)
      /\ \A q : Promise(q)' = Promise(q) /\ FP(q)' = FP(q) /\ Flush(q)' = Flush(q)
      /\ \A q : Ahead(q)' <=> Ahead(q)
  BY <1>1 DEF Reserved, Deferred, Publishing, Promise, FP, Flush, Ahead
<1>5. TurnsInv' BY <1>1, <1>4 DEF FlushInv, TurnsInv
<1>6. UsedInv'
  <2> SUFFICES ASSUME NEW f \in Slots, Used(f)'
               PROVE  /\ f \in Reserved' /\ Published(f)'
                      /\ call'.pc = "note" => call'.res # f
                      /\ caller'.pc = "note" => caller'.res # f
    BY DEF UsedInv
  <2>1. Used(f) BY <1>1, <1>2 DEF Used
  <2>2. /\ f \in Reserved /\ Published(f)
        /\ call.pc = "note" => call.res # f
        /\ caller.pc = "note" => caller.res # f
    BY <2>1 DEF FlushInv, UsedInv
  <2>3. FP(f) \in Slots BY <2>2, ReservedTypes
  <2> QED BY <1>1, <1>3, <1>4, <2>2, <2>3 DEF Published
<1>7. /\ TxnInv' /\ EndsGrow
      /\ \/ \A s : Closed(s)' <=> Closed(s)
         \/ Delimits(w) /\ \A s : Closed(s)' <=> Closed(s) \/ s = Frontier
  <2>1. ExecutedInv /\ TxnInv /\ OpenInv BY DEF GroupInv, HistoryInv, CursorInv
  <2> QED BY <2>1, WorkerTxns
<1>8. ASSUME NEW v \in DOMAIN worker, v \in Ended'
      PROVE  \/ v \in Ended /\ End(v)' = End(v)
             \/ Delimits(w) /\ v = w /\ End(v)' = Frontier
  <2>1. v \in Nat /\ v # 0 /\ v \in DOMAIN worker' BY <1>1, DiskTypes
  <2>2. worker'[v].pc \in ClosedPc BY <1>8, <2>1 DEF Ended
  <2>3. CASE v \in Ended BY <1>7, <2>3 DEF EndsGrow
  <2>4. CASE v \notin Ended
    <3>1. worker[v].pc \notin ClosedPc BY <2>4, EndTypes
    <3>2. v = w BY <2>2, <3>1, WorkerReports
    <3>3. Delimits(w)
      <4>1. ~Moves(w) /\ ~Waits(w) /\ ~Stores(w) /\ ~Executing(w)
        BY <2>2, <3>2 DEF Moves, Waits, Stores, Executing, Runs, RunsMarked, RunsEnd, ClosedPc
      <4>2. ~Commits(w) /\ ~Reports(w) /\ ~Syncs(w)
        BY <3>1, <3>2 DEF Commits, Reports, Syncs, ClosedPc
      <4> QED BY <4>1, <4>2, WorkerEffect
    <3>4. End(v)' = Frontier BY <2>1, <3>2, <3>3 DEF Delimits, End
    <3> QED BY <3>2, <3>3, <3>4
  <2> QED BY <2>3, <2>4
<1>9. AheadInv' BY <1>1, <1>2, <1>4 DEF FlushInv, CarryInv, AheadInv
<1>10. CarrierInv'
  <2> SUFFICES ASSUME NEW v \in DOMAIN worker, NEW q \in Reserved,
                      v \in Ended', Delivers(v, Flush(q)), Promise(q) = q
               PROVE  FP(q) < End(v)'
    BY <1>1, <1>2, <1>4 DEF CarrierInv
  <2>1. CASE v \in Ended /\ End(v)' = End(v)
    BY <2>1 DEF FlushInv, CarryInv, CarrierInv
  <2>2. CASE Delimits(w) /\ v = w /\ End(v)' = Frontier
    <3>1. q \in Slots /\ q \in Nat /\ q # 0 /\ q \in Places /\ FP(q) \in Slots /\ FP(q) \in Nat /\ FP(q) < position
      BY ReservedTypes
    <3>2. Published(q)
      <4>1. Promise(q) # NoPromise BY <3>1 DEF NoPromise
      <4> QED BY <3>1, <4>1 DEF GroupInv, PromisesInv, AssignedTo
    <3>3. OP \notin word[Frontier] BY <2>2 DEF Delimits, Stops
    <3>4. FP(q) # Frontier BY <3>2, <3>3 DEF Published
    <3>5. ASSUME FP(q) > Frontier PROVE FALSE
      <4>1. Frontier \in 1..(position - 1)
        <5>1. Frontier \in Nat /\ Frontier >= 1 /\ position \in Nat BY SlotTypes, PositionTypes
        <5> QED BY <3>1, <3>5, <5>1
      <4>2. \/ Publishing /\ Frontier = FP(call.res)
            \/ Deferred /\ Frontier = FP(writeBatchStart)
        BY <3>3, <4>1 DEF GroupInv, PromisesInv, UnpublishedInv
      <4>3. ASSUME NEW x \in Reserved, Frontier = FP(x) PROVE x < q
        <5>1. x \in Nat /\ x \in Places BY ReservedTypes
        <5>2. x # q BY <3>5, <4>3, <3>1
        <5>3. ~(q < x)
          <6>1. q < x => FP(q) < FP(x) BY <3>1, <5>1 DEF CursorInv, OrderInv
          <6>2. Frontier \in Nat BY SlotTypes
          <6> QED BY <3>1, <3>5, <4>3, <6>1, <6>2
        <5> QED BY <3>1, <5>1, <5>2, <5>3
      <4>4. Ahead(q)
        <5>1. CASE Publishing /\ Frontier = FP(call.res)
          <6>1. call.res \in Reserved BY <5>1, CallReserved
          <6> QED BY <4>3, <5>1, <6>1 DEF Ahead
        <5>2. CASE Deferred /\ Frontier = FP(writeBatchStart)
          <6>1. writeBatchStart \in Reserved BY <5>2 DEF Deferred, IInv, DeferredInv
          <6> QED BY <4>3, <5>2, <6>1 DEF Ahead
        <5> QED BY <4>2, <5>1, <5>2
      <4> QED BY <4>4 DEF FlushInv, CarryInv, AheadInv
    <3>6. Frontier \in Nat BY SlotTypes
    <3> QED BY <2>2, <3>1, <3>4, <3>5, <3>6
  <2> QED BY <1>8, <2>1, <2>2
<1>11. GivenUpInv'
  <2> SUFFICES ASSUME NEW v \in DOMAIN worker, v \in Ended', flushPromise # 0, Delivers(v, flushPromise)
               PROVE  OP \notin word'[End(v)']
    BY <1>1, <1>2 DEF GivenUpInv
  <2>1. CASE v \in Ended /\ End(v)' = End(v)
    <3>1. OP \notin word[End(v)] /\ End(v) \in Slots
      BY <2>1, EndTypes DEF FlushInv, CarryInv, GivenUpInv
    <3> QED BY <1>3, <2>1, <3>1
  <2>2. CASE Delimits(w) /\ End(v)' = Frontier
    <3>1. OP \notin word[Frontier] /\ Frontier \in Slots BY <2>2 DEF Delimits, Stops
    <3> QED BY <1>3, <2>2, <3>1
  <2> QED BY <1>8, <2>1, <2>2
<1>12. FlushedInv'
  <2>1. ASSUME NEW v \in DOMAIN worker, IsOver(v) PROVE IsOver(v)'
    <3>1. worker[v].pc = "gone" /\ worker[v].outcome = "ok" BY <2>1 DEF IsOver
    <3>2. v # w BY <3>1 DEF WorkerStep, BeginTxn, ExecuteWrite, ExecuteStart, ExecuteCall, ExecuteEnd,
            StoreFinished, WaitForOperation, WakeUp, Delimit, Commit, ReportCommit, Sync, Executes, Running
    <3> QED BY <3>1, <3>2, WorkerReports DEF IsOver
  <2>2. Finishing' => IsOver(call.worker)'
    <3> SUFFICES ASSUME Finishing PROVE IsOver(call.worker)'
      BY <1>1 DEF Finishing
    <3>1. call.worker \in DOMAIN worker BY DEF Finishing, IInv, CallInv
    <3>2. PICK v \in DOMAIN worker : v = call.worker BY <3>1
    <3>3. IsOver(v)' BY <2>1, <3>2 DEF FlushInv, FlushedInv
    <3> QED BY <1>1, <3>2, <3>3 DEF IsOver
  <2>3. \A f \in flushed' : \E v \in DOMAIN worker' : Delivers(v, f)' /\ IsOver(v)'
    BY <1>1, <1>2, <2>1 DEF FlushInv, FlushedInv
  <2> QED BY <2>2, <2>3 DEF FlushedInv
<1> QED BY <1>5, <1>6, <1>9, <1>10, <1>11, <1>12 DEF FlushInv, CarryInv

-----------------------------------------------------------------------------
(* Steps of the JavaScript thread. *)

\* They leave promises and flush promises as they are (but for AssignPromise).
FlushFrame ==
    /\ JsWorkers /\ JsWords
    /\ \A q \in Slots : Promise(q)' = Promise(q)
    /\ \A q \in Reserved : q \in Reserved' /\ FP(q)' = FP(q) /\ Flush(q)' = Flush(q)

\* No step gets behind an unpublished slot, and a worker is started when there is none.
HolesKept ==
    /\ \A q \in Reserved : Ahead(q)' => Ahead(q)
    /\ DOMAIN worker' = DOMAIN worker \/ (~Deferred' /\ ~Publishing')

\* The shared flush promise is a new one, or it is kept and no closed slot is published.
SharedKept ==
    \/ \A w \in DOMAIN worker : ~Delivers(w, flushPromise')
    \/ /\ flushPromise' = flushPromise /\ (Deferred' => Deferred)
       /\ \A s \in Slots : OP \in word'[s] => OP \in word[s] \/ ~Closed(s)

\* The workers so far keep what they deliver, and where they ended.
LEMMA JsSame ==
    ASSUME IInv, IInv', JsWorkers
    PROVE  /\ EndsKept
           /\ \A w \in DOMAIN worker :
                /\ w \in DOMAIN worker' /\ (IsOver(w) => IsOver(w)')
                /\ worker'[w].resolvers = worker[w].resolvers
           /\ \A w \in DOMAIN worker' : w \notin DOMAIN worker => w \notin Ended'
<1>1. \A v \in DOMAIN worker : /\ worker'[v].pc \in ClosedPc <=> worker[v].pc \in ClosedPc
                               /\ worker'[v].instructions = worker[v].instructions
                               /\ v \in DOMAIN worker'
  BY DEF JsWorkers, Noted, SameEnd, ClosedPc
<1>2. \A v \in DOMAIN worker' : v \in DOMAIN worker \/ worker'[v].pc \notin ClosedPc
  BY DEF JsWorkers, ClosedPc
<1>3. EndsKept BY <1>1, <1>2, KeepEnds
<1>4. \A w \in DOMAIN worker : /\ IsOver(w) => IsOver(w)'
                               /\ worker'[w].resolvers = worker[w].resolvers
  BY DEF JsWorkers, Noted, SameEnd, IsOver
<1>5. ASSUME NEW w \in DOMAIN worker', w \notin DOMAIN worker PROVE w \notin Ended'
  <2>1. w # 0
    <3>1. worker' \in Seq(Worker) BY DEF IInv, TypeOK, TypeWorker
    <3> QED BY <3>1, SeqDomain
  <2> QED BY <1>2, <1>5, <2>1 DEF Ended
<1> QED BY <1>1, <1>3, <1>4, <1>5

\* A promise hangs on a reserved slot.
LEMMA OwnPromise ==
    ASSUME IInv, GroupInv, NEW q \in Slots, Promise(q) = q
    PROVE  q \in Reserved /\ Published(q)
<1>1. q # 0 BY SlotTypes
<1> QED BY <1>1 DEF GroupInv, PromisesInv, AssignedTo, NoPromise

\* Whatever lies before a resolution is the number of one.
LEMMA BelowSlots ==
    ASSUME NEW n \in 1..(MaxSlots + 1), NEW q \in 1..(n - 1)
    PROVE  q \in Slots
BY BoundsAssumption DEF Slots

LEMMA KeepCarry ==
    ASSUME IInv, IInv', GroupInv, CarryInv, FlushFrame, HolesKept, SharedKept
    PROVE  CarryInv'
<1>1. \A w \in DOMAIN worker : /\ w \in DOMAIN worker'
                               /\ worker'[w].resolvers = worker[w].resolvers
  BY JsSame DEF FlushFrame
<1>2. /\ Ended' = Ended /\ \A w \in Ended : End(w)' = End(w)
      /\ \A w \in DOMAIN worker' : w \notin DOMAIN worker => w \notin Ended'
  BY JsSame DEF FlushFrame, EndsKept, EndsGrow
<1>3. ASSUME NEW q, q \in Reserved', Promise(q)' = q
      PROVE  q \in Reserved /\ Promise(q) = q /\ FP(q)' = FP(q) /\ Flush(q)' = Flush(q)
  <2>1. q \in Slots
    <3>1. nextResolution' \in 1..(MaxSlots + 1) BY DEF IInv, TypeOK, TypeReserve, Slots
    <3>2. q \in 1..(nextResolution' - 1) BY <1>3 DEF Reserved
    <3> QED BY <3>1, <3>2, BelowSlots
  <2>2. Promise(q) = q BY <1>3, <2>1 DEF FlushFrame
  <2>3. q \in Reserved BY <2>1, <2>2, OwnPromise
  <2> QED BY <2>2, <2>3 DEF FlushFrame
<1>4. CarrierInv'
  <2> SUFFICES ASSUME NEW w \in DOMAIN worker', NEW q \in Reserved',
                      w \in Ended', Delivers(w, Flush(q))', Promise(q)' = q
               PROVE  FP(q)' < End(w)'
    BY DEF CarrierInv
  <2>1. w \in DOMAIN worker /\ w \in Ended /\ End(w)' = End(w) BY <1>2
  <2>2. Delivers(w, Flush(q)) BY <1>1, <1>3, <2>1 DEF Delivers
  <2> QED BY <1>3, <2>1, <2>2 DEF CarryInv, CarrierInv
<1>5. AheadInv'
  <2>1. ASSUME NEW q \in Reserved', Promise(q)' = q, Ahead(q)', NEW w \in DOMAIN worker'
        PROVE  ~Delivers(w, Flush(q))'
    <3>1. Deferred' \/ Publishing' BY <2>1 DEF Ahead
    <3>2. w \in DOMAIN worker BY <3>1 DEF HolesKept
    <3>3. ~Delivers(w, Flush(q)) BY <1>3, <2>1, <3>2 DEF HolesKept, CarryInv, AheadInv
    <3> QED BY <1>1, <1>3, <2>1, <3>2, <3>3 DEF Delivers
  <2>2. ASSUME Deferred', NEW w \in DOMAIN worker'
        PROVE  ~Delivers(w, flushPromise)'
    <3>1. w \in DOMAIN worker BY <2>2 DEF HolesKept
    <3>2. ~Delivers(w, flushPromise') BY <2>2, <3>1 DEF SharedKept, CarryInv, AheadInv
    <3> QED BY <1>1, <3>1, <3>2 DEF Delivers
  <2> QED BY <2>1, <2>2 DEF AheadInv
<1>6. GivenUpInv'
  <2> SUFFICES ASSUME NEW w \in DOMAIN worker', w \in Ended', flushPromise' # 0,
                      Delivers(w, flushPromise)'
               PROVE  OP \notin word'[End(w)']
    BY DEF GivenUpInv
  <2>1. w \in DOMAIN worker /\ w \in Ended /\ End(w)' = End(w) BY <1>2
  <2>3. Delivers(w, flushPromise') BY <1>1, <2>1 DEF Delivers
  <2>4. /\ flushPromise' = flushPromise
        /\ \A s \in Slots : OP \in word'[s] => OP \in word[s] \/ ~Closed(s)
    BY <2>1, <2>3 DEF SharedKept
  <2>5. OP \notin word[End(w)] BY <2>1, <2>3, <2>4 DEF CarryInv, GivenUpInv
  <2>6. Closed(End(w)) BY <2>1 DEF Closed
  <2>7. End(w) \in Slots BY <2>1, EndTypes
  <2> QED BY <2>1, <2>4, <2>5, <2>6, <2>7
<1> QED BY <1>4, <1>5, <1>6 DEF CarryInv

\* What is published stays published.
LEMMA JsPublished ==
    ASSUME IInv, FlushFrame, NEW q \in Reserved, Published(q)
    PROVE  Published(q)'
<1>1. FP(q) \in Slots /\ FP(q)' = FP(q) BY ReservedTypes DEF FlushFrame
<1> QED BY <1>1 DEF FlushFrame, JsWords, Published

\* A flush promise gets into use when the closure of its slot notes what it published.
LEMMA KeepUsed ==
    ASSUME IInv, UsedInv, FlushFrame,
           \A f \in Slots : Used(f)' => \/ Used(f)
                                        \/ /\ f = call.res /\ f \in Reserved /\ Published(f)'
                                           /\ call'.pc # "note" /\ call.pc \in {"publish", "note"}
                                           /\ UNCHANGED caller /\ (caller.pc = "note" => caller.res # f),
           call'.pc = "note" => \/ call.pc = "note" /\ call'.res = call.res
                                \/ caller.pc = "note" /\ call'.res = caller.res
                                \/ ~Published(call'.res),
           caller'.pc = "note" => \/ caller.pc = "note" /\ caller'.res = caller.res
                                  \/ ~Published(caller'.res)
    PROVE  UsedInv'
<1> SUFFICES ASSUME NEW f \in Slots, Used(f)'
             PROVE  /\ f \in Reserved' /\ Published(f)'
                    /\ call'.pc = "note" => call'.res # f
                    /\ caller'.pc = "note" => caller'.res # f
  BY DEF UsedInv
<1>1. CASE Used(f)
  <2>1. /\ f \in Reserved /\ Published(f)
        /\ call.pc = "note" => call.res # f
        /\ caller.pc = "note" => caller.res # f
    BY <1>1 DEF UsedInv
  <2>2. f \in Reserved' /\ Published(f)' BY <2>1, JsPublished DEF FlushFrame
  <2> QED BY <2>1, <2>2
<1>2. CASE /\ f = call.res /\ f \in Reserved /\ Published(f)' /\ call'.pc # "note"
           /\ UNCHANGED caller /\ (caller.pc = "note" => caller.res # f)
  BY <1>2 DEF FlushFrame
<1> QED BY <1>1, <1>2

\* Nothing is flushed but what the callback of a worker that is done says.
LEMMA KeepFlushed ==
    ASSUME IInv, IInv', FlushedInv, JsWorkers, UNCHANGED flushed,
           Finishing' => Finishing /\ call'.worker = call.worker
    PROVE  FlushedInv'
<1>1. \A w \in DOMAIN worker :
        /\ w \in DOMAIN worker' /\ (IsOver(w) => IsOver(w)')
        /\ \A f : Delivers(w, f)' <=> Delivers(w, f)
  BY JsSame DEF Delivers
<1>2. ASSUME Finishing' PROVE IsOver(call.worker)'
  <2>1. Finishing /\ call.worker \in DOMAIN worker BY <1>2 DEF Finishing, IInv, CallInv
  <2>2. PICK v \in DOMAIN worker : v = call.worker BY <2>1
  <2>3. IsOver(v)' BY <1>1, <2>1, <2>2 DEF FlushedInv
  <2> QED BY <1>2, <2>2, <2>3 DEF IsOver
<1>3. \A f \in flushed' : \E w \in DOMAIN worker' : Delivers(w, f)' /\ IsOver(w)'
  BY <1>1 DEF FlushedInv
<1> QED BY <1>2, <1>3 DEF FlushedInv

\* Nothing is reserved, published or promised, and the running closure stays the same or
\* returns.
LEMMA QuietFlush ==
    ASSUME IInv, IInv', GroupInv, FlushInv, JsWorkers,
           UNCHANGED <<word, blocks, writeBatchStart, flushPromise, caller, nextResolution>>,
           startAddress' \in {startAddress, 0},
           \A q \in Slots : Promise(q)' = Promise(q) /\ FP(q)' = FP(q) /\ Flush(q)' = Flush(q),
           \A f \in Slots : Used(f)' => Used(f),
           DOMAIN worker' = DOMAIN worker \/ (~Deferred' /\ ~Publishing'),
           Publishing' => Publishing /\ call'.res = call.res,
           call'.pc = "note" => call.pc = "note" /\ call'.res = call.res
    PROVE  TurnsInv' /\ UsedInv' /\ CarryInv'
<1>1. Reserved' = Reserved /\ (Deferred' <=> Deferred) BY DEF Reserved, Deferred
<1>2. \A q \in Reserved : q \in Slots BY ReservedTypes
<1>3. FlushFrame BY <1>1, <1>2 DEF FlushFrame, JsWords
<1>4. HolesKept BY <1>1 DEF HolesKept, Ahead
<1>5. SharedKept BY <1>1 DEF SharedKept
<1>6. CarryInv' BY <1>3, <1>4, <1>5, KeepCarry DEF FlushInv
<1>7. UsedInv' BY <1>3, KeepUsed DEF FlushInv
<1>8. TurnsInv' BY <1>1 DEF FlushInv, TurnsInv
<1> QED BY <1>6, <1>7, <1>8

\* The workers so far deliver what they did.
LEMMA SameUsed ==
    ASSUME UNCHANGED <<flushPromise, flushResolvers>>, DOMAIN worker' = DOMAIN worker,
           \A w \in DOMAIN worker : worker'[w].resolvers = worker[w].resolvers
    PROVE  \A f : Used(f)' => Used(f)
BY DEF Used, Delivers

\* The steps of the running function that only move on.
LEMMA CounterFlush ==
    ASSUME IInv, IInv', GroupInv, FlushInv, PublishLoad \/ SweepEnd \/ SettleEnd
    PROVE  FlushInv' /\ JsWorkers
<1>1. /\ UNCHANGED <<word, blocks, writeBatchStart, flushPromise, flushResolvers, caller, nextResolution,
                     startAddress, resolution, worker, flushed>>
  BY DEF PublishLoad, SweepEnd, SettleEnd, reserveVars, batchVars, settleVars, promiseVars, startVars
<1>2. /\ call'.res = call.res /\ call'.worker = call.worker /\ call'.status = call.status
      /\ call'.pc \in {"publish", "store"} => call.pc \in {"publish", "store"}
      /\ call'.pc \in {"sweep", "settle", "status"} => call.pc \in {"sweep", "settle", "status"}
      /\ call'.pc # "note"
  BY DEF PublishLoad, SweepEnd, SettleEnd, IInv, TypeOK, TypeCall, Call
<1>3. \A q \in Slots : Promise(q)' = Promise(q) /\ FP(q)' = FP(q) /\ Flush(q)' = Flush(q)
  BY <1>1 DEF Promise, FP, Flush
<1>4. JsWorkers BY <1>1, SameWorkers
<1>5. \A f \in Slots : Used(f)' => Used(f) BY <1>1, SameUsed
<1>6. (Publishing' => Publishing) /\ (Finishing' => Finishing) BY <1>2 DEF Publishing, Finishing
<1>7. TurnsInv' /\ UsedInv' /\ CarryInv' BY <1>1, <1>2, <1>3, <1>4, <1>5, <1>6, QuietFlush
<1>8. FlushedInv' BY <1>1, <1>2, <1>4, <1>6, KeepFlushed DEF FlushInv
<1> QED BY <1>7, <1>8, <1>4 DEF FlushInv

\* What resolveWrites reads and settles.
LEMMA ResolveFlush ==
    ASSUME IInv, IInv', GroupInv, FlushInv, SweepNext \/ SettleTxn
    PROVE  FlushInv' /\ JsWorkers
<1>1. /\ UNCHANGED <<word, blocks, writeBatchStart, flushPromise, flushResolvers, caller, nextResolution,
                     startAddress, worker, flushed, call>>
      /\ call.pc \in {"sweep", "settle"}
  BY DEF SweepNext, SettleTxn, reserveVars, batchVars, promiseVars, startVars
<1>2. ASSUME NEW q \in Slots
      PROVE  Promise(q)' = Promise(q) /\ FP(q)' = FP(q) /\ Flush(q)' = Flush(q)
  <2>1. resolution[q] \in Resolution /\ resolution \in [Slots -> Resolution]
    BY DEF IInv, TypeOK, TypeReserve
  <2>2. CASE SweepNext
    <3> DEFINE u == unwrittenResolution
               seen == word[FP(u)]
               let == LetGo(u)
               e == [resolution[u] EXCEPT !.callbacks = 0, !.flag = seen, !.released = let]
    <3>1. resolution' = [resolution EXCEPT ![u] = e] BY <2>2 DEF SweepNext, FP
    <3>2. q = u => /\ e.promise = resolution[q].promise /\ e.flush = resolution[q].flush
                   /\ e.flagPosition = resolution[q].flagPosition
      BY <2>1 DEF Resolution
    <3> HIDE DEF e
    <3>3. resolution'[q] = IF q = u THEN e ELSE resolution[q] BY <2>1, <3>1
    <3> QED BY <3>2, <3>3 DEF Promise, FP, Flush
  <2>3. CASE SettleTxn
    <3>1. \E o : resolution'[q] = [resolution[q] EXCEPT !.settled = o] \/ resolution'[q] = resolution[q]
      BY <2>3 DEF SettleTxn
    <3>2. PICK o : resolution'[q] = [resolution[q] EXCEPT !.settled = o] \/ resolution'[q] = resolution[q]
      BY <3>1
    <3> QED BY <2>1, <3>2 DEF Resolution, Promise, FP, Flush
  <2> QED BY <2>2, <2>3
<1>3. JsWorkers BY <1>1, SameWorkers
<1>4. \A f \in Slots : Used(f)' => Used(f) BY <1>1, SameUsed
<1>5. (Publishing' => Publishing) /\ (Finishing' => Finishing) BY <1>1 DEF Publishing, Finishing
<1>6. TurnsInv' /\ UsedInv' /\ CarryInv' BY <1>1, <1>2, <1>3, <1>4, <1>5, QuietFlush
<1>7. FlushedInv' BY <1>1, <1>3, <1>5, KeepFlushed DEF FlushInv
<1> QED BY <1>6, <1>7, <1>3 DEF FlushInv

\* The end of a callback resolves the flush promises of a worker that is done.
LEMMA EndFlush ==
    ASSUME IInv, IInv', GroupInv, FlushInv, EndCallback
    PROVE  FlushInv' /\ JsWorkers
<1>1. /\ UNCHANGED <<word, blocks, writeBatchStart, flushPromise, flushResolvers, caller, nextResolution,
                     startAddress, resolution, worker>>
      /\ call.pc = "status" /\ call'.pc = "idle"
      /\ flushed' = IF call.status = 0 THEN flushed \cup worker[call.worker].resolvers ELSE flushed
  BY IdleCall DEF EndCallback, reserveVars, batchVars, promiseVars, startVars
<1>2. \A q \in Slots : Promise(q)' = Promise(q) /\ FP(q)' = FP(q) /\ Flush(q)' = Flush(q)
  BY <1>1 DEF Promise, FP, Flush
<1>3. JsWorkers BY <1>1, SameWorkers
<1>4. \A f \in Slots : Used(f)' => Used(f) BY <1>1, SameUsed
<1>5. ~Publishing' /\ ~Finishing' BY <1>1 DEF Publishing, Finishing
<1>6. TurnsInv' /\ UsedInv' /\ CarryInv' BY <1>1, <1>2, <1>3, <1>4, <1>5, QuietFlush
<1>7. call.worker \in DOMAIN worker /\ call.res = 0 BY <1>1 DEF IInv, CallInv
<1>8. ASSUME NEW f \in flushed' PROVE \E w \in DOMAIN worker' : Delivers(w, f)' /\ IsOver(w)'
  <2>1. \E w \in DOMAIN worker : Delivers(w, f) /\ IsOver(w)
    <3>1. CASE f \in flushed BY <3>1 DEF FlushInv, FlushedInv
    <3>2. CASE call.status = 0 /\ f \in worker[call.worker].resolvers
      <4>1. IsOver(call.worker) BY <1>1, <1>7, <3>2 DEF FlushInv, FlushedInv, Finishing
      <4> QED BY <1>7, <3>2, <4>1 DEF Delivers
    <3> QED BY <1>1, <3>1, <3>2
  <2> QED BY <1>1, <2>1 DEF Delivers, IsOver
<1>9. FlushedInv' BY <1>5, <1>8 DEF FlushedInv
<1> QED BY <1>6, <1>9, <1>3 DEF FlushInv

\* A new worker delivers the flush promises handed to it.
LEMMA StartedDelivers ==
    ASSUME IInv, NEW address, NEW resolvers,
           worker' = Append(worker, NewWorker(address, resolvers))
    PROVE  \A f : \A v \in DOMAIN worker' :
               Delivers(v, f)' => f \in resolvers \/ \E u \in DOMAIN worker : Delivers(u, f)
<1> DEFINE e == NewWorker(address, resolvers)
           n == Len(worker) + 1
<1>1. e.resolvers = resolvers BY DEF NewWorker
<1> HIDE DEF e
<1>2. /\ worker'[n] = e /\ \A v \in DOMAIN worker : worker'[v] = worker[v]
      /\ \A v \in DOMAIN worker' : v \in DOMAIN worker \/ v = n
  <2>1. worker \in Seq(Worker) /\ Len(worker) \in Nat /\ DOMAIN worker = 1..Len(worker)
    BY EndTypes DEF IInv, TypeOK, TypeWorker
  <2>2. worker' = Append(worker, e) BY DEF e
  <2> QED BY <2>1, <2>2
<1> HIDE DEF n
<1>3. \A v \in DOMAIN worker' :
        \/ worker'[v].resolvers = resolvers
        \/ v \in DOMAIN worker /\ worker'[v].resolvers = worker[v].resolvers
  BY <1>1, <1>2
<1> QED BY <1>3 DEF Delivers

\* The task that starts a worker: no event turn is open.
LEMMA StartFlush ==
    ASSUME IInv, IInv', GroupInv, FlushInv, RunEnqueuedCommit
    PROVE  FlushInv' /\ JsWorkers
<1>1. /\ UNCHANGED <<word, blocks, writeBatchStart, flushPromise, caller, nextResolution, resolution,
                     flushed, call>>
      /\ enqueuedCommit /\ startAddress' = 0 /\ flushResolvers' = {}
      /\ worker' = Append(worker, NewWorker(startAddress, flushResolvers))
      /\ call.pc = "idle"
  BY DEF RunEnqueuedCommit, StartWriting, EventLoopIdle, reserveVars, batchVars, promiseVars, settleVars
<1>2. JsWorkers
  <2>1. ActiveWorkers = {} BY <1>1, PendingAddress DEF IInv, FrontierInv
  <2> QED BY <1>1, <2>1, StartedWorker
<1>3. \A q \in Slots : Promise(q)' = Promise(q) /\ FP(q)' = FP(q) /\ Flush(q)' = Flush(q)
  BY <1>1 DEF Promise, FP, Flush
<1>4. ~Deferred' /\ ~Publishing'
  <2>1. startAddress # 0 BY <1>1 DEF IInv, FrontierInv
  <2>2. ~Deferred BY <2>1 DEF FlushInv, TurnsInv
  <2> QED BY <1>1, <2>2 DEF Deferred, Publishing
<1>5. ASSUME NEW f \in Slots, Used(f)' PROVE Used(f)
  BY <1>1, <1>5, StartedDelivers DEF Used
<1>6. TurnsInv' /\ UsedInv' /\ CarryInv' BY <1>1, <1>2, <1>3, <1>4, <1>5, QuietFlush
<1>7. ~Finishing' BY <1>1 DEF Finishing
<1>8. FlushedInv' BY <1>1, <1>2, <1>7, KeepFlushed DEF FlushInv
<1> QED BY <1>6, <1>8, <1>2 DEF FlushInv

\* A callback begins: it only looks for a delimiter that no write published into.
LEMMA CallbackFlush ==
    ASSUME IInv, IInv', GroupInv, FlushInv, JsWorkers, DOMAIN worker' = DOMAIN worker,
           NEW w \in DOMAIN worker, NEW status \in 0..3, Callback(w, status),
           status = 0 => IsOver(w)'
    PROVE  FlushInv'
<1>1. /\ UNCHANGED <<word, nextResolution, blocks, writeBatchStart, caller, flushPromise, startAddress,
                     flushResolvers, flushed>>
      /\ call' = CallbackCall(w, status) /\ w \in Nat
      /\ IF TXN_DELIMITER \in word[position] THEN QueueCommitResolution(nextResolution)
         ELSE UNCHANGED <<resolution, txnResolution>>
  BY WorkerTypes DEF Callback, reserveVars, batchVars, promiseVars, startVars, IInv
<1>2. call'.pc = "sweep" /\ call'.worker = w /\ call'.status = status
  BY <1>1, CallbackCallRecord, CallStatus
<1>3. ~Publishing' /\ call'.pc # "note" BY <1>2 DEF Publishing
<1>4. \A q \in Slots : Promise(q)' = Promise(q) /\ FP(q)' = FP(q) /\ Flush(q)' = Flush(q)
  <2>1. CASE TXN_DELIMITER \notin word[position] BY <1>1, <2>1 DEF Promise, FP, Flush
  <2>2. CASE TXN_DELIMITER \in word[position]
    <3>1. PICK n \in Places : n = nextResolution
      <4>1. nextResolution \in Slots /\ nextResolution \in Nat /\ 1 <= nextResolution BY SlotTypes
      <4>2. nextResolution <= nextResolution BY <4>1
      <4> QED BY <4>1, <4>2, PlaceTypes
    <3>2. QueueCommitResolution(n) BY <1>1, <2>2, <3>1
    <3> QED BY <3>2, LinkEffect DEF Promise, Flush
  <2> QED BY <2>1, <2>2
<1>5. \A f \in Slots : Used(f)' => Used(f)
  <2>1. \A v \in DOMAIN worker : worker'[v].resolvers = worker[v].resolvers BY JsSame
  <2> QED BY <1>1, <2>1, SameUsed
<1>6. TurnsInv' /\ UsedInv' /\ CarryInv' BY <1>1, <1>3, <1>4, <1>5, QuietFlush
<1>7. FlushedInv'
  <2>1. \A f \in flushed' : \E v \in DOMAIN worker' : Delivers(v, f)' /\ IsOver(v)'
    BY <1>1, JsSame DEF FlushInv, FlushedInv, Delivers
  <2>2. Finishing' => IsOver(call.worker)'
    BY <1>2 DEF Finishing, IsOver
  <2> QED BY <2>1, <2>2 DEF FlushedInv
<1> QED BY <1>6, <1>7 DEF FlushInv

LEMMA TaskFlush ==
    ASSUME IInv, IInv', GroupInv, FlushInv, DecidedInv, NEW w \in DOMAIN worker,
           CommitProgress(w) \/ CallbackProgress(w) \/ Complete(w)
    PROVE  FlushInv' /\ JsWorkers
<1>1. worker[w] \in Worker /\ worker \in Seq(Worker) BY WorkerTypes DEF IInv, TypeOK, TypeWorker
<1>2. CASE CommitProgress(w)
  <2> DEFINE e == [worker[w] EXCEPT !.progress = FALSE]
  <2>1. worker' = [worker EXCEPT ![w] = e] /\ Callback(w, 1)
    BY <1>2 DEF CommitProgress, ProgressCommitted
  <2>2. Noted(e, worker[w]) BY <1>1 DEF Noted, SameEnd, Worker
  <2> HIDE DEF e
  <2>3. JsWorkers /\ DOMAIN worker' = DOMAIN worker BY <1>1, <2>1, <2>2, NotedWorker
  <2> QED BY <2>1, <2>3, CallbackFlush
<1>3. CASE CallbackProgress(w)
  <2> DEFINE e == [worker[w] EXCEPT !.finishedProgress = TRUE]
  <2>1. worker' = [worker EXCEPT ![w] = e] /\ Callback(w, 2) BY <1>3 DEF CallbackProgress
  <2>2. Noted(e, worker[w]) BY <1>1 DEF Noted, SameEnd, Worker
  <2> HIDE DEF e
  <2>3. JsWorkers /\ DOMAIN worker' = DOMAIN worker BY <1>1, <2>1, <2>2, NotedWorker
  <2> QED BY <2>1, <2>3, CallbackFlush
<1>4. CASE Complete(w)
  <2> DEFINE e == [worker[w] EXCEPT !.pc = "gone", !.progress = FALSE]
  <2>1. worker' = [worker EXCEPT ![w] = e] /\ Callback(w, CompletionStatus(w)) /\ worker[w].pc = "done"
    BY <1>4 DEF Complete
  <2>2. Noted(e, worker[w]) /\ e.pc = "gone" /\ e.outcome = worker[w].outcome
    BY <1>1, <2>1 DEF Noted, SameEnd, Worker
  <2> HIDE DEF e
  <2>3. JsWorkers /\ DOMAIN worker' = DOMAIN worker BY <1>1, <2>1, <2>2, NotedWorker
  <2>4. CompletionStatus(w) \in 0..3 BY DEF CompletionStatus
  <2>5. CompletionStatus(w) = 0 => IsOver(w)'
    <3>1. worker[w].outcome # "none" BY <2>1 DEF DecidedInv, Decided
    <3>2. CompletionStatus(w) = 0 => worker[w].outcome = "ok" BY <3>1, DiskTypes DEF CompletionStatus
    <3>3. worker'[w] = e BY <1>1, <2>1
    <3> QED BY <2>2, <3>2, <3>3 DEF IsOver
  <2> QED BY <2>1, <2>3, <2>4, <2>5, CallbackFlush
<1> QED BY <1>2, <1>3, <1>4

\* A closure that notes what its word was gives the next worker a new flush promise, or
\* stays with the one that is shared.
LEMMA NoteFlush ==
    ASSUME IInv, IInv', CursorInv, GroupInv, FlushInv, NEW seen, call.pc \in {"publish", "note"},
           NoteWrite(call.res, seen), UNCHANGED writeBatchStart, JsWords,
           TXN_DELIMITER \in seen => FP(call.res) \in OpenDelimiters,
           OP \in word'[FP(call.res)],
           \A s \in Slots : OP \in word'[s] =>
               OP \in word[s] \/ (s = FP(call.res) /\ (TXN_DELIMITER \in seen \/ ~Closed(s)))
    PROVE  FlushInv' /\ JsWorkers
<1>1. PICK r \in Slots : r = call.res /\ r \in Reserved /\ FP(r) \in Slots /\ FP(r) < position
  BY CallFacts, ReservedTypes
<1> DEFINE ended == TXN_DELIMITER \in seen
           address == AddressAfter(r, ended)
           newFlush == (ended \/ flushPromise = 0) /\ OverlappingSync /\ SeparateFlushed
           resolvers == flushResolvers \cup IF newFlush THEN {r} ELSE {}
<1>2. /\ JsWorkers /\ SamePlaces
      /\ UNCHANGED <<caller, writeBatchStart>>
      /\ call'.res = r /\ call'.pc \in {"sweep", "promise"}
      /\ \A q \in Slots : FP(q)' = FP(q) /\ Promise(q)' = Promise(q)
      /\ ended => QueueCommitResolution(r)
      /\ ~ended => UNCHANGED resolution
  BY <1>1, NoteKeeps
<1>3. /\ flushPromise' = IF newFlush THEN r ELSE IF ended THEN 0 ELSE flushPromise
      /\ UNCHANGED flushed
      /\ \/ /\ address # 0 /\ worker' = Append(worker, NewWorker(address, resolvers))
            /\ flushResolvers' = {} /\ startAddress' = 0
         \/ /\ startAddress' = address /\ (EventTurnBatching => address = 0)
            /\ flushResolvers' = resolvers /\ UNCHANGED worker
  BY <1>1 DEF NoteWrite, StartWriting
<1>4. \A q \in Slots : Flush(q)' = Flush(q)
  <2>1. CASE ended
    <3>1. r \in Places BY <1>1, ReservedTypes
    <3> QED BY <1>2, <2>1, <3>1, LinkEffect DEF Flush
  <2>2. CASE ~ended BY <1>2, <2>2 DEF Flush
  <2> QED BY <2>1, <2>2
<1>5. /\ Reserved' = Reserved /\ (Deferred' <=> Deferred) /\ ~Publishing'
      /\ \A q \in Reserved : q \in Slots
  BY <1>2, PlacesKept, ReservedTypes DEF SamePlaces, Deferred, Publishing
<1>6. FlushFrame BY <1>2, <1>4, <1>5 DEF FlushFrame
<1>7. ~Used(r)
  <2>1. CASE call.pc = "note" BY <1>1, <2>1 DEF FlushInv, UsedInv
  <2>2. CASE call.pc = "publish"
    <3>1. ~Published(r) BY <1>1, <2>2 DEF IInv, CallInv
    <3> QED BY <3>1 DEF FlushInv, UsedInv
  <2> QED BY <2>1, <2>2
<1>8. SharedKept
  <2>1. CASE newFlush BY <1>3, <1>7, <2>1 DEF SharedKept, Used
  <2>2. CASE ended /\ ~newFlush
    <3>1. flushPromise' = 0 BY <1>3, <2>2
    <3>2. \A w \in DOMAIN worker : 0 \notin worker[w].resolvers BY DiskTypes, SlotTypes
    <3> QED BY <3>1, <3>2 DEF SharedKept, Delivers
  <2>3. CASE ~ended /\ ~newFlush BY <1>3, <1>5, <2>3 DEF SharedKept
  <2> QED BY <2>1, <2>2, <2>3
<1>9. ASSUME address # 0, Deferred PROVE FALSE
  <2>1. startAddress = 0 BY <1>9 DEF FlushInv, TurnsInv
  <2>2. ended BY <1>9, <2>1 DEF AddressAfter
  <2>3. Nest(FP(r)) = 0 BY <1>1, <2>2 DEF IInv, FrontierInv, AtFrontier
  <2>4. writeBatchStart < r
    <3>1. Noting \/ Publishing BY <1>1, SlotTypes DEF Noting, Publishing
    <3> QED BY <1>1, <1>9, <3>1 DEF GroupInv, PromisesInv, DeferInv
  <2>5. writeBatchStart \in Places /\ r \in Places BY <1>1, <1>9, ReservedTypes DEF Deferred, IInv, DeferredInv
  <2>6. FP(writeBatchStart) < FP(r) BY <2>4, <2>5 DEF CursorInv, OrderInv
  <2>7. Inside(FP(r)) BY <1>1, <1>9, <2>6 DEF GroupInv, PromisesInv, DeferInv
  <2> QED BY <2>3, <2>7 DEF Inside
<1>10. HolesKept BY <1>3, <1>5, <1>9 DEF HolesKept, Ahead
<1>11. CarryInv' BY <1>6, <1>8, <1>10, KeepCarry DEF FlushInv
<1>12. ASSUME NEW f \in Slots, Used(f)' PROVE Used(f) \/ f = r
  <2>1. f = flushPromise' => f = flushPromise \/ f = r
    <3>1. f # 0 BY SlotTypes
    <3> QED BY <1>3, <3>1
  <2>2. f \in resolvers => f \in flushResolvers \/ f = r OBVIOUS
  <2> HIDE DEF resolvers
  <2>3. \A v \in DOMAIN worker' : Delivers(v, f)' => f \in resolvers \/ \E u \in DOMAIN worker : Delivers(u, f)
    BY <1>3, StartedDelivers DEF Delivers
  <2>4. f \in flushResolvers' => f \in resolvers BY <1>3
  <2> QED BY <1>12, <2>1, <2>2, <2>3, <2>4 DEF Used
<1>13. UsedInv'
  <2>1. Published(r)' BY <1>1, <1>2 DEF Published
  <2>2. caller.pc = "note" => caller.res # r
    <3>1. r \in Nat BY <1>1, ReservedTypes
    <3>2. caller.pc = "note" => r < caller.res BY <1>1 DEF CursorInv, TurnInv
    <3> QED BY <3>1, <3>2
  <2> QED BY <1>1, <1>2, <1>6, <1>12, <2>1, <2>2, KeepUsed DEF FlushInv
<1>14. TurnsInv'
  <2>1. EventTurnBatching => startAddress' = 0 BY <1>3
  <2> QED BY <1>5, <2>1 DEF FlushInv, TurnsInv
<1>15. FlushedInv'
  <2>1. ~Finishing' BY <1>1, <1>2, SlotTypes DEF Finishing
  <2> QED BY <1>2, <1>3, <2>1, KeepFlushed DEF FlushInv
<1> QED BY <1>2, <1>11, <1>13, <1>14, <1>15 DEF FlushInv

LEMMA PublishFlush ==
    ASSUME IInv, IInv', CursorInv, GroupInv, FlushInv, PublishAtomic \/ NotePlainWrite
    PROVE  FlushInv' /\ JsWorkers
<1>1. CASE PublishAtomic
  <2> DEFINE k == FP(call.res)
             seen == word[k]
  <2>1. /\ call.pc = "publish" /\ NoteWrite(call.res, seen) /\ UNCHANGED writeBatchStart
        /\ word' = [word EXCEPT ![k] = seen \cup {OP}]
    BY <1>1 DEF PublishAtomic, CallSlot, FP
  <2>2. Publishing BY <2>1 DEF Publishing
  <2>3. k \in Slots /\ OP \notin seen BY <2>2, CallReserved, Unpublished
  <2>4. TXN_DELIMITER \in seen <=> Closed(k) BY <2>3 DEF GroupInv, HistoryInv, OpenInv
  <2>5. TXN_DELIMITER \in seen => k \in OpenDelimiters BY <2>3 DEF OpenDelimiters
  <2>6. word'[k] = seen \cup {OP} /\ \A s \in Slots : s # k => word'[s] = word[s]
    BY <2>1, <2>3 DEF IInv, TypeOK, TypeWord
  <2>7. JsWords BY <2>6 DEF JsWords
  <2>8. OP \in word'[k] BY <2>6
  <2>9. \A s \in Slots : OP \in word'[s] =>
           OP \in word[s] \/ (s = k /\ (TXN_DELIMITER \in seen \/ ~Closed(s)))
    BY <2>4, <2>6
  <2> HIDE DEF seen
  <2> QED BY <2>1, <2>5, <2>7, <2>8, <2>9, NoteFlush
<1>2. CASE NotePlainWrite
  <2>1. call.pc = "note" /\ NoteWrite(call.res, call.seen) /\ UNCHANGED <<word, writeBatchStart>>
    BY <1>2 DEF NotePlainWrite
  <2>2. TXN_DELIMITER \notin call.seen BY <2>1 DEF IInv, CallInv
  <2>3. Noting
    <3>1. call.res # 0 BY <2>1, CallFacts
    <3> QED BY <2>1, <3>1 DEF Noting
  <2>4. OP \in word[FP(call.res)]
    BY <2>3 DEF GroupInv, PromisesInv, HoldInv, Unassigned, Published
  <2>5. JsWords BY <2>1 DEF JsWords
  <2> QED BY <2>1, <2>2, <2>4, <2>5, NoteFlush
<1> QED BY <1>1, <1>2

\* A plain store publishes inside a block; the start of an event turn may follow.
LEMMA StoreFlush ==
    ASSUME IInv, IInv', CursorInv, GroupInv, FlushInv, PublishStore
    PROVE  FlushInv' /\ JsWorkers
<1> DEFINE noted == [call EXCEPT !.pc = "note"]
           early == /\ call' = WriteCall(writeBatchStart) /\ caller' = noted
                    /\ writeBatchStart' = 0 /\ writeBatchStart # 0
           late == call' = noted /\ caller' = caller /\ writeBatchStart' = writeBatchStart
<1>1. /\ call.pc = "store" /\ word' = [word EXCEPT ![FP(call.res)] = {OP}]
      /\ UNCHANGED <<nextResolution, blocks, resolution, flushPromise, flushResolvers, flushed,
                     startAddress, worker>>
      /\ (early \/ late)
  BY DEF PublishStore, CallSlot, FP, reserveVars, batchVars, promiseVars, settleVars, startVars
<1>2. Publishing BY <1>1 DEF Publishing
<1>3. PICK r \in Slots : r = call.res /\ r \in Reserved /\ FP(r) \in Slots BY <1>2, CallReserved
<1>4. OP \notin word[FP(r)] /\ ~Closed(FP(r)) /\ Len(blocks) > 0
  <2>1. OP \notin word[FP(r)] BY <1>2, <1>3, Unpublished
  <2>2. instr[FP(r)].depth > 0 BY <1>1, <1>3 DEF IInv, CallInv
  <2>3. FP(r) \notin OpenDelimiters BY <1>1, <1>3, <2>2, NoDelimiterInBlock DEF CallSlot, FP
  <2>4. ~Closed(FP(r)) BY <1>3, <2>1, <2>3, ClosedOpen DEF GroupInv, HistoryInv
  <2>5. Len(blocks) # 0 BY <1>1, <1>3, <2>2 DEF IInv, CallInv
  <2>6. Len(blocks) > 0 BY <2>5, SlotTypes
  <2> QED BY <2>1, <2>4, <2>6
<1>5. word'[FP(r)] = {OP} /\ \A s \in Slots : s # FP(r) => word'[s] = word[s]
  BY <1>1, <1>3 DEF IInv, TypeOK, TypeWord
<1>6. JsWords /\ JsWorkers BY <1>1, <1>3, <1>4, <1>5, SameWorkers DEF JsWords
<1>7. /\ Reserved' = Reserved /\ \A q : FP(q)' = FP(q) /\ Promise(q)' = Promise(q) /\ Flush(q)' = Flush(q)
      /\ \A q \in Reserved : q \in Slots
  BY <1>1, ReservedTypes DEF Reserved, FP, Promise, Flush
<1>8. FlushFrame BY <1>6, <1>7 DEF FlushFrame
<1>9. /\ noted.pc = "note" /\ noted.res = r
      /\ early => call'.pc = "publish" /\ call'.res = writeBatchStart
  <2>1. noted.pc = "note" /\ noted.res = r BY <1>3 DEF IInv, TypeOK, TypeCall, Call
  <2>2. writeBatchStart \in 0..(MaxSlots + 1) BY DEF IInv, TypeOK, TypeBatch
  <2> QED BY <2>1, <2>2, WriteCallRecord
<1> HIDE DEF noted
<1>10. Deferred' => Deferred BY <1>1 DEF Deferred
<1>11. \A q : Ahead(q)' => Ahead(q)
  <2>1. CASE early
    <3>1. Deferred /\ ~Deferred' BY <1>4, <2>1 DEF Deferred
    <3>2. call'.res = writeBatchStart BY <1>9, <2>1
    <3> QED BY <3>1, <3>2 DEF Ahead
  <2>2. CASE late
    <3>1. ~Publishing' BY <1>9, <2>2 DEF Publishing
    <3>2. (Deferred' <=> Deferred) /\ writeBatchStart' = writeBatchStart BY <1>1, <2>2 DEF Deferred
    <3> QED BY <3>1, <3>2 DEF Ahead
  <2> QED BY <1>1, <2>1, <2>2
<1>12. HolesKept BY <1>1, <1>11 DEF HolesKept
<1>13. SharedKept
  <2>1. \A s \in Slots : OP \in word'[s] => OP \in word[s] \/ ~Closed(s) BY <1>4, <1>5
  <2> QED BY <1>1, <1>10, <2>1 DEF SharedKept
<1>14. CarryInv' BY <1>8, <1>12, <1>13, KeepCarry DEF FlushInv
<1>15. UsedInv'
  <2>1. ~Published(r) BY <1>4 DEF Published
  <2>2. \A f \in Slots : Used(f)' => Used(f) BY <1>1, SameUsed
  <2>3. call'.pc = "note" => call'.res = r
    <3>1. CASE early
      <4>1. call'.pc = "publish" BY <1>9, <3>1
      <4> QED BY <4>1
    <3>2. CASE late BY <1>9, <3>2
    <3> QED BY <1>1, <3>1, <3>2
  <2>4. caller'.pc = "note" => caller'.res = r \/ (caller.pc = "note" /\ caller'.res = caller.res)
    BY <1>1, <1>9
  <2>5. (call'.res = r => ~Published(call'.res)) /\ (caller'.res = r => ~Published(caller'.res))
    BY <2>1
  <2> QED BY <1>8, <2>2, <2>3, <2>4, <2>5, KeepUsed DEF FlushInv
<1>16. TurnsInv' BY <1>1, <1>10 DEF FlushInv, TurnsInv
<1>17. FlushedInv'
  <2>1. ~Finishing'
    <3>1. CASE early
      <4>1. call'.pc = "publish" BY <1>9, <3>1
      <4> QED BY <4>1 DEF Finishing
    <3>2. CASE late BY <1>9, <3>2 DEF Finishing
    <3> QED BY <1>1, <3>1, <3>2
  <2> QED BY <1>1, <1>6, <2>1, KeepFlushed DEF FlushInv
<1> QED BY <1>6, <1>14, <1>15, <1>16, <1>17 DEF FlushInv

-----------------------------------------------------------------------------
(* Reserving. *)

\* Slots are added behind everything promised so far.
LEMMA GrownFlush ==
    ASSUME IInv, IInv', GroupInv, FlushInv, Grown, \A q \in Reserved : Flush(q)' = Flush(q),
           UNCHANGED <<caller, flushResolvers, flushed, startAddress>>,
           flushPromise' = 0 \/ (flushPromise' = flushPromise /\ (Deferred' => Deferred)),
           \A q \in Reserved : Ahead(q)' => Ahead(q), Deferred' => EventTurnBatching,
           call'.pc \in {"idle", "publish"}
    PROVE  FlushInv' /\ JsWorkers
<1>1. UNCHANGED worker /\ JsWorkers /\ JsWords BY SameWorkers DEF Grown
<1>2. FlushFrame
  <2>1. \A q \in Slots : Promise(q)' = Promise(q) BY DEF Grown
  <2> QED BY <1>1, <2>1, GrownPlaces DEF FlushFrame
<1>3. HolesKept BY <1>1 DEF HolesKept
<1>4. \A w \in DOMAIN worker : 0 \notin worker[w].resolvers BY DiskTypes, SlotTypes
<1>5. SharedKept
  <2>1. CASE flushPromise' = 0 BY <1>4, <2>1 DEF SharedKept, Delivers
  <2>2. CASE flushPromise' = flushPromise /\ (Deferred' => Deferred) BY <2>2 DEF SharedKept, Grown
  <2> QED BY <2>1, <2>2
<1>6. CarryInv' BY <1>2, <1>3, <1>5, KeepCarry DEF FlushInv
<1>7. ASSUME NEW f \in Slots, Used(f)' PROVE Used(f)
  <2>1. f # 0 BY SlotTypes
  <2>2. f = flushPromise' => f = flushPromise BY <2>1
  <2> QED BY <1>1, <1>7, <2>2 DEF Used, Delivers
<1>8. call'.pc # "note" /\ ~Finishing' BY DEF Finishing
<1>9. UsedInv' BY <1>2, <1>7, <1>8, KeepUsed DEF FlushInv
<1>10. TurnsInv' BY DEF FlushInv, TurnsInv
<1>11. FlushedInv' BY <1>1, <1>8, KeepFlushed DEF FlushInv
<1> QED BY <1>1, <1>6, <1>9, <1>10, <1>11 DEF FlushInv

\* The end of a block publishes its end, and its start if that was deferred.
LEMMA FinishFlush ==
    ASSUME IInv, IInv', CursorInv, GroupInv, FlushInv, EndEventTurn \/ EndIfVersion
    PROVE  FlushInv' /\ JsWorkers
<1>1. /\ UNCHANGED <<caller, flushPromise, flushResolvers, flushed, startAddress>>
      /\ call.pc = "idle"
      /\ call' = call \/ call' = WriteCall(writeBatchStart) \/ call' = WriteCall(BlockResolution)
      /\ \E depth : FinishBatch(depth)
  BY DEF EndEventTurn, EndIfVersion, EventLoopIdle, promiseVars, startVars, settleVars
<1>2. /\ Grown /\ Reserved' = Reserved
      /\ \/ Deferred /\ ~Deferred' /\ Publishing' /\ call'.res = writeBatchStart
         \/ /\ Deferred' <=> Deferred
            /\ Deferred => writeBatchStart' = writeBatchStart
            /\ ~Publishing'
  BY FinishCases
<1>3. \A q \in Reserved : Flush(q)' = Flush(q)
  <2> TAKE q \in Reserved
  <2>1. q # nextResolution /\ q \in Slots
    <3>1. q \in Nat /\ q < nextResolution /\ q \in Slots BY ReservedTypes
    <3> QED BY <3>1, SlotTypes
  <2>2. \E e : resolution' = [resolution EXCEPT ![nextResolution] = e] BY <1>1 DEF FinishBatch
  <2>3. resolution'[q] = resolution[q] BY <2>1, <2>2 DEF IInv, TypeOK, TypeReserve
  <2> QED BY <2>3 DEF Flush
<1>4. \A q \in Reserved : Ahead(q)' => Ahead(q) BY <1>2 DEF Ahead
<1>5. (Deferred' => Deferred) /\ (Deferred' => EventTurnBatching) BY <1>2 DEF FlushInv, TurnsInv
<1>6. call'.pc \in {"idle", "publish"} BY <1>1 DEF WriteCall, Idle
<1> QED BY <1>1, <1>2, <1>3, <1>4, <1>5, <1>6, GrownFlush

\* Where the start of a block is published behind what is in the block, that block is an
\* event turn: it is opened before its first write, and gives up the shared flush promise.
LEMMA ReserveFlush ==
    ASSUME IInv, IInv', CursorInv, GroupInv, FlushInv, TurnInOrder,
           NEW kind \in Operations, Write(kind) \/ IfVersion(kind)
    PROVE  FlushInv' /\ JsWorkers
<1>1. PICK opened \in {0, 1} : kind \in Kinds /\ WriteInstructions(kind, opened)
  BY DEF Write, IfVersion, Kinds
<1>2. /\ UNCHANGED <<caller, flushResolvers, flushed, startAddress>>
      /\ call.pc = "idle" /\ flushPromise' = IF OpensTurn THEN 0 ELSE flushPromise
      /\ call' = call \/ call' = WriteCall(InstrRes)
      /\ InstrSlot = IF OpensTurn THEN position + 1 ELSE position
  BY <1>1 DEF WriteInstructions, startVars, settleVars, Write, IfVersion, InstrSlot
<1>3. opened \in Nat BY <1>1
<1>4. /\ position' = InstrSlot + 1
      /\ \A q \in Slots : q < nextResolution => resolution'[q] = resolution[q]
  BY <1>1, <1>3, ReservedRecords
<1>5. Grown BY ReserveCases
<1>6. PICK n \in Slots, p \in Slots :
        /\ n = nextResolution /\ p = position /\ n \in Nat /\ p \in Nat
        /\ TurnOpened(n, p) \/ WriteAdded(n, p) \/ BlockOpened(n, p)
  BY ReserveCases
<1>7. ~Publishing BY <1>2 DEF Publishing
<1>8. \A q \in Reserved : q \in Slots /\ q \in Nat /\ q < n BY <1>6, ReservedTypes
<1>9. \A q \in Reserved : Flush(q)' = Flush(q) BY <1>4, <1>6, <1>8 DEF Flush
<1>10. call'.pc \in {"idle", "publish"} BY <1>2 DEF WriteCall, Idle
<1>11. CASE TurnOpened(n, p)
  <2>1. EventTurnBatching /\ position' = p + 2 /\ writeBatchStart' = n /\ call'.res = n + 1
    BY <1>11 DEF TurnOpened
  <2>2. flushPromise' = 0 BY <1>2, <1>4, <1>6, <2>1
  <2>3. \A q \in Reserved : ~Ahead(q)' BY <1>6, <1>8, <2>1 DEF Ahead
  <2> QED BY <1>2, <1>5, <1>9, <1>10, <2>1, <2>2, <2>3, GrownFlush
<1>12. CASE WriteAdded(n, p)
  <2>1. /\ (Deferred' <=> Deferred) /\ (Deferred => writeBatchStart' = writeBatchStart)
        /\ call'.res = n /\ position' = p + 1
    BY <1>12 DEF WriteAdded
  <2>2. flushPromise' = flushPromise BY <1>2, <1>4, <1>6, <2>1
  <2>3. \A q \in Reserved : Ahead(q)' => Ahead(q) BY <1>8, <1>6, <2>1 DEF Ahead
  <2>4. Deferred' => EventTurnBatching BY <2>1 DEF FlushInv, TurnsInv
  <2> QED BY <1>2, <1>5, <1>9, <1>10, <2>1, <2>2, <2>3, <2>4, GrownFlush
<1>13. CASE BlockOpened(n, p)
  <2>1. ~EventTurnBatching /\ ~Publishing' BY <1>13 DEF BlockOpened
  <2>2. Write(kind) BY <2>1 DEF TurnInOrder, IfVersion
  <2>3. call'.pc = "publish" BY <2>2 DEF Write, WriteCall, Idle
  <2> QED BY <2>1, <2>3 DEF Publishing
<1> QED BY <1>6, <1>11, <1>12, <1>13

-----------------------------------------------------------------------------
(* The promise of a write. *)

\* What AssignPromise does to the resolutions.
LEMMA AssignedRecord ==
    ASSUME IInv, GroupInv, AssignPromise
    PROVE  /\ \A q \in Slots : FP(q)' = FP(q)
           /\ \E r \in Reserved :
                /\ r = call.res /\ Published(r) /\ (Promise(r)' = r => Flush(r)' \in {flushPromise, 0})
                /\ \A q \in Slots : q # r => Promise(q)' = Promise(q) /\ Flush(q)' = Flush(q)
<1>1. PICK r \in Slots : r = call.res /\ r \in Reserved /\ r # 0 /\ r \in Nat
  <2>1. call.pc = "promise" BY DEF AssignPromise
  <2> QED BY <2>1, CallFacts, ReservedTypes
<1> DEFINE immediate == ~Conditional(r) /\ instr[FP(r)].depth > 1
           own == ~immediate /\ (Conditional(r) \/ commitPromise = 0)
           p == IF immediate THEN PromiseSuccess ELSE IF own THEN r ELSE commitPromise
           x == IF own /\ SeparateFlushed THEN flushPromise ELSE 0
           e == [resolution[r] EXCEPT !.promise = p, !.flush = x]
<1>2. call.pc = "promise" /\ resolution' = [resolution EXCEPT ![r] = e]
  BY <1>1 DEF AssignPromise, CallSlot, FP
<1>3. e.flagPosition = resolution[r].flagPosition /\ e.promise = p /\ e.flush = x
  <2>1. resolution[r] \in Resolution BY <1>1, PlaceTypes
  <2> QED BY <2>1 DEF Resolution
<1>4. Published(r) /\ commitPromise # r
  <2>1. Noting BY <1>1, <1>2 DEF Noting
  <2>2. Published(r) /\ Promise(r) = NoPromise
    BY <1>1, <2>1 DEF GroupInv, PromisesInv, HoldInv, Unassigned
  <2> QED BY <1>1, <2>2 DEF GroupInv, PromisesInv, SharedInv, NoPromise
<1>5. /\ p = r => own
      /\ own => x \in {flushPromise, 0}
  BY <1>1, <1>4 DEF PromiseSuccess
<1> HIDE DEF e, p, x
<1>6. resolution'[r] = e /\ \A q \in Slots : q # r => resolution'[q] = resolution[q]
  BY <1>1, <1>2 DEF IInv, TypeOK, TypeReserve
<1>7. FP(r)' = FP(r) /\ Promise(r)' = p /\ Flush(r)' = x
  BY <1>3, <1>6 DEF FP, Promise, Flush
<1>8. \A q \in Slots : q # r => FP(q)' = FP(q) /\ Promise(q)' = Promise(q) /\ Flush(q)' = Flush(q)
  BY <1>6 DEF FP, Promise, Flush
<1>9. \A q \in Slots : FP(q)' = FP(q) BY <1>7, <1>8
<1>10. Promise(r)' = r => Flush(r)' \in {flushPromise, 0} BY <1>5, <1>7
<1> QED BY <1>1, <1>4, <1>8, <1>9, <1>10

\* A promise takes over the shared flush promise: a worker that resolves it ends behind
\* the slot that was published.
LEMMA AssignFlush ==
    ASSUME IInv, IInv', CursorInv, GroupInv, FlushInv, AssignPromise
    PROVE  FlushInv' /\ JsWorkers
<1>1. /\ UNCHANGED <<word, nextResolution, blocks, writeBatchStart, flushPromise, flushResolvers,
                     flushed, startAddress, worker>>
      /\ call.pc = "promise" /\ call' = caller /\ caller' = Idle
  BY DEF AssignPromise, reserveVars, batchVars, settleVars, startVars
<1>2. PICK r \in Reserved :
        /\ r = call.res /\ Published(r) /\ (Promise(r)' = r => Flush(r)' \in {flushPromise, 0})
        /\ \A q \in Slots : q # r => Promise(q)' = Promise(q) /\ Flush(q)' = Flush(q)
  BY AssignedRecord
<1>3. /\ \A q \in Slots : FP(q)' = FP(q)
      /\ \A q \in Reserved : q \in Slots /\ FP(q) \in Slots /\ FP(q) \in Nat /\ FP(q) < position
  BY AssignedRecord, ReservedTypes
<1>4. caller.pc \in {"idle", "note"} BY DEF IInv, CallInv
<1>5. ~Publishing /\ ~Publishing' BY <1>1, <1>4 DEF Publishing
<1>6. /\ Reserved' = Reserved /\ (Deferred' <=> Deferred) /\ Ended' = Ended /\ JsWorkers
      /\ \A v : End(v)' = End(v)
      /\ \A v, f : Delivers(v, f)' <=> Delivers(v, f)
  BY <1>1, SameWorkers DEF Reserved, Deferred, Ended, End, Delivers
<1>7. \A v \in DOMAIN worker : 0 \notin worker[v].resolvers BY DiskTypes, SlotTypes
<1>8. ASSUME NEW v \in DOMAIN worker, Delivers(v, Flush(r)'), Promise(r)' = r
      PROVE  Delivers(v, flushPromise) /\ flushPromise # 0
  BY <1>2, <1>7, <1>8 DEF Delivers
<1>9. CarrierInv'
  <2> SUFFICES ASSUME NEW v \in DOMAIN worker, NEW q \in Reserved,
                      v \in Ended, Delivers(v, Flush(q)'), Promise(q)' = q
               PROVE  FP(q) < End(v)
    BY <1>1, <1>3, <1>6 DEF CarrierInv, Delivers
  <2>1. CASE q # r BY <1>2, <1>3, <2>1 DEF FlushInv, CarryInv, CarrierInv, Delivers
  <2>2. CASE q = r
    <3>1. Delivers(v, flushPromise) /\ flushPromise # 0 BY <1>8, <2>2
    <3>2. OP \notin word[End(v)] BY <3>1 DEF FlushInv, CarryInv, GivenUpInv
    <3>3. End(v) \in Slots /\ Closed(End(v)) BY EndTypes DEF Closed
    <3>4. End(v) = Frontier BY <3>2, <3>3, ClosedOpen DEF GroupInv, HistoryInv
    <3>5. FP(r) # Frontier BY <1>2, <3>2, <3>4 DEF Published
    <3>6. Frontier \in Nat /\ Frontier >= 1 BY SlotTypes
    <3>7. ASSUME FP(r) > Frontier PROVE FALSE
      <4>1. Frontier \in 1..(position - 1)
        <5>1. position \in Nat BY PositionTypes
        <5> QED BY <1>3, <3>6, <3>7, <5>1
      <4>2. Deferred BY <1>5, <3>2, <3>4, <4>1 DEF GroupInv, PromisesInv, UnpublishedInv
      <4> QED BY <3>1, <4>2 DEF FlushInv, CarryInv, AheadInv
    <3> QED BY <1>3, <2>2, <3>4, <3>5, <3>6, <3>7
  <2> QED BY <2>1, <2>2
<1>10. AheadInv'
  <2>1. ASSUME NEW q \in Reserved, Promise(q)' = q, Ahead(q)', NEW v \in DOMAIN worker
        PROVE  ~Delivers(v, Flush(q)')
    <3>1. Deferred /\ Ahead(q) BY <1>1, <1>5, <1>6, <2>1 DEF Ahead
    <3>2. CASE q # r
      <4>1. Promise(q) = q /\ Flush(q)' = Flush(q) BY <1>2, <1>3, <2>1, <3>2
      <4> QED BY <3>1, <4>1 DEF FlushInv, CarryInv, AheadInv
    <3>3. CASE q = r BY <1>8, <2>1, <3>1, <3>3 DEF FlushInv, CarryInv, AheadInv
    <3> QED BY <3>2, <3>3
  <2>2. Deferred' => \A v \in DOMAIN worker : ~Delivers(v, flushPromise)
    BY <1>6 DEF FlushInv, CarryInv, AheadInv
  <2> QED BY <1>1, <1>6, <2>1, <2>2 DEF AheadInv, Delivers
<1>11. GivenUpInv' BY <1>1, <1>6 DEF FlushInv, CarryInv, GivenUpInv
<1>12. UsedInv'
  <2>1. \A f : Used(f)' => Used(f) BY <1>1, SameUsed
  <2>2. caller'.pc # "note" BY <1>1, IdleCall
  <2>3. \A f \in Reserved : Published(f) => Published(f)' BY <1>1, <1>3 DEF Published
  <2> QED BY <1>1, <1>6, <2>1, <2>2, <2>3 DEF FlushInv, UsedInv
<1>13. TurnsInv' BY <1>1, <1>6 DEF FlushInv, TurnsInv
<1>14. FlushedInv'
  <2>1. ~Finishing' BY <1>1, <1>4 DEF Finishing
  <2> QED BY <1>1, <1>6, <2>1, KeepFlushed DEF FlushInv
<1> QED BY <1>6, <1>9, <1>10, <1>11, <1>12, <1>13, <1>14 DEF FlushInv, CarryInv

-----------------------------------------------------------------------------
(* Flush promises in every behaviour. *)

LEMMA InitFlush == Init => DiskInv /\ FlushInv
<1> SUFFICES ASSUME Init PROVE DiskInv /\ FlushInv OBVIOUS
<1>1. /\ position = 1 /\ nextResolution = 1 /\ blocks = <<>> /\ call = Idle /\ caller = Idle
      /\ writeBatchStart = 0 /\ startAddress = 0 /\ flushPromise = 0 /\ flushResolvers = {}
      /\ flushed = {} /\ worker = <<>>
  BY DEF Init
<1>2. DOMAIN worker = {} /\ Reserved = {} BY <1>1 DEF Reserved
<1>3. \A f \in Slots : ~Used(f)
  <2>1. 0 \notin Slots BY BoundsAssumption DEF Slots
  <2> QED BY <1>1, <1>2, <2>1 DEF Used
<1>4. ~Deferred /\ ~Publishing /\ ~Finishing
  <2>1. call.pc = "idle" BY <1>1, IdleCall
  <2> QED BY <1>1, <2>1 DEF Deferred, Publishing, Finishing
<1>5. DiskInv BY <1>2 DEF DiskInv, DecidedInv, SyncedInv
<1>6. TurnsInv /\ UsedInv BY <1>1, <1>3, <1>4 DEF TurnsInv, UsedInv
<1>7. CarryInv BY <1>2 DEF CarryInv, CarrierInv, AheadInv, GivenUpInv
<1>8. FlushedInv BY <1>1, <1>4 DEF FlushedInv
<1> QED BY <1>5, <1>6, <1>7, <1>8 DEF FlushInv

LEMMA StutterFlush ==
    ASSUME IInv, IInv', GroupInv, DiskInv, FlushInv, UNCHANGED vars
    PROVE  DiskInv' /\ FlushInv'
<1>1. /\ UNCHANGED <<word, position, nextResolution, blocks, resolution, writeBatchStart, startAddress,
                     flushResolvers, flushPromise, flushed, call, caller, worker>>
  BY DEF vars, jsVars, reserveVars, batchVars, startVars, promiseVars, settleVars
<1>2. JsWorkers BY <1>1, SameWorkers
<1>3. \A q \in Slots : Promise(q)' = Promise(q) /\ FP(q)' = FP(q) /\ Flush(q)' = Flush(q)
  BY <1>1 DEF Promise, FP, Flush
<1>4. \A f \in Slots : Used(f)' => Used(f) BY <1>1, SameUsed
<1>5. (Publishing' => Publishing) /\ (Finishing' => Finishing) BY <1>1 DEF Publishing, Finishing
<1>6. TurnsInv' /\ UsedInv' /\ CarryInv' BY <1>1, <1>2, <1>3, <1>4, <1>5, QuietFlush
<1>7. FlushedInv' BY <1>1, <1>2, <1>5, KeepFlushed DEF FlushInv
<1>8. DiskInv' BY <1>2, JsDisk
<1> QED BY <1>6, <1>7, <1>8 DEF FlushInv

LEMMA NextFlush ==
    ASSUME IInv, IInv', CursorInv, GroupInv, GroupInv', CallbackInv, TurnInOrder, DiskInv, FlushInv,
           [Next]_vars
    PROVE  DiskInv' /\ FlushInv'
<1>1. CASE UNCHANGED vars BY <1>1, StutterFlush
<1>2. CASE Next
  <2>1. ASSUME NEW kind \in Operations, Write(kind) \/ IfVersion(kind) PROVE FlushInv' /\ JsWorkers
    BY <2>1, ReserveFlush
  <2>2. CASE EndEventTurn \/ EndIfVersion BY <2>2, FinishFlush, JsDisk
  <2>3. CASE CallStep
    <3>1. FlushInv' /\ JsWorkers
      BY <2>3, PublishFlush, StoreFlush, AssignFlush, ResolveFlush, CounterFlush, EndFlush DEF CallStep
    <3> QED BY <3>1, JsDisk
  <2>4. CASE RunEnqueuedCommit BY <2>4, StartFlush, JsDisk
  <2>5. ASSUME NEW w \in DOMAIN worker, WorkerStep(w) PROVE DiskInv' /\ FlushInv'
    <3>1. FlushInv' BY <2>5, WorkerFlush
    <3>2. TxnInv /\ OutcomeInv /\ LockInv /\ DecidedInv
      BY DEF GroupInv, HistoryInv, CallbackInv, DiskInv
    <3>3. DecidedInv' BY <2>5, <3>2, WorkerDecided
    <3>4. ~SyncCanFail => SyncedInv' BY <2>5, <3>2, WorkerSynced DEF DiskInv
    <3> QED BY <3>1, <3>3, <3>4 DEF DiskInv
  <2>6. ASSUME NEW w \in DOMAIN worker, CommitProgress(w) \/ CallbackProgress(w) \/ Complete(w)
        PROVE  FlushInv' /\ JsWorkers
    BY <2>6, TaskFlush DEF DiskInv
  <2>7. CASE \E kind \in Operations : Write(kind) \/ IfVersion(kind) BY <2>1, <2>7, JsDisk
  <2>8. CASE \E w \in DOMAIN worker : CommitProgress(w) \/ CallbackProgress(w) \/ Complete(w)
    BY <2>6, <2>8, JsDisk
  <2> QED BY <1>2, <2>2, <2>3, <2>4, <2>5, <2>7, <2>8 DEF Next
<1> QED BY <1>1, <1>2

\* What is on disk, and which worker resolves which flush promise, is known in every state.
THEOREM FlushCorrect == Spec /\ TurnInOrder => [](DiskInv /\ FlushInv)
<1>1. Init => DiskInv /\ FlushInv BY InitFlush
<1>2. TurnInOrder =>
        (IInv /\ CursorInv /\ GroupInv /\ CallbackInv /\ DiskInv /\ FlushInv /\ IInv' /\ GroupInv'
           /\ [Next]_vars => DiskInv' /\ FlushInv')
  BY NextFlush
<1>3. CASE TurnInOrder
  <2>1. IInv /\ CursorInv /\ GroupInv /\ CallbackInv /\ DiskInv /\ FlushInv /\ IInv' /\ GroupInv'
          /\ [Next]_vars => DiskInv' /\ FlushInv'
    BY <1>2, <1>3
  <2> QED BY <1>1, <2>1, InvariantCorrect, CursorCorrect, GroupCorrect, CallbackCorrect, PTL DEF Spec
<1>4. CASE ~TurnInOrder BY <1>4
<1>5. TurnInOrder \/ ~TurnInOrder OBVIOUS
<1> QED BY <1>3, <1>4, <1>5

LEMMA FlushedOnDisk ==
    ASSUME IInv, GroupInv, DiskInv, FlushInv, ~SyncCanFail
    PROVE  FlushedIsDurable
<1> SUFFICES ASSUME NEW r \in Slots, Promise(r) > 0, Flush(Promise(r)) \in flushed
             PROVE  txnOf[FP(r)] \in DOMAIN worker /\ OnDisk(txnOf[FP(r)])
  <2>1. ~(0 \in DOMAIN worker) BY DiskTypes
  <2> QED BY <2>1 DEF FlushedIsDurable, Promise, Flush, FP, OnDisk, Failed
<1>1. AssignedTo /\ JoinInv /\ TxnInv /\ SyncedInv
  BY DEF GroupInv, PromisesInv, HistoryInv, DiskInv
<1>2. r \in Reserved
  <2>1. ~(NoPromise > 0) BY DEF NoPromise
  <2> QED BY <1>1, <2>1 DEF AssignedTo
<1>3. PICK c \in Reserved : c = Promise(r) /\ Promise(c) = c /\ (r = c \/ Joined(c, r))
  <2>1. CASE Promise(r) = r BY <1>2, <2>1
  <2>2. CASE Promise(r) # r BY <1>1, <2>2 DEF JoinInv, Shares, SharesWith
  <2> QED BY <2>1, <2>2
<1>4. PICK w \in DOMAIN worker : Delivers(w, Flush(c)) /\ IsOver(w)
  BY <1>3 DEF FlushInv, FlushedInv
<1>5. w \in Ended /\ w \in Nat /\ w # 0 BY <1>4, EndTypes DEF IsOver, ClosedPc
<1>6. FP(c) < End(w) BY <1>3, <1>4, <1>5 DEF FlushInv, CarryInv, CarrierInv
<1>7. FP(c) \in 1..Len(log) /\ txnOf[FP(c)] \in DOMAIN worker /\ txnOf[FP(c)] <= w
  <2>1. PICK n \in Nat : n = Len(log) /\ Frontier = n + 1 BY SlotTypes
  <2>2. FP(c) \in Nat /\ FP(c) >= 1
    <3>1. FP(c) \in Slots /\ FP(c) \in Nat BY ReservedTypes
    <3> QED BY <3>1, SlotTypes
  <2>3. End(w) <= n + 1 /\ End(w) \in Nat BY <1>1, <1>5, <2>1, EndTypes DEF TxnInv, EndInv
  <2>4. FP(c) \in 1..Len(log) BY <1>6, <2>1, <2>2, <2>3
  <2> QED BY <1>1, <1>5, <1>6, <2>4 DEF TxnInv, SpanInv
<1>8. OnDisk(txnOf[FP(c)]) BY <1>1, <1>4, <1>7 DEF SyncedInv, IsOver
<1>9. txnOf[FP(c)] \in Ended
  <2>1. PICK v \in DOMAIN worker : v = txnOf[FP(c)] BY <1>7
  <2>2. v \in Nat /\ v <= w /\ w <= Len(worker) /\ Len(worker) \in Nat BY <1>5, <1>7, <2>1, EndTypes
  <2>3. v \in Ended \/ v = Len(worker) BY <1>1 DEF TxnInv, LastInv
  <2> QED BY <1>5, <2>1, <2>2, <2>3
<1>10. txnOf[FP(r)] = txnOf[FP(c)]
  <2>1. CASE r = c BY <2>1
  <2>2. CASE Joined(c, r) BY <1>1, <1>2, <1>7, <1>9, <2>2, JoinedTogether
  <2> QED BY <1>3, <2>1, <2>2
<1> QED BY <1>7, <1>8, <1>10

(* Where no sync fails, the resolvers that startWriting (write.js) hands to   *)
(* a worker resolve a flush promise only when the transactions of all the    *)
(* writes whose promise carries it are on disk or failed: with any blocks    *)
(* under eventTurnBatching, without blocks otherwise, because there a        *)
(* batch() is published behind what it contains.                             *)
THEOREM FlushedDurableCorrect ==
    Spec /\ TurnInOrder /\ ~SyncCanFail => []FlushedIsDurable
<1>1. CASE ~SyncCanFail
  <2>1. IInv /\ GroupInv /\ DiskInv /\ FlushInv => FlushedIsDurable BY <1>1, FlushedOnDisk
  <2> QED BY <2>1, InvariantCorrect, GroupCorrect, FlushCorrect, PTL
<1>2. CASE SyncCanFail BY <1>2
<1>3. ~SyncCanFail \/ SyncCanFail OBVIOUS
<1> QED BY <1>1, <1>2, <1>3

=============================================================================
