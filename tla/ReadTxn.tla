------------------------------ MODULE ReadTxn -------------------------------
(***************************************************************************)
(* The read side of one thread (read.js, src/txn.cpp, src/cursor.cpp and    *)
(* getReadTxn of src/env.cpp): one read transaction shared by all reads,    *)
(* renewed on demand and reset by a timer, by commits and by the program;   *)
(* range iterators that keep it, follow it or outlive it; and the cursor    *)
(* that a store keeps for the next iterator.                                *)
(*                                                                          *)
(* A snapshot is the number of commits it contains.  A call into read.js    *)
(* is a few actions, so that the write thread may commit between the        *)
(* renewal of the transaction and its use.  The program advances an         *)
(* iterator only until it is done, and callbacks of write transactions      *)
(* return no promises (TxnLock shows what happens when they do).            *)
(***************************************************************************)
EXTENDS Integers, Sequences, FiniteSets

CONSTANTS
    Iterators,          \* range iterators open at a time
    Txns, Cursors,      \* objects in use at a time: bounds, large enough never to bind
    None,
    MaxCommits          \* bound: commits

ASSUME ReadBounds ==
    MaxCommits \in Nat /\ None \notin Txns \cup Cursors /\ IsFiniteSet(Iterators)

VARIABLES
    committed,                      \* LMDB: number of commits
    readTxn, readTxnRenewed,        \* read.js: the shared transaction, is it renewed
    timer,                          \* a setTimeout(resetReadTxn, 0) has not fired yet
    currentReadTxn, ewRenewed,      \* EnvWrap: currentReadTxn, readTxnRenewed
    writeTxn,                       \* env.writeTxn
    txn,                            \* the transaction objects, with their LMDB state
    cursor,                         \* the cursors: transaction and snapshot of each
    available,                      \* of the store: availableCursor and cursorTxn
    iter,                           \* the iterators
    call,                           \* the call into read.js that is going on
    microtasks,                     \* queued jobs: a reset (0), a reaction to commit v (v)
    seen                            \* the last commit that the program knows of

readVars == <<readTxn, readTxnRenewed, timer, currentReadTxn, ewRenewed>>
cursorVars == <<cursor, available>>
loopVars == <<microtasks, seen>>
vars == <<committed, readVars, writeTxn, txn, cursorVars, iter, call, loopVars>>

-----------------------------------------------------------------------------

\* cursorCount, renewingCursorCount and onlyCursor are the properties that
\* read.js keeps on the object.
NewTxn(lmdb) ==
    [lmdb |-> lmdb, snap |-> committed, cursorCount |-> 0, renewingCursorCount |-> 0,
     onlyCursor |-> FALSE]
EndedTxn ==
    [lmdb |-> "ended", snap |-> 0, cursorCount |-> 0, renewingCursorCount |-> 0,
     onlyCursor |-> FALSE]
\* A reference to a transaction that is over is None, as for isDone, which is set
\* when a transaction with cursors ends; without cursors nobody asks.
IsDone(t) == t = None
Over(t, x) == IF x = t THEN None ELSE x
NoCursor == [txn |-> None, snap |-> 0]
NoAvailable == [cursor |-> None, txn |-> None]

\* snapshot starts as the option and is cleared in a write transaction; renew
\* says whether cursorRenewId is unset, the current renewId or an older one;
\* flag is 0x2000; view, a history, the snapshot it keeps.
NewIter(snapshot) ==
    [on |-> FALSE, snapshot |-> snapshot, txn |-> None, cursor |-> None, renew |-> "none",
     flag |-> FALSE, started |-> FALSE, view |-> 0]
Idle == [at |-> "idle", i |-> None]

Init ==
    /\ committed = 0
    /\ readTxn = None /\ readTxnRenewed = FALSE /\ timer = FALSE
    /\ currentReadTxn = None /\ ewRenewed = FALSE /\ writeTxn = None
    /\ txn = [t \in Txns |-> EndedTxn]
    /\ cursor = [c \in Cursors |-> NoCursor] /\ available = NoAvailable
    /\ iter = [i \in Iterators |-> NewIter(TRUE)]
    /\ call = Idle /\ microtasks = <<>> /\ seen = 0

\* Objects that nothing refers to may stand for new ones.
UnusedTxns == {t \in Txns : txn[t].lmdb = "ended"}
UnusedCursors ==
    {c \in Cursors : c # available.cursor /\ \A i \in Iterators : iter[i].cursor # c}

\* No call is going on: JavaScript code of the program may run.
MayCall == call = Idle

-----------------------------------------------------------------------------
(* The shared read transaction. *)

\* renewReadTxn(), when a call needs the read transaction and it is not renewed.
\* Mutant: a new transaction does not become the one that native code reads.
CurrentKept(t) == IF currentReadTxn = None THEN t ELSE currentReadTxn
CurrentAfterBegin(t) == t
TimerAfterRenewal == TRUE
RenewReadTxn ==
    /\ call.at \in {"get", "stat", "open", "again"} /\ ~readTxnRenewed
    /\ writeTxn = None \/ call.at = "stat"
    /\ \/ /\ readTxn # None
          /\ txn' = [txn EXCEPT ![readTxn].lmdb = "active", ![readTxn].snap = committed]
          /\ UNCHANGED <<readTxn, currentReadTxn>>
       \/ /\ readTxn = None
          /\ \E t \in UnusedTxns : /\ txn' = [txn EXCEPT ![t] = NewTxn("active")]
                                   /\ readTxn' = t /\ currentReadTxn' = CurrentAfterBegin(t)
    /\ readTxnRenewed' = TRUE /\ timer' = TimerAfterRenewal
    /\ UNCHANGED <<committed, ewRenewed, writeTxn, cursorVars, iter, call, loopVars>>

\* A snapshot iterator is open on t.  Mutant: iterators that follow count too.
HoldsSnapshotOrFollows(t) == txn[t].renewingCursorCount > 0
HoldsSnapshot(t) == txn[t].cursorCount - txn[t].renewingCursorCount > 0

\* resetReadTxn(), in a state with transactions tx and iterators its.
ResetReadTxn(tx, its) ==
    /\ iter' = [i \in Iterators |-> IF its[i].renew = "current"
                                    THEN [its[i] EXCEPT !.renew = "stale"] ELSE its[i]]
    /\ readTxnRenewed' = FALSE
    /\ \/ /\ ~readTxnRenewed
          /\ txn' = tx /\ UNCHANGED <<readTxn, ewRenewed>>
       \/ /\ readTxnRenewed /\ HoldsSnapshot(readTxn)
          /\ txn' = [tx EXCEPT ![readTxn].onlyCursor = TRUE]
          /\ readTxn' = None /\ UNCHANGED ewRenewed
       \/ /\ readTxnRenewed /\ ~HoldsSnapshot(readTxn)
          /\ txn' = [tx EXCEPT ![readTxn].lmdb = "reset"]
          /\ ewRenewed' = FALSE /\ UNCHANGED readTxn

\* The timeout of a renewal, in an event turn of its own.  Nothing cancels it: one
\* that is left from an earlier renewal has the effect of ExplicitReset.
Timer ==
    /\ call = Idle /\ microtasks = <<>> /\ timer
    /\ timer' = FALSE
    /\ ResetReadTxn(txn, iter)
    /\ UNCHANGED <<committed, currentReadTxn, writeTxn, cursorVars, call, loopVars>>

\* resetReadTxn() called by the program, or because it opened another store.
ExplicitReset ==
    /\ MayCall
    /\ ResetReadTxn(txn, iter)
    /\ UNCHANGED <<committed, timer, currentReadTxn, writeTxn, cursorVars, call, loopVars>>

-----------------------------------------------------------------------------
(* What the native code reads. *)

\* getReadTxn(): a renewal of a transaction that is not reset does nothing.
NativeRenewed ==
    IF writeTxn = None /\ ~ewRenewed /\ txn[currentReadTxn].lmdb = "reset"
    THEN [txn EXCEPT ![currentReadTxn].lmdb = "active", ![currentReadTxn].snap = committed]
    ELSE txn
GetReadTxn == IF writeTxn # None THEN writeTxn ELSE currentReadTxn

ReadyToRead == writeTxn # None \/ readTxnRenewed

\* get(), getBinary(), doesExist(), ...; getStats(), which renews the read
\* transaction in a write transaction too.
StartGet(at) ==
    /\ MayCall
    /\ call' = [at |-> at, i |-> None]
    /\ UNCHANGED <<committed, readVars, writeTxn, txn, cursorVars, iter, loopVars>>
Get ==
    /\ \/ call.at = "get" /\ ReadyToRead
       \/ call.at = "stat" /\ readTxnRenewed
    /\ txn' = NativeRenewed
    /\ ewRenewed' = (ewRenewed \/ writeTxn = None)
    /\ call' = Idle
    /\ UNCHANGED <<committed, readTxn, readTxnRenewed, timer, currentReadTxn, writeTxn,
                   cursorVars, iter, loopVars>>

-----------------------------------------------------------------------------
(* Iterators. *)

\* finishCursor(), in a state where the cursors are cur.  Mutant: the
\* transaction is left open.
IsLastCursorNever(t) == FALSE
IsLastCursor(t) == txn[t].cursorCount - 1 <= 0 /\ txn[t].onlyCursor
MustClose(t) == available # NoAvailable \/ t # readTxn
Follows(i) == IF iter[i].renew = "none" THEN 0 ELSE 1
FinishCursor(i, cur) ==
    LET t == iter[i].txn
        c == iter[i].cursor
        closed == [cur EXCEPT ![c] = NoCursor]
        left == [txn[t] EXCEPT !.cursorCount = @ - 1,
                               !.renewingCursorCount = @ - Follows(i)]
    IN  \/ /\ IsDone(t)
           /\ cursor' = cur /\ UNCHANGED <<txn, available, currentReadTxn>>
        \/ /\ ~IsDone(t) /\ IsLastCursor(t)
           /\ txn' = [txn EXCEPT ![t] = EndedTxn]
           /\ cursor' = [d \in Cursors |-> [closed[d] EXCEPT !.txn = Over(t, @)]]
           /\ available' = [available EXCEPT !.txn = Over(t, @)]
           /\ currentReadTxn' = Over(t, currentReadTxn)
        \/ /\ ~IsDone(t) /\ ~IsLastCursor(t)
           /\ txn' = [txn EXCEPT ![t] = left]
           /\ cursor' = IF MustClose(t) THEN closed ELSE cur
           /\ available' = IF MustClose(t) THEN available ELSE [cursor |-> c, txn |-> t]
           /\ UNCHANGED currentReadTxn
    /\ UNCHANGED <<committed, readTxn, readTxnRenewed, timer, ewRenewed, writeTxn, loopVars>>

\* iterate() of a getRange(), with or without the option snapshot: false; its
\* resetCursor() goes on with RenewReadTxn and AcquireCursor.
Iterate(i, snapshot) ==
    /\ MayCall /\ ~iter[i].on
    /\ iter' = [iter EXCEPT ![i] = NewIter(snapshot)]
    /\ call' = [at |-> "open", i |-> i]
    /\ UNCHANGED <<committed, readVars, writeTxn, txn, cursorVars, loopVars>>

\* The cursor of the store is taken.  Mutant: it stays available.
TakenCursorKept(reuse) == available
TakenCursor(reuse) == IF reuse THEN NoAvailable ELSE available

AcquireCursor ==
    /\ call.at \in {"open", "again"} /\ ReadyToRead
    /\ LET i == call.i
           t == IF writeTxn # None THEN writeTxn ELSE readTxn
           reuse == writeTxn = None /\ available # NoAvailable
           same == reuse /\ available.txn = t
           snapshot == iter[i].snapshot /\ writeTxn = None
       IN  \E c \in IF reuse THEN {available.cursor} ELSE UnusedCursors :
           /\ cursor' = IF same THEN cursor
                        ELSE [cursor EXCEPT ![c] = [txn |-> GetReadTxn,
                                                    snap |-> NativeRenewed[GetReadTxn].snap]]
           /\ ewRenewed' = (ewRenewed \/ (~same /\ writeTxn = None))
           /\ available' = TakenCursor(reuse)
           /\ txn' = [(IF same THEN txn ELSE NativeRenewed)
                        EXCEPT ![t].cursorCount = @ + 1,
                               ![t].renewingCursorCount = @ + IF snapshot THEN 0 ELSE 1]
           /\ iter' = [iter EXCEPT ![i] =
                [iter[i] EXCEPT !.on = TRUE, !.snapshot = snapshot, !.txn = t, !.cursor = c,
                          !.flag = @ \/ same, !.view = IF snapshot THEN txn[t].snap ELSE 0,
                          !.renew = IF snapshot THEN "none" ELSE "current"]]
           /\ call' = IF call.at = "open" THEN Idle ELSE [at |-> "read", i |-> i]
    /\ UNCHANGED <<committed, readTxn, readTxnRenewed, timer, currentReadTxn, writeTxn,
                   loopVars>>

\* next() first replaces the cursor when its transaction was reset or is over.
MustReset(i) == iter[i].renew # "none" /\ (iter[i].renew = "stale" \/ IsDone(iter[i].txn))
NextResets(i) ==
    /\ MayCall /\ iter[i].on /\ MustReset(i)
    /\ FinishCursor(i, cursor)
    /\ iter' = [iter EXCEPT ![i].on = FALSE, ![i].txn = None, ![i].cursor = None,
                            ![i].renew = "none"]
    /\ call' = [at |-> "again", i |-> i]

\* next() reads: position() renews the cursor when the flag says so.
Reads(i) ==
    \/ call = [at |-> "read", i |-> i]
    \/ MayCall /\ iter[i].on /\ ~MustReset(i)
\* Mutant: a cursor that is used again is not renewed.
PositionedAsIs(i) == cursor
Positioned(i) ==
    LET c == iter[i].cursor
    IN  IF iter[i].flag /\ (call.at = "read" \/ ~iter[i].started)
        THEN [cursor EXCEPT ![c].snap = txn[cursor[c].txn].snap] ELSE cursor

NextEntry(i) ==
    /\ Reads(i)
    /\ cursor' = Positioned(i)
    /\ iter' = [iter EXCEPT ![i].started = TRUE]
    /\ call' = Idle
    /\ UNCHANGED <<committed, readVars, writeTxn, txn, available, loopVars>>

Finished(i) == iter' = [iter EXCEPT ![i] = NewIter(TRUE)]
NextDone(i) ==
    /\ Reads(i)
    /\ FinishCursor(i, Positioned(i)) /\ Finished(i)
    /\ call' = Idle

\* return(): the program leaves the loop.
Return(i) ==
    /\ MayCall /\ iter[i].on
    /\ FinishCursor(i, cursor) /\ Finished(i)
    /\ UNCHANGED call

-----------------------------------------------------------------------------
(* Write transactions of JavaScript, and commits of the write thread. *)

\* transactionSync() begins, or the callbacks of a batch start to run.
BeginWriteTxn ==
    /\ MayCall /\ writeTxn = None
    /\ \E t \in UnusedTxns : writeTxn' = t /\ txn' = [txn EXCEPT ![t] = NewTxn("write")]
    /\ UNCHANGED <<committed, readVars, cursorVars, iter, call, loopVars>>

\* LMDB frees the cursors of the transaction; clearWriteTxn sets isDone.
EndedWriteTxn == [txn EXCEPT ![writeTxn] = EndedTxn]
WithoutWriteTxn(i) ==
    IF iter[i].txn = writeTxn THEN [iter[i] EXCEPT !.txn = None, !.cursor = None] ELSE iter[i]
EndWriteTxn ==
    /\ MayCall /\ writeTxn # None /\ writeTxn' = None
    /\ cursor' = [c \in Cursors |-> IF cursor[c].txn = writeTxn THEN NoCursor ELSE cursor[c]]
    /\ UNCHANGED <<available, call, timer, currentReadTxn>>

\* The end of a transactionSync(): what it wrote is there for the next read.
CommitSync ==
    /\ EndWriteTxn /\ committed < MaxCommits
    /\ committed' = committed + 1 /\ seen' = committed + 1
    /\ ResetReadTxn(EndedWriteTxn, [i \in Iterators |-> WithoutWriteTxn(i)])
    /\ UNCHANGED microtasks
\* An abort, or the callbacks of a batch have run and the write thread goes on.
LeaveWriteTxn ==
    /\ EndWriteTxn
    /\ txn' = EndedWriteTxn /\ iter' = [i \in Iterators |-> WithoutWriteTxn(i)]
    /\ UNCHANGED <<committed, readTxn, readTxnRenewed, ewRenewed, loopVars>>

\* The write thread commits; JavaScript has no write transaction open then.
Commit ==
    /\ committed < MaxCommits /\ writeTxn = None
    /\ committed' = committed + 1
    /\ UNCHANGED <<readVars, writeTxn, txn, cursorVars, iter, call, loopVars>>

\* The promises of commit v are not resolved yet, as far as reads can tell.
Unresolved(v) == v \in (seen + 1)..committed /\ \A k \in DOMAIN microtasks : microtasks[k] < v

\* resolveCommit(true), from the callback of the write worker: the reads are
\* reset at once and the promises are resolved, which queues their reactions.
ResolveAsync(v) ==
    /\ MayCall /\ microtasks = <<>> /\ Unresolved(v)
    /\ ResetReadTxn(txn, iter)
    /\ microtasks' = <<v>>
    /\ UNCHANGED <<committed, timer, currentReadTxn, writeTxn, cursorVars, call, seen>>
\* resolveCommit(false), from a write that met finished instructions: the reset
\* is queued ahead of the reactions.  Mutant: behind them.
JobsReversed(v) == <<v, 0>>
Jobs(v) == <<0, v>>
ResolveSync(v) ==
    /\ MayCall /\ Unresolved(v)
    /\ microtasks' = microtasks \o Jobs(v)
    /\ UNCHANGED <<committed, readVars, writeTxn, txn, cursorVars, iter, call, seen>>

MicrotaskReset ==
    /\ call = Idle /\ microtasks # <<>> /\ Head(microtasks) = 0
    /\ microtasks' = Tail(microtasks)
    /\ ResetReadTxn(txn, iter)
    /\ UNCHANGED <<committed, timer, currentReadTxn, writeTxn, cursorVars, call, seen>>
\* Code that awaited a write goes on.
MicrotaskReaction ==
    /\ call = Idle /\ microtasks # <<>> /\ Head(microtasks) # 0
    /\ microtasks' = Tail(microtasks)
    /\ seen' = IF Head(microtasks) > seen THEN Head(microtasks) ELSE seen
    /\ UNCHANGED <<committed, readVars, writeTxn, txn, cursorVars, iter, call>>

-----------------------------------------------------------------------------

CallStep == RenewReadTxn \/ Get \/ AcquireCursor
Advance(i) == NextResets(i) \/ NextEntry(i) \/ NextDone(i) \/ Return(i)
Next ==
    \/ CallStep \/ Timer \/ ExplicitReset
    \/ \E i \in Iterators : Advance(i) \/ \E s \in BOOLEAN : Iterate(i, s)
    \/ \E at \in {"get", "stat"} : StartGet(at)
    \/ BeginWriteTxn \/ CommitSync \/ LeaveWriteTxn
    \/ Commit \/ (\E v \in 1..committed : ResolveAsync(v) \/ ResolveSync(v)) \/ MicrotaskReset \/ MicrotaskReaction

Spec == Init /\ [][Next]_vars

\* The JavaScript thread finishes its calls and reaches its timer, and the
\* program reads its iterators to the end, also those it has to renew first.
Fairness ==
    /\ WF_vars(CallStep) /\ SF_vars(Timer) /\ SF_vars(MicrotaskReset \/ MicrotaskReaction)
    /\ WF_vars(CommitSync \/ LeaveWriteTxn)
    /\ \A i \in Iterators : SF_vars(NextResets(i)) /\ SF_vars(NextDone(i))
FairSpec == Spec /\ Fairness

-----------------------------------------------------------------------------
(* Properties. *)

Txn == [lmdb : {"active", "reset", "write", "ended"}, snap : Nat, cursorCount : Nat,
        renewingCursorCount : Nat, onlyCursor : BOOLEAN]
Iter == [on : BOOLEAN, snapshot : BOOLEAN, txn : Txns \cup {None}, cursor : Cursors \cup {None},
         renew : {"none", "current", "stale"}, flag : BOOLEAN, started : BOOLEAN, view : Nat]

\* The state is well typed; in particular the counts of cursors that read.js
\* keeps on a transaction never become negative.
TypeOK ==
    /\ {committed, seen} \subseteq Nat
    /\ {readTxn, currentReadTxn, writeTxn} \subseteq Txns \cup {None}
    /\ {readTxnRenewed, timer, ewRenewed} \subseteq BOOLEAN
    /\ txn \in [Txns -> Txn] /\ iter \in [Iterators -> Iter]
    /\ cursor \in [Cursors -> [txn : Txns \cup {None}, snap : Nat]]
    /\ available \in [cursor : Cursors \cup {None}, txn : Txns \cup {None}]
    /\ microtasks \in Seq(Nat)
    /\ call \in [at : {"idle", "get", "stat", "open", "again", "read"}, i : Iterators \cup {None}]

\* The next read of iterator i uses the cursor as it is, or positions it first.
ReadsNext(i) == iter[i].on /\ ~MustReset(i)
PositionsNext(i) == ~iter[i].started \/ call.at = "read"

\* No iterator ever reads with a cursor whose transaction was reset, aborted or
\* renewed under it, whatever timer, commits and other iterators did since: it
\* reads pages that LMDB keeps for it (next() of read.js, doPosition).
CursorLive ==
    \A i \in Iterators : ReadsNext(i) =>
        LET c == cursor[iter[i].cursor]
        IN  /\ iter[i].txn # None /\ c.txn = iter[i].txn /\ txn[c.txn].lmdb \in {"active", "write"}
            /\ c.snap = txn[c.txn].snap \/ (iter[i].flag /\ PositionsNext(i))

\* An iterator that was not opened with snapshot: false reads one snapshot, the
\* one it was opened on, until it is done (resetReadTxn gives its transaction up
\* to it instead of resetting it).
SnapshotStable ==
    \A i \in Iterators : iter[i].on /\ iter[i].renew = "none" =>
        /\ txn[iter[i].txn].lmdb = "active" /\ txn[iter[i].txn].snap = iter[i].view
        /\ iter[i].started => cursor[iter[i].cursor].snap = iter[i].view

\* Two open iterators never share a cursor, and the cursor kept for the next
\* iterator belongs to none of them (availableCursor).
CursorExclusive ==
    /\ \A i, j \in Iterators :
          i # j /\ iter[i].cursor # None => iter[i].cursor # iter[j].cursor
    /\ \A i \in Iterators : iter[i].cursor # None => iter[i].cursor # available.cursor

\* Code that awaited a write, or ran a synchronous transaction, reads a snapshot
\* that contains it (resolveCommit and transactionSync reset the reads first).
ReadOwnWrites == readTxnRenewed => txn[readTxn].snap >= seen

\* read.js and the native code agree on the transaction a read uses, although
\* each keeps its own idea of it: the one counted is the one read.
NativeAgrees ==
    /\ readTxn # None => currentReadTxn = readTxn
    /\ readTxnRenewed => readTxn # None /\ txn[readTxn].lmdb = "active"

\* A reader slot of LMDB is held by the shared transaction or for an open
\* iterator: no transaction is forgotten, which would keep old pages for ever.
NoReaderLeak ==
    \A t \in Txns : txn[t].lmdb \in {"active", "reset"} /\ t # readTxn =>
        \E i \in Iterators : iter[i].on /\ iter[i].txn = t

\* A snapshot is not held for ever: the shared transaction is reset, and one
\* kept for iterators is aborted with the last of them.
ReaderReleased == \A t \in Txns : txn[t].lmdb = "active" ~> txn[t].lmdb # "active"

=============================================================================
