---------------------------- MODULE EnvRegistry ----------------------------
(***************************************************************************)
(* The environments of a process (src/env.cpp).  Every thread that opens a *)
(* path has an EnvWrap of its own; LMDB must not have a file open twice in *)
(* a process, so all the wrappers of a path share one MDB_env, found in    *)
(* the static vector envs under envsLock and closed by its last user.  A   *)
(* wrapper is closed by JavaScript, or by the cleanup hook of its thread,  *)
(* and deleted by the garbage collector.                                   *)
(***************************************************************************)
EXTENDS Integers, FiniteSets

CONSTANTS
  Wrappers,        \* EnvWrap objects; each creates one MDB_env, named alike
  Threads,
  ThreadOf,        \* the thread that creates a wrapper
  Paths,           \* the path strings given to open
  FileOf,          \* the file a path names
  MaxReads,        \* bound on the read transactions of a wrapper
  CloseWhileBusy,  \* the user closes, or ends a thread, while its work is queued
  None

ASSUME RegistryAssumption ==
  /\ None \notin Wrappers /\ None \notin Paths /\ IsFiniteSet(Wrappers)
  /\ ThreadOf \in [Wrappers -> Threads] /\ DOMAIN FileOf = Paths
  /\ MaxReads \in Nat /\ CloseWhileBusy \in BOOLEAN

VARIABLES
  wrap,       \* the EnvWrap objects
  handle,     \* "none", "created", "open" or "closed": the MDB_env of each wrapper
  path,       \* the path a handle was opened with
  envs,       \* the registry
  job,        \* the MDB_env that a queued worker of the wrapper holds, or None
  exited      \* threads whose environment is being torn down

vars == <<wrap, handle, path, envs, job, exited>>

\* An EnvWrap: env, the references of its ObjectWrap, the open transactions in
\* readTxns, and whether its cleanup hook is registered.
NoWrap == [life |-> "none", env |-> None, refs |-> 0, reads |-> 0, hook |-> FALSE]

Running(w) == ThreadOf[w] \notin exited
IsOpen(w) == Running(w) /\ wrap[w].life = "live" /\ wrap[w].env # None /\ handle[wrap[w].env] = "open"

----------------------------------------------------------------------------
\* new Env(): mdb_env_create, Ref.
ctor(w) ==
  /\ Running(w) /\ wrap[w].life = "none"
  /\ wrap' = [wrap EXCEPT ![w].life = "live", ![w].env = w, ![w].refs = 1]
  /\ handle' = [handle EXCEPT ![w] = "created"]
  /\ UNCHANGED <<path, envs, job, exited>>

CanOpen(w) == Running(w) /\ wrap[w].life = "live" /\ wrap[w].env = w /\ handle[w] = "created"

\* Mutant: no cleanup hook.
HookForgotten(w) == FALSE

\* The entries of the registry for a path: strcmp over envs.
Existing(p) == {e \in envs : e.path = p}

Hooked(w) == TRUE

\* openEnv, path in use: close the handle of one's own and share that one.
OpenShared(w, p) ==
  /\ CanOpen(w)
  /\ \E e \in Existing(p) :
       /\ envs' = (envs \ {e}) \cup {[e EXCEPT !.count = @ + 1]}
       /\ wrap' = [wrap EXCEPT ![w].env = e.env, ![w].hook = Hooked(w)]
  /\ handle' = [handle EXCEPT ![w] = "closed"]
  /\ UNCHANGED <<path, job, exited>>

\* openEnv, path not in use: mdb_env_open and a new entry.
OpenNew(w, p) ==
  /\ CanOpen(w) /\ Existing(p) = {}
  /\ handle' = [handle EXCEPT ![w] = "open"]
  /\ path' = [path EXCEPT ![w] = p]
  /\ envs' = envs \cup {[path |-> p, env |-> w, count |-> 1]}
  /\ wrap' = [wrap EXCEPT ![w].hook = Hooked(w)]
  /\ UNCHANGED <<job, exited>>

\* openEnv fails: in mdb_env_open, which closes the handle, or before it,
\* which leaves it created.  open() throws at LMDB's negative codes; with
\* errno's positive ones it registers the hook and open.js throws.
OpenFails(w, p) ==
  /\ CanOpen(w) /\ Existing(p) = {}
  /\ \E closed \in BOOLEAN, errno \in BOOLEAN :
       /\ handle' = IF closed THEN [handle EXCEPT ![w] = "closed"] ELSE handle
       /\ wrap' = [wrap EXCEPT ![w].env = None, ![w].hook = errno]
  /\ UNCHANGED <<path, envs, job, exited>>

\* A TxnWrap on the environment: kept in readTxns, holds a reference.
BeginRead(w) ==
  /\ IsOpen(w) /\ wrap[w].reads < MaxReads
  /\ wrap' = [wrap EXCEPT ![w].reads = @ + 1, ![w].refs = @ + 1]
  /\ UNCHANGED <<handle, path, envs, job, exited>>

\* TxnWrap::abort or its destructor: mdb_txn_abort, removeFromEnvWrap.
EndRead(w) ==
  /\ Running(w) /\ wrap[w].reads > 0
  /\ wrap' = [wrap EXCEPT ![w].reads = @ - 1, ![w].refs = @ - 1]
  /\ UNCHANGED <<handle, path, envs, job, exited>>

\* A SyncWorker, CopyWorker or WriteWorker is given ew->env and queued.
QueueWork(w) ==
  /\ IsOpen(w) /\ job[w] = None
  /\ job' = [job EXCEPT ![w] = wrap[w].env]
  /\ UNCHANGED <<wrap, handle, path, envs, exited>>

\* The pool thread has run it.
Execute(w) ==
  /\ job[w] # None
  /\ job' = [job EXCEPT ![w] = None]
  /\ UNCHANGED <<wrap, handle, path, envs, exited>>

----------------------------------------------------------------------------
\* Mutant: transactions stay.
TxnsStay(v) == v

\* cleanupStrayTxns: abort what is in readTxns, and drop its references.
cleanupStrayTxns(v) == [v EXCEPT !.reads = 0, !.refs = @ - v.reads]

\* Mutant: the environment is closed with its last but one user.
LastButOne(e) == e.count - 1 <= 1

\* The last thread that uses the environment leaves.
LastUser(e) == e.count - 1 <= 0

\* closeEnv: abort the transactions, leave the registry, close as the last.
closeEnv(w) ==
  LET used == {e \in envs : e.env = wrap[w].env}
      last == {e \in used : LastUser(e)}
  IN  /\ envs' = (envs \ used) \cup {[e EXCEPT !.count = @ - 1] : e \in used \ last}
      /\ handle' = [h \in Wrappers |-> IF \E e \in last : e.env = h THEN "closed" ELSE handle[h]]
      /\ UNCHANGED <<path, job>>

Closed(w) == [cleanupStrayTxns(wrap[w]) EXCEPT !.env = None]

\* env.close(): Unref, closeEnv.
close(w) ==
  /\ IsOpen(w) /\ (CloseWhileBusy \/ job[w] = None)
  /\ closeEnv(w)
  /\ wrap' = [wrap EXCEPT ![w] = [Closed(w) EXCEPT !.refs = @ - 1]]
  /\ UNCHANGED exited

\* The garbage collector deletes a wrapper without references.
Collect(w) ==
  /\ Running(w) /\ wrap[w].life = "live" /\ wrap[w].refs = 0
  /\ wrap' = [wrap EXCEPT ![w].life = "deleted"]
  /\ UNCHANGED <<handle, path, envs, job, exited>>

\* The thread's environment is torn down ...
Exit(t) ==
  /\ t \notin exited
  /\ CloseWhileBusy \/ \A w \in Wrappers : ThreadOf[w] = t => job[w] = None
  /\ exited' = exited \cup {t}
  /\ UNCHANGED <<wrap, handle, path, envs, job>>

\* ... and runs the cleanup hooks: closeEnv.  (On a deleted wrapper, whatever
\* the memory holds; here, what it last held.)
cleanup(w) ==
  /\ ~Running(w) /\ wrap[w].hook
  /\ closeEnv(w)
  /\ wrap' = [wrap EXCEPT ![w] = [Closed(w) EXCEPT !.hook = FALSE]]
  /\ UNCHANGED exited

----------------------------------------------------------------------------
Init ==
  /\ wrap = [w \in Wrappers |-> NoWrap]
  /\ handle = [w \in Wrappers |-> "none"]
  /\ path = [w \in Wrappers |-> None]
  /\ envs = {}
  /\ job = [w \in Wrappers |-> None]
  /\ exited = {}

Next ==
  \/ \E w \in Wrappers :
       \/ ctor(w) \/ BeginRead(w) \/ EndRead(w) \/ QueueWork(w) \/ Execute(w)
       \/ close(w) \/ Collect(w) \/ cleanup(w)
       \/ \E p \in Paths : OpenShared(w, p) \/ OpenNew(w, p) \/ OpenFails(w, p)
  \/ \E t \in Threads : Exit(t)

Spec == Init /\ [][Next]_vars

----------------------------------------------------------------------------
\* Every variable has its type; a wrapper's references are never negative.
TypeOK ==
  /\ wrap \in [Wrappers -> [life : {"none", "live", "deleted"}, env : Wrappers \cup {None},
                             refs : 0 .. MaxReads + 1, reads : 0 .. MaxReads, hook : BOOLEAN]]
  /\ handle \in [Wrappers -> {"none", "created", "open", "closed"}]
  /\ path \in [Wrappers -> Paths \cup {None}]
  /\ envs \subseteq [path : Paths, env : Wrappers, count : 1 .. Cardinality(Wrappers)]
  /\ job \in [Wrappers -> Wrappers \cup {None}]
  /\ exited \subseteq Threads

\* No file is open twice in the process (lmdb.h: a database must not be opened
\* twice in one process at the same time).
OneEnvPerFile ==
  \A g, h \in Wrappers :
    g # h /\ handle[g] = "open" /\ handle[h] = "open" => FileOf[path[g]] # FileOf[path[h]]

\* The registry holds exactly the open environments, each with the number of
\* wrappers that use it: whatever the order in which threads open, fail,
\* close and end, none is closed under a user, none outlives the last, and no
\* file is open twice.
RegistryExact ==
  /\ \A h \in Wrappers :
       handle[h] = "open" <=> \E e \in envs : e.env = h /\ e.path = path[h]
  /\ \A e \in envs : e.count = Cardinality({w \in Wrappers : wrap[w].env = e.env})
  /\ \A w \in Wrappers : wrap[w].env # None => handle[wrap[w].env] # "closed"
  /\ OneEnvPerFile

\* Transactions and queued work refer to an open environment, also when other
\* threads close theirs of the same path.
InUseIsOpen ==
  \A w \in Wrappers :
    /\ wrap[w].reads > 0 => wrap[w].env # None /\ handle[wrap[w].env] = "open"
    /\ job[w] # None => handle[job[w]] = "open"

\* When all threads have ended and their hooks have run, no environment is
\* open: the lock file has no slot or lock of this process left.
AllReleased ==
  exited = Threads /\ (\A w \in Wrappers : ~wrap[w].hook) =>
    envs = {} /\ \A h \in Wrappers : handle[h] # "open"

\* The cleanup hooks that will still run have a wrapper to run on.
HookAlive == \A w \in Wrappers : wrap[w].hook => wrap[w].life # "deleted"
=============================================================================
