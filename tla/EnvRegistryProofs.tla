------------------------- MODULE EnvRegistryProofs -------------------------
(***************************************************************************)
(* Proofs about EnvRegistry, for any number of wrappers, threads, paths and *)
(* read transactions: the registry of env.cpp counts the users of every     *)
(* environment exactly, nothing refers to a closed one, and all of them are *)
(* released when the hooks of the threads have run.                         *)
(***************************************************************************)
EXTENDS EnvRegistry, FiniteSetTheorems, TLAPS

-----------------------------------------------------------------------------
(* The inductive invariant. *)

\* The wrappers whose env pointer is this MDB_env.
Users(h) == {w \in Wrappers : wrap[w].env = h}

\* The references of an ObjectWrap: one for each open transaction, and the one
\* of new Env() until close() drops it.
RefsInv ==
    \A w \in Wrappers :
        /\ wrap[w].env # None => wrap[w].refs = wrap[w].reads + 1
        /\ wrap[w].env = None => wrap[w].reads = 0 /\ wrap[w].refs \in {0, 1}

\* A wrapper points at nothing, at the handle it created and did not open yet,
\* or, with its cleanup hook registered, at an open one.
UseOf(w) ==
    /\ wrap[w].life = "none" => handle[w] = "none" /\ wrap[w].env = None
    /\ wrap[w].env # None =>
         \/ wrap[w].env = w /\ handle[w] = "created" /\ wrap[w].reads = 0
         \/ handle[wrap[w].env] = "open" /\ wrap[w].hook
UseInv == \A w \in Wrappers : UseOf(w)

\* The registry has one entry for every open environment and no other, and one
\* for a path at most.
EntryInv ==
    /\ \A e, f \in envs : e.env = f.env \/ e.path = f.path => e = f
    /\ \A e \in envs : handle[e.env] = "open" /\ path[e.env] = e.path
    /\ \A h \in Wrappers : handle[h] = "open" => \E e \in envs : e.env = h

CountInv == \A e \in envs : e.count = Cardinality(Users(e.env))

RegistryInv == TypeOK /\ RefsInv /\ UseInv /\ EntryInv /\ CountInv

\* Work that is queued holds the environment of its wrapper, whose thread runs.
JobInv ==
    \A w \in Wrappers : job[w] # None => Running(w) /\ wrap[w].env = job[w] /\ handle[job[w]] = "open"

\* The set of the wrappers' values that TypeOK names.
WrapType == [life : {"none", "live", "deleted"}, env : Wrappers \cup {None},
             refs : 0 .. MaxReads + 1, reads : 0 .. MaxReads, hook : BOOLEAN]

-----------------------------------------------------------------------------
(* Sets of users, and the fields of a wrapper. *)

\* Sets of wrappers are finite, and count at most all of them.
LEMMA UsersFinite ==
    ASSUME NEW S \in SUBSET Wrappers
    PROVE  IsFiniteSet(S) /\ Cardinality(S) \in Nat /\ Cardinality(S) <= Cardinality(Wrappers)
           /\ Cardinality(Wrappers) \in Nat
BY RegistryAssumption, FS_Subset, FS_CardinalityType

LEMMA UsersJoin ==
    ASSUME NEW S \in SUBSET Wrappers, NEW w \in Wrappers, w \notin S
    PROVE  Cardinality(S \cup {w}) = Cardinality(S) + 1
BY UsersFinite, FS_AddElement

LEMMA UsersLeave ==
    ASSUME NEW S \in SUBSET Wrappers, NEW w \in S
    PROVE  Cardinality(S \ {w}) = Cardinality(S) - 1 /\ Cardinality(S) >= 1
<1>1. IsFiniteSet(S) /\ Cardinality(S) \in Nat BY UsersFinite
<1>2. Cardinality(S) # 0 BY <1>1, FS_EmptySet
<1>3. Cardinality(S \ {w}) = Cardinality(S) - 1 BY <1>1, FS_RemoveElement
<1> QED BY <1>1, <1>2, <1>3

\* A wrapper as the record of its fields.
LEMMA WrapRecord ==
    ASSUME TypeOK, NEW w \in Wrappers
    PROVE  /\ wrap[w] = [life |-> wrap[w].life, env |-> wrap[w].env, refs |-> wrap[w].refs,
                         reads |-> wrap[w].reads, hook |-> wrap[w].hook]
           /\ wrap[w].life \in {"none", "live", "deleted"} /\ wrap[w].env \in Wrappers \cup {None}
           /\ wrap[w].refs \in Nat /\ wrap[w].reads \in Nat /\ wrap[w].reads <= MaxReads
           /\ wrap[w].hook \in BOOLEAN
BY RegistryAssumption DEF TypeOK

\* Two fields of a wrapper are assigned one after the other.
LEMMA SetWrap ==
    ASSUME TypeOK, NEW w \in Wrappers, NEW env, NEW hook,
           [wrap[w] EXCEPT !.env = env, !.hook = hook] \in WrapType
    PROVE  [wrap EXCEPT ![w].env = env, ![w].hook = hook] \in [Wrappers -> WrapType]
BY DEF TypeOK, WrapType

-----------------------------------------------------------------------------
(* Every action preserves the invariant. *)

LEMMA InitRegistry == Init => RegistryInv
<1> SUFFICES ASSUME Init PROVE RegistryInv OBVIOUS
<1> USE RegistryAssumption DEF Init, NoWrap
<1>1. TypeOK BY DEF TypeOK
<1>2. RefsInv /\ UseInv BY DEF RefsInv, UseInv, UseOf
<1>3. EntryInv /\ CountInv BY DEF EntryInv, CountInv
<1> QED BY <1>1, <1>2, <1>3 DEF RegistryInv

\* What the actions do that leave the registry and the pointers alone.
LEMMA KeepRegistry ==
    ASSUME RegistryInv, TypeOK', UNCHANGED <<handle, path, envs>>,
           \A w \in Wrappers : wrap'[w].env = wrap[w].env
    PROVE  EntryInv' /\ CountInv'
<1>1. EntryInv' BY DEF RegistryInv, EntryInv
<1>2. \A h : Users(h)' = Users(h) BY DEF Users
<1>3. CountInv' BY <1>2 DEF RegistryInv, CountInv
<1> QED BY <1>1, <1>3

\* A wrapper that is left alone, with the handle it points at.
LEMMA UseKept ==
    ASSUME RegistryInv, NEW v \in Wrappers, wrap'[v] = wrap[v],
           handle[v] # "open" => handle'[v] = handle[v],
           wrap[v].env # None => handle'[wrap[v].env] = handle[wrap[v].env]
    PROVE  UseOf(v)'
BY DEF RegistryInv, UseInv, UseOf

LEMMA CtorInv == ASSUME NEW w \in Wrappers, RegistryInv, ctor(w) PROVE RegistryInv'
<1> USE RegistryAssumption DEF RegistryInv
<1>1. /\ wrap'[w].life = "live" /\ wrap'[w].env = w /\ wrap'[w].refs = 1
      /\ wrap'[w].reads = wrap[w].reads /\ wrap'[w].hook = wrap[w].hook
      /\ \A v \in Wrappers \ {w} : wrap'[v] = wrap[v]
  BY WrapRecord DEF ctor, TypeOK
<1>2. wrap[w].env = None /\ handle[w] = "none" /\ wrap[w].reads = 0
  BY DEF ctor, UseInv, UseOf, RefsInv
<1>3. TypeOK'
  <2>1. wrap' \in [Wrappers -> WrapType] BY <1>1, <1>2, WrapRecord DEF ctor, TypeOK, WrapType
  <2> QED BY <2>1 DEF ctor, TypeOK, WrapType
<1>4. RefsInv' BY <1>1, <1>2, WrapRecord DEF RefsInv
<1>5. /\ handle'[w] = "created" /\ \A v \in Wrappers \ {w} : handle'[v] = handle[v]
      /\ \A v \in Wrappers : wrap[v].env # w
  BY <1>2 DEF ctor, TypeOK, UseInv, UseOf
<1>6. UseInv'
  <2> SUFFICES ASSUME NEW v \in Wrappers PROVE UseOf(v)' BY DEF UseInv
  <2>1. CASE v = w BY <1>1, <1>2, <1>5, <2>1 DEF UseOf
  <2>2. CASE v # w BY <1>1, <1>5, <2>2, UseKept, WrapRecord
  <2> QED BY <2>1, <2>2
<1>7. EntryInv'
  BY <1>2, <1>5 DEF EntryInv, ctor, TypeOK
<1>8. \A e \in envs : e.env \in Wrappers \ {w} BY <1>2 DEF EntryInv, TypeOK
<1>9. \A e \in envs : Users(e.env)' = Users(e.env) BY <1>1, <1>2, <1>8 DEF Users
<1>10. CountInv' BY <1>9 DEF CountInv, ctor
<1> QED BY <1>3, <1>4, <1>6, <1>7, <1>10

\* openEnv of a path in use: the user moves to the shared environment, whose
\* entry counts one more.
LEMMA OpenSharedInv ==
    ASSUME NEW w \in Wrappers, NEW p \in Paths, RegistryInv, OpenShared(w, p)
    PROVE  RegistryInv'
<1> USE RegistryAssumption DEF RegistryInv
<1> DEFINE Plus(e) == [e EXCEPT !.count = @ + 1]
<1>1. PICK e \in envs : /\ e.path = p
                        /\ envs' = (envs \ {e}) \cup {Plus(e)}
                        /\ wrap' = [wrap EXCEPT ![w].env = e.env, ![w].hook = Hooked(w)]
  BY DEF OpenShared, Existing
<1>2. /\ handle' = [handle EXCEPT ![w] = "closed"] /\ UNCHANGED <<path, job, exited>>
      /\ wrap[w].life = "live" /\ wrap[w].env = w /\ handle[w] = "created"
  BY DEF OpenShared, CanOpen
<1>3. /\ wrap'[w].life = "live" /\ wrap'[w].env = e.env /\ wrap'[w].refs = wrap[w].refs
      /\ wrap'[w].reads = wrap[w].reads /\ wrap'[w].hook
      /\ \A v \in Wrappers \ {w} : wrap'[v] = wrap[v]
  BY <1>1, <1>2, WrapRecord DEF TypeOK, Hooked
<1>4. /\ e \in [path : Paths, env : Wrappers, count : 1 .. Cardinality(Wrappers)]
      /\ handle[e.env] = "open" /\ e.env # w /\ e.count = Cardinality(Users(e.env))
  BY <1>2 DEF TypeOK, EntryInv, CountInv
<1>5. Plus(e).path = e.path /\ Plus(e).env = e.env /\ Plus(e).count = e.count + 1
  BY <1>4
<1>6. /\ \A v \in Wrappers \ {w} : handle'[v] = handle[v] /\ wrap[v].env # w
      /\ handle'[w] = "closed"
  BY <1>2 DEF TypeOK, UseInv, UseOf
<1>7. Users(e.env)' = Users(e.env) \cup {w} /\ w \notin Users(e.env)
  BY <1>2, <1>3, <1>4 DEF Users
<1>8. Cardinality(Users(e.env)') = e.count + 1 /\ e.count + 1 \in 1 .. Cardinality(Wrappers)
  <2>1. Users(e.env) \in SUBSET Wrappers /\ Users(e.env)' \in SUBSET Wrappers BY DEF Users
  <2>2. Cardinality(Users(e.env)') = Cardinality(Users(e.env)) + 1 BY <1>7, <2>1, UsersJoin
  <2>3. Cardinality(Users(e.env)') <= Cardinality(Wrappers) BY <2>1, UsersFinite
  <2>4. e.count \in Nat /\ e.count >= 1 /\ Cardinality(Wrappers) \in Nat BY <1>4, <2>1, UsersFinite
  <2> QED BY <1>4, <2>2, <2>3, <2>4
<1>9. TypeOK'
  <2>1. wrap' \in [Wrappers -> WrapType]
    <3>1. wrap[w] \in WrapType /\ e.env \in Wrappers \cup {None} BY <1>4 DEF TypeOK, WrapType
    <3>2. [wrap[w] EXCEPT !.env = e.env, !.hook = TRUE] \in WrapType BY <3>1 DEF WrapType
    <3> QED BY <1>1, <3>2, SetWrap DEF Hooked
  <2>2. Plus(e) \in [path : Paths, env : Wrappers, count : 1 .. Cardinality(Wrappers)]
    BY <1>4, <1>8
  <2>3. envs' \subseteq [path : Paths, env : Wrappers, count : 1 .. Cardinality(Wrappers)]
    BY <1>1, <2>2 DEF TypeOK
  <2> QED BY <1>2, <2>1, <2>3 DEF TypeOK, WrapType
<1>10. RefsInv' BY <1>2, <1>3, <1>4, WrapRecord DEF RefsInv
<1>11. UseInv'
  <2> SUFFICES ASSUME NEW v \in Wrappers PROVE UseOf(v)' BY DEF UseInv
  <2>1. CASE v = w BY <1>3, <1>4, <1>6, <2>1 DEF UseOf
  <2>2. CASE v # w BY <1>3, <1>6, <2>2, UseKept, WrapRecord
  <2> QED BY <2>1, <2>2
<1>12. \A f \in envs' : \/ f = Plus(e)
                        \/ f \in envs /\ f # e /\ f.env # e.env /\ f.path # e.path
  BY <1>1 DEF EntryInv
<1>13. EntryInv'
  <2>1. \A f, g \in envs' : f.env = g.env \/ f.path = g.path => f = g
    BY <1>5, <1>12 DEF EntryInv
  <2>2. \A f \in envs' : handle'[f.env] = "open" /\ path'[f.env] = f.path
    BY <1>2, <1>4, <1>5, <1>6, <1>12 DEF EntryInv, TypeOK
  <2>3. ASSUME NEW h \in Wrappers, handle'[h] = "open" PROVE \E f \in envs' : f.env = h
    <3>1. PICK f \in envs : f.env = h BY <1>6, <2>3 DEF EntryInv
    <3> QED BY <1>1, <1>5, <3>1
  <2> QED BY <2>1, <2>2, <2>3 DEF EntryInv
<1>14. CountInv'
  <2> SUFFICES ASSUME NEW f \in envs' PROVE f.count = Cardinality(Users(f.env)')
    BY DEF CountInv, Users
  <2>1. CASE f = Plus(e) BY <1>5, <1>8, <2>1 DEF Users
  <2>2. CASE f # Plus(e)
    <3>1. f \in envs /\ f.env # e.env /\ f.env # w
      BY <1>2, <1>12, <2>2 DEF EntryInv
    <3>2. Users(f.env)' = Users(f.env) BY <1>2, <1>3, <3>1 DEF Users
    <3> QED BY <3>1, <3>2 DEF CountInv
  <2> QED BY <2>1, <2>2
<1> QED BY <1>9, <1>10, <1>11, <1>13, <1>14

\* openEnv of a path not in use: the handle opens, with the one user that
\* created it.
LEMMA OpenNewInv ==
    ASSUME NEW w \in Wrappers, NEW p \in Paths, RegistryInv, OpenNew(w, p)
    PROVE  RegistryInv'
<1> USE RegistryAssumption DEF RegistryInv
<1> DEFINE entry == [path |-> p, env |-> w, count |-> 1]
<1>1. /\ envs' = envs \cup {entry} /\ path' = [path EXCEPT ![w] = p]
      /\ handle' = [handle EXCEPT ![w] = "open"] /\ UNCHANGED <<job, exited>>
      /\ wrap[w].life = "live" /\ wrap[w].env = w /\ handle[w] = "created"
      /\ wrap' = [wrap EXCEPT ![w].hook = Hooked(w)]
      /\ \A e \in envs : e.path # p
  BY DEF OpenNew, CanOpen, Existing
<1>2. /\ wrap'[w].life = "live" /\ wrap'[w].env = w /\ wrap'[w].refs = wrap[w].refs
      /\ wrap'[w].reads = wrap[w].reads /\ wrap'[w].hook
      /\ \A v \in Wrappers \ {w} : wrap'[v] = wrap[v]
  BY <1>1, WrapRecord DEF TypeOK, Hooked
<1>3. /\ \A v \in Wrappers \ {w} : handle'[v] = handle[v] /\ path'[v] = path[v] /\ wrap[v].env # w
      /\ handle'[w] = "open" /\ path'[w] = p
  BY <1>1 DEF TypeOK, UseInv, UseOf
<1>4. \A h : Users(h)' = Users(h) BY <1>1, <1>2 DEF Users
<1>5. Users(w) = {w} BY <1>1, <1>3 DEF Users
<1>6. Cardinality(Users(w)) = 1 /\ 1 \in 1 .. Cardinality(Wrappers)
  <2>1. Users(w) \in SUBSET Wrappers BY DEF Users
  <2>2. Cardinality(Users(w)) = 1 BY <1>5, FS_Singleton
  <2>3. 1 <= Cardinality(Wrappers) /\ Cardinality(Wrappers) \in Nat BY <2>1, <2>2, UsersFinite
  <2> QED BY <2>2, <2>3
<1>7. TypeOK'
  <2>1. wrap' \in [Wrappers -> WrapType]
    <3>1. wrap[w] \in WrapType BY DEF TypeOK, WrapType
    <3>2. [wrap[w] EXCEPT !.hook = TRUE] \in WrapType BY <3>1 DEF WrapType
    <3> QED BY <1>1, <3>2 DEF Hooked, TypeOK, WrapType
  <2>2. envs' \subseteq [path : Paths, env : Wrappers, count : 1 .. Cardinality(Wrappers)]
    BY <1>1, <1>6 DEF TypeOK
  <2> QED BY <1>1, <2>1, <2>2 DEF TypeOK, WrapType
<1>8. RefsInv' BY <1>1, <1>2, WrapRecord DEF RefsInv
<1>9. UseInv'
  <2> SUFFICES ASSUME NEW v \in Wrappers PROVE UseOf(v)' BY DEF UseInv
  <2>1. CASE v = w BY <1>2, <1>3, <2>1 DEF UseOf
  <2>2. CASE v # w BY <1>2, <1>3, <2>2, UseKept, WrapRecord
  <2> QED BY <2>1, <2>2
<1>10. \A f \in envs : f.env \in Wrappers \ {w} /\ f.path # p
  BY <1>1 DEF EntryInv, TypeOK
<1>11. EntryInv'
  <2>1. \A f, g \in envs' : f.env = g.env \/ f.path = g.path => f = g
    BY <1>1, <1>10 DEF EntryInv
  <2>2. \A f \in envs' : handle'[f.env] = "open" /\ path'[f.env] = f.path
    BY <1>1, <1>3, <1>10 DEF EntryInv
  <2>3. ASSUME NEW h \in Wrappers, handle'[h] = "open" PROVE \E f \in envs' : f.env = h
    <3>1. CASE h = w
      <4>1. entry \in envs' /\ entry.env = w BY <1>1
      <4> QED BY <3>1, <4>1
    <3>2. CASE h # w BY <1>1, <1>3, <2>3, <3>2 DEF EntryInv
    <3> QED BY <3>1, <3>2
  <2> QED BY <2>1, <2>2, <2>3 DEF EntryInv
<1>12. CountInv' BY <1>1, <1>4, <1>6 DEF CountInv
<1> QED BY <1>7, <1>8, <1>9, <1>11, <1>12

LEMMA OpenFailsInv ==
    ASSUME NEW w \in Wrappers, NEW p \in Paths, RegistryInv, OpenFails(w, p)
    PROVE  RegistryInv'
<1> USE RegistryAssumption DEF RegistryInv
<1>1. PICK closed \in BOOLEAN, errno \in BOOLEAN :
        /\ handle' = IF closed THEN [handle EXCEPT ![w] = "closed"] ELSE handle
        /\ wrap' = [wrap EXCEPT ![w].env = None, ![w].hook = errno]
  BY DEF OpenFails
<1>2. /\ UNCHANGED <<path, envs, job, exited>>
      /\ wrap[w].life = "live" /\ wrap[w].env = w /\ handle[w] = "created"
  BY DEF OpenFails, CanOpen
<1>3. /\ wrap'[w].life = "live" /\ wrap'[w].env = None /\ wrap'[w].refs = wrap[w].refs
      /\ wrap'[w].reads = wrap[w].reads /\ wrap'[w].hook = errno
      /\ \A v \in Wrappers \ {w} : wrap'[v] = wrap[v]
  BY <1>1, <1>2, WrapRecord DEF TypeOK
<1>4. /\ \A v \in Wrappers \ {w} : handle'[v] = handle[v] /\ wrap[v].env # w
      /\ handle'[w] \in {"created", "closed"} /\ wrap[w].reads = 0 /\ wrap[w].refs = 1
  BY <1>1, <1>2 DEF TypeOK, UseInv, UseOf, RefsInv
<1>5. TypeOK'
  <2>1. wrap' \in [Wrappers -> WrapType]
    <3>1. wrap[w] \in WrapType BY DEF TypeOK, WrapType
    <3>2. [wrap[w] EXCEPT !.env = None, !.hook = errno] \in WrapType BY <3>1 DEF WrapType
    <3> QED BY <1>1, <3>2, SetWrap
  <2>2. handle' \in [Wrappers -> {"none", "created", "open", "closed"}] BY <1>1 DEF TypeOK
  <2> QED BY <1>2, <2>1, <2>2 DEF TypeOK, WrapType
<1>6. RefsInv' BY <1>3, <1>4, WrapRecord DEF RefsInv
<1>7. UseInv'
  <2> SUFFICES ASSUME NEW v \in Wrappers PROVE UseOf(v)' BY DEF UseInv
  <2>1. CASE v = w BY <1>3, <1>4, <2>1 DEF UseOf
  <2>2. CASE v # w BY <1>3, <1>4, <2>2, UseKept, WrapRecord
  <2> QED BY <2>1, <2>2
<1>8. \A f \in envs : f.env \in Wrappers \ {w} BY <1>2 DEF EntryInv, TypeOK
<1>9. EntryInv' BY <1>2, <1>4, <1>8 DEF EntryInv
<1>10. \A f \in envs : Users(f.env)' = Users(f.env) BY <1>2, <1>3, <1>8 DEF Users
<1>11. CountInv' BY <1>2, <1>10 DEF CountInv
<1> QED BY <1>5, <1>6, <1>7, <1>9, <1>11

\* Transactions and the collector move references only; a transaction begins
\* on an open environment and ends where it began.
LEMMA ReferenceInv ==
    ASSUME NEW w \in Wrappers, RegistryInv, BeginRead(w) \/ EndRead(w) \/ Collect(w)
    PROVE  RegistryInv'
<1> USE RegistryAssumption DEF RegistryInv
<1>1. /\ UNCHANGED <<handle, path, envs, job, exited>>
      /\ \A v \in Wrappers \ {w} : wrap'[v] = wrap[v]
      /\ wrap'[w].env = wrap[w].env /\ wrap'[w].hook = wrap[w].hook
      /\ wrap'[w].life = "none" => wrap[w].life = "none"
      /\ wrap' \in [Wrappers -> WrapType]
  <2>1. CASE BeginRead(w)
    BY <2>1, WrapRecord DEF BeginRead, IsOpen, RefsInv, TypeOK, WrapType
  <2>2. CASE EndRead(w)
    BY <2>2, WrapRecord DEF EndRead, RefsInv, TypeOK, WrapType
  <2>3. CASE Collect(w)
    BY <2>3, WrapRecord DEF Collect, TypeOK, WrapType
  <2> QED BY <2>1, <2>2, <2>3
<1>2. TypeOK' BY <1>1 DEF TypeOK, WrapType
<1>3. /\ wrap[w].env # None => wrap'[w].refs = wrap'[w].reads + 1
      /\ wrap[w].env = None => wrap'[w].reads = 0 /\ wrap'[w].refs \in {0, 1}
      /\ wrap[w].env = w /\ handle[w] = "created" => wrap'[w].reads = 0
  <2>1. CASE BeginRead(w)
    BY <2>1, WrapRecord DEF BeginRead, IsOpen, RefsInv, TypeOK
  <2>2. CASE EndRead(w)
    BY <2>2, WrapRecord DEF EndRead, RefsInv, TypeOK, UseInv, UseOf
  <2>3. CASE Collect(w)
    BY <2>3, WrapRecord DEF Collect, TypeOK, RefsInv, UseInv, UseOf
  <2> QED BY <2>1, <2>2, <2>3
<1>4. RefsInv' BY <1>1, <1>3 DEF RefsInv
<1>5. UseInv'
  <2> SUFFICES ASSUME NEW v \in Wrappers PROVE UseOf(v)' BY DEF UseInv
  <2>1. CASE v = w BY <1>1, <1>3, <2>1 DEF UseInv, UseOf
  <2>2. CASE v # w BY <1>1, <2>2, UseKept, WrapRecord
  <2> QED BY <2>1, <2>2
<1>6. \A v \in Wrappers : wrap'[v].env = wrap[v].env BY <1>1
<1> QED BY <1>1, <1>2, <1>4, <1>5, <1>6, KeepRegistry

LEMMA QueueInv ==
    ASSUME RegistryInv,
           \/ \E w \in Wrappers : QueueWork(w) \/ Execute(w)
           \/ \E t \in Threads : Exit(t)
    PROVE  RegistryInv'
<1> USE RegistryAssumption DEF RegistryInv
<1>1. UNCHANGED <<wrap, handle, path, envs>> BY DEF QueueWork, Execute, Exit
<1>2. job' \in [Wrappers -> Wrappers \cup {None}]
  BY DEF QueueWork, Execute, Exit, TypeOK, IsOpen
<1>3. exited' \subseteq Threads BY DEF QueueWork, Execute, Exit, TypeOK
<1>4. TypeOK' BY <1>1, <1>2, <1>3 DEF TypeOK
<1>5. RefsInv' /\ UseInv' BY <1>1 DEF RefsInv, UseInv, UseOf
<1> QED BY <1>1, <1>4, <1>5, KeepRegistry

\* cleanupStrayTxns, then env = nullptr, field by field.
LEMMA StrayRecord ==
    ASSUME NEW r \in WrapType
    PROVE  [cleanupStrayTxns(r) EXCEPT !.env = None]
             = [life |-> r.life, env |-> None, refs |-> r.refs - r.reads, reads |-> 0, hook |-> r.hook]
<1> DEFINE R1 == [life |-> r.life, env |-> r.env, refs |-> r.refs, reads |-> 0, hook |-> r.hook]
           R2 == [life |-> r.life, env |-> r.env, refs |-> r.refs - r.reads, reads |-> 0,
                  hook |-> r.hook]
           R3 == [life |-> r.life, env |-> None, refs |-> r.refs - r.reads, reads |-> 0,
                  hook |-> r.hook]
<1>1. [r EXCEPT !.reads = 0] = R1 BY DEF WrapType
<1>2. [R1 EXCEPT !.refs = @ - r.reads] = R2 OBVIOUS
<1>3. cleanupStrayTxns(r) = [[r EXCEPT !.reads = 0] EXCEPT !.refs = @ - r.reads]
  BY DEF cleanupStrayTxns
<1>4. [R2 EXCEPT !.env = None] = R3 OBVIOUS
<1> QED BY <1>1, <1>2, <1>3, <1>4

\* The wrapper that closeEnv leaves behind.
LEMMA LeftBehind ==
    ASSUME NEW w \in Wrappers, RegistryInv, close(w) \/ cleanup(w)
    PROVE  \E r \in WrapType : /\ wrap' = [wrap EXCEPT ![w] = r]
                               /\ r.env = None /\ r.reads = 0 /\ r.refs \in {0, 1}
                               /\ r.life = wrap[w].life
<1> USE RegistryAssumption DEF RegistryInv
<1> DEFINE v == wrap[w]
<1>0. /\ v \in WrapType /\ v.refs \in Nat /\ v.reads \in Nat
      /\ v.env # None => v.refs = v.reads + 1
      /\ v.env = None => v.reads = 0 /\ v.refs \in {0, 1}
  BY WrapRecord DEF RefsInv, TypeOK, WrapType
<1>1. /\ v.refs - v.reads \in {0, 1} /\ (v.env # None => v.refs - v.reads = 1)
      /\ v.life \in {"none", "live", "deleted"} /\ v.hook \in BOOLEAN
  BY <1>0 DEF WrapType
<1>2. Closed(w) = [life |-> v.life, env |-> None, refs |-> v.refs - v.reads, reads |-> 0,
                   hook |-> v.hook]
  BY <1>0, StrayRecord DEF Closed
<1>3. CASE close(w)
  <2> DEFINE r == [life |-> v.life, env |-> None, refs |-> v.refs - v.reads - 1, reads |-> 0,
                   hook |-> v.hook]
  <2>1. r \in WrapType BY <1>1, <1>3 DEF close, IsOpen, WrapType
  <2>2. [Closed(w) EXCEPT !.refs = @ - 1] = r BY <1>2
  <2>4. wrap' = [wrap EXCEPT ![w] = r] BY <1>3, <2>2 DEF close
  <2>3. r.env = None /\ r.reads = 0 /\ r.refs \in {0, 1} /\ r.life = wrap[w].life
    BY <1>1, <1>3 DEF close, IsOpen
  <2> QED BY <2>1, <2>3, <2>4
<1>4. CASE cleanup(w)
  <2> DEFINE c == Closed(w)
             r == [c EXCEPT !.hook = FALSE]
  <2>1. c \in WrapType /\ c.env = None /\ c.reads = 0 /\ c.refs \in {0, 1} /\ c.life = wrap[w].life
    BY <1>1, <1>2 DEF WrapType
  <2>2. wrap' = [wrap EXCEPT ![w] = r] BY <1>4 DEF cleanup
  <2> HIDE DEF c
  <2>3. r \in WrapType /\ r.env = None /\ r.reads = 0 /\ r.refs \in {0, 1} /\ r.life = wrap[w].life
    BY <2>1 DEF WrapType
  <2> QED BY <2>2, <2>3
<1> QED BY <1>3, <1>4

\* closeEnv: the user leaves the one entry of its environment, which goes with
\* the last user and only with the last, and closes the environment.
LEMMA CloseInv ==
    ASSUME NEW w \in Wrappers, RegistryInv, close(w) \/ cleanup(w)
    PROVE  RegistryInv'
<1> USE RegistryAssumption DEF RegistryInv
<1> DEFINE h == wrap[w].env
           used == {e \in envs : e.env = h}
           last == {e \in used : LastUser(e)}
           Minus(e) == [e EXCEPT !.count = @ - 1]
<1>1. /\ envs' = (envs \ used) \cup {Minus(e) : e \in used \ last}
      /\ handle' = [g \in Wrappers |-> IF \E e \in last : e.env = g THEN "closed" ELSE handle[g]]
      /\ UNCHANGED <<path, job, exited>>
  BY DEF close, cleanup, closeEnv
<1>2. PICK r \in WrapType : /\ wrap' = [wrap EXCEPT ![w] = r]
                            /\ r.env = None /\ r.reads = 0 /\ r.refs \in {0, 1}
                            /\ r.life = wrap[w].life
  BY LeftBehind
<1>3. wrap'[w] = r /\ \A v \in Wrappers \ {w} : wrap'[v] = wrap[v] BY <1>2 DEF TypeOK
<1>4. wrap' \in [Wrappers -> WrapType] BY <1>2 DEF TypeOK, WrapType
<1>5. RefsInv' BY <1>2, <1>3 DEF RefsInv
<1>6. \A g \in Wrappers : Users(g)' = Users(g) \ {w} BY <1>2, <1>3 DEF Users
<1>7. handle' \in [Wrappers -> {"none", "created", "open", "closed"}] BY <1>1 DEF TypeOK
<1>8. ASSUME used = {} PROVE RegistryInv'
  <2>1. envs' = envs /\ handle' = handle BY <1>1, <1>8 DEF TypeOK
  <2>2. TypeOK' BY <1>1, <1>4, <2>1 DEF TypeOK, WrapType
  <2>3. UseInv'
    <3> SUFFICES ASSUME NEW v \in Wrappers PROVE UseOf(v)' BY DEF UseInv
    <3>1. CASE v = w BY <1>2, <1>3, <2>1, <3>1 DEF UseInv, UseOf
    <3>2. CASE v # w BY <1>3, <2>1, <3>2, UseKept
    <3> QED BY <3>1, <3>2
  <2>4. EntryInv' BY <1>1, <2>1 DEF EntryInv
  <2>5. \A e \in envs : e.env \in Wrappers /\ e.env # h BY <1>8 DEF TypeOK
  <2>6. \A e \in envs : Users(e.env)' = Users(e.env) BY <1>6, <2>5 DEF Users
  <2>7. CountInv' BY <2>1, <2>6 DEF CountInv
  <2> QED BY <1>5, <2>2, <2>3, <2>4, <2>7
<1>9. ASSUME NEW e \in used PROVE RegistryInv'
  <2>1. /\ e \in envs /\ e.env = h /\ h \in Wrappers /\ handle[h] = "open" /\ path[h] = e.path
        /\ e \in [path : Paths, env : Wrappers, count : 1 .. Cardinality(Wrappers)]
        /\ e.count = Cardinality(Users(h))
    BY <1>9 DEF TypeOK, EntryInv, CountInv
  <2>2. used = {e} /\ \A f \in envs \ {e} : f.env # h /\ f.path # e.path
    BY <1>9, <2>1 DEF EntryInv
  <2>3. w \in Users(h) /\ Users(h) \in SUBSET Wrappers BY DEF Users
  <2>4. Cardinality(Users(h) \ {w}) = e.count - 1 BY <2>1, <2>3, UsersLeave
  <2>5. e.count \in Nat /\ e.count >= 1 /\ Cardinality(Wrappers) \in Nat
    BY <2>1, <2>3, UsersFinite
  <2>6. \A f \in envs \ {e} : Users(f.env)' = Users(f.env) /\ f.env \in Wrappers
    BY <1>6, <2>2 DEF Users, TypeOK
  <2>7. CASE LastUser(e)
    <3>1. e.count = 1 BY <2>5, <2>7 DEF LastUser
    <3>2. last = {e} BY <2>2, <2>7
    <3>3. envs' = envs \ {e} BY <1>1, <2>2, <3>2
    <3>4. /\ handle'[h] = "closed"
          /\ \A g \in Wrappers \ {h} : handle'[g] = handle[g]
      BY <1>1, <2>1, <3>2
    <3>5. \A v \in Wrappers \ {w} : wrap[v].env # h
      <4>1. IsFiniteSet(Users(h) \ {w}) BY <2>3, UsersFinite
      <4>2. Users(h) \ {w} = {} BY <2>4, <3>1, <4>1, FS_EmptySet
      <4> QED BY <4>2 DEF Users
    <3>6. TypeOK' BY <1>1, <1>4, <1>7, <3>3 DEF TypeOK, WrapType
    <3>7. UseInv'
      <4> SUFFICES ASSUME NEW v \in Wrappers PROVE UseOf(v)' BY DEF UseInv
      <4>1. CASE v = w
        <5>1. wrap'[v].env = None /\ wrap'[v].life = wrap[v].life BY <1>2, <1>3, <4>1
        <5>2. wrap[v].life # "none" BY <2>1, <4>1 DEF UseInv, UseOf
        <5> QED BY <5>1, <5>2 DEF UseOf
      <4>2. CASE v # w
        <5>1. wrap'[v] = wrap[v] /\ wrap[v].env \in (Wrappers \ {h}) \cup {None}
          BY <1>3, <3>5, <4>2, WrapRecord
        <5>2. wrap[v].env # None => handle'[wrap[v].env] = handle[wrap[v].env] BY <3>4, <5>1
        <5>3. handle[v] # "open" => handle'[v] = handle[v] BY <2>1, <3>4
        <5> QED BY <5>1, <5>2, <5>3, UseKept
      <4> QED BY <4>1, <4>2
    <3>8. EntryInv'
      <4>1. \A f, g \in envs' : f.env = g.env \/ f.path = g.path => f = g BY <3>3 DEF EntryInv
      <4>2. \A f \in envs' : handle'[f.env] = "open" /\ path'[f.env] = f.path
        BY <1>1, <2>2, <2>6, <3>3, <3>4 DEF EntryInv
      <4>3. \A g \in Wrappers : handle'[g] = "open" => \E f \in envs' : f.env = g
        BY <2>1, <3>3, <3>4 DEF EntryInv
      <4> QED BY <4>1, <4>2, <4>3 DEF EntryInv
    <3>9. CountInv' BY <2>6, <3>3 DEF CountInv
    <3> QED BY <1>5, <3>6, <3>7, <3>8, <3>9
  <2>8. CASE ~LastUser(e)
    <3>1. e.count > 1 BY <2>5, <2>8 DEF LastUser
    <3>2. last = {} BY <2>2, <2>8
    <3>3. envs' = (envs \ {e}) \cup {Minus(e)} BY <1>1, <2>2, <3>2
    <3>4. handle' = handle BY <1>1, <3>2 DEF TypeOK
    <3>5. Minus(e).path = e.path /\ Minus(e).env = h /\ Minus(e).count = e.count - 1
      BY <2>1
    <3>6. TypeOK'
      <4>1. e.count - 1 \in 1 .. Cardinality(Wrappers) BY <2>1, <2>5, <3>1
      <4>2. Minus(e) \in [path : Paths, env : Wrappers, count : 1 .. Cardinality(Wrappers)]
        BY <2>1, <4>1
      <4>3. envs' \subseteq [path : Paths, env : Wrappers, count : 1 .. Cardinality(Wrappers)]
        BY <3>3, <4>2 DEF TypeOK
      <4> QED BY <1>1, <1>4, <1>7, <4>3 DEF TypeOK, WrapType
    <3>7. UseInv'
      <4> SUFFICES ASSUME NEW v \in Wrappers PROVE UseOf(v)' BY DEF UseInv
      <4>1. CASE v = w BY <1>2, <1>3, <3>4, <4>1 DEF UseInv, UseOf
      <4>2. CASE v # w BY <1>3, <3>4, <4>2, UseKept
      <4> QED BY <4>1, <4>2
    <3>8. \A f \in envs' : f = Minus(e) \/ f \in envs \ {e} BY <3>3
    <3>9. EntryInv'
      <4>1. \A f, g \in envs' : f.env = g.env \/ f.path = g.path => f = g
        BY <2>2, <3>5, <3>8 DEF EntryInv
      <4>2. \A f \in envs' : handle'[f.env] = "open" /\ path'[f.env] = f.path
        BY <1>1, <2>1, <3>4, <3>5, <3>8 DEF EntryInv
      <4>3. ASSUME NEW g \in Wrappers, handle'[g] = "open" PROVE \E f \in envs' : f.env = g
        <5>1. PICK f \in envs : f.env = g BY <3>4, <4>3 DEF EntryInv
        <5> QED BY <2>1, <3>3, <3>5, <5>1
      <4> QED BY <4>1, <4>2, <4>3 DEF EntryInv
    <3>10. CountInv'
      <4> SUFFICES ASSUME NEW f \in envs' PROVE f.count = Cardinality(Users(f.env)')
        BY DEF CountInv, Users
      <4>1. CASE f = Minus(e) BY <1>6, <2>1, <2>4, <3>5, <4>1
      <4>2. CASE f \in envs \ {e} BY <2>6, <4>2 DEF CountInv
      <4> QED BY <3>8, <4>1, <4>2
    <3> QED BY <1>5, <3>6, <3>7, <3>9, <3>10
  <2> QED BY <2>7, <2>8
<1> QED BY <1>8, <1>9

LEMMA NextRegistry == RegistryInv /\ [Next]_vars => RegistryInv'
<1> SUFFICES ASSUME RegistryInv, [Next]_vars PROVE RegistryInv' OBVIOUS
<1>1. ASSUME NEW w \in Wrappers,
             \/ ctor(w) \/ BeginRead(w) \/ EndRead(w) \/ QueueWork(w) \/ Execute(w)
             \/ close(w) \/ Collect(w) \/ cleanup(w)
      PROVE  RegistryInv'
  BY <1>1, CtorInv, ReferenceInv, QueueInv, CloseInv
<1>2. ASSUME NEW w \in Wrappers, NEW p \in Paths,
             OpenShared(w, p) \/ OpenNew(w, p) \/ OpenFails(w, p)
      PROVE  RegistryInv'
  BY <1>2, OpenSharedInv, OpenNewInv, OpenFailsInv
<1>3. CASE \E t \in Threads : Exit(t) BY <1>3, QueueInv
<1>4. CASE UNCHANGED vars
  BY <1>4 DEF vars, RegistryInv, TypeOK, RefsInv, UseInv, UseOf, EntryInv, CountInv, Users
<1> QED BY <1>1, <1>2, <1>3, <1>4 DEF Next

LEMMA RegistryAlways == Spec => []RegistryInv
BY InitRegistry, NextRegistry, PTL DEF Spec

-----------------------------------------------------------------------------
(* Queued work. *)

\* Unless the user closes under a worker, queued work keeps its wrapper on the
\* environment it was given: another wrapper that leaves is then not the last.
LEMMA JobStep ==
    ASSUME ~CloseWhileBusy, RegistryInv, RegistryInv', JobInv, [Next]_vars
    PROVE  JobInv'
<1> USE RegistryAssumption DEF RegistryInv
<1>1. \A v \in Wrappers : job[v] # None => job[v] \in Wrappers BY DEF TypeOK
<1>2. ASSUME NEW w \in Wrappers, NEW p \in Paths,
             OpenShared(w, p) \/ OpenNew(w, p) \/ OpenFails(w, p)
      PROVE  JobInv'
  <2>1. job' = job /\ exited' = exited /\ job[w] = None
    BY <1>2 DEF OpenShared, OpenNew, OpenFails, CanOpen, JobInv
  <2>2. \A v \in Wrappers \ {w} : wrap'[v] = wrap[v]
    BY <1>2 DEF OpenShared, OpenNew, OpenFails, TypeOK
  <2>3. \A v \in Wrappers : handle[v] = "open" => handle'[v] = "open"
    BY <1>2 DEF OpenShared, OpenNew, OpenFails, CanOpen, TypeOK
  <2> QED BY <1>1, <2>1, <2>2, <2>3 DEF JobInv, Running
<1>3. ASSUME NEW w \in Wrappers, ctor(w) PROVE JobInv'
  <2>1. /\ job' = job /\ exited' = exited /\ job[w] = None
        /\ handle[w] # "open" /\ wrap[w].env = None
    BY <1>3 DEF ctor, UseInv, UseOf, JobInv
  <2>2. \A v \in Wrappers \ {w} : wrap'[v] = wrap[v] BY <1>3 DEF ctor, TypeOK
  <2>3. \A v \in Wrappers : handle[v] = "open" => handle'[v] = "open"
    BY <1>3, <2>1 DEF ctor, TypeOK
  <2> QED BY <1>1, <2>1, <2>2, <2>3 DEF JobInv, Running
<1>4. ASSUME NEW w \in Wrappers, BeginRead(w) \/ EndRead(w) \/ Collect(w) PROVE JobInv'
  <2>1. job' = job /\ exited' = exited /\ handle' = handle
    BY <1>4 DEF BeginRead, EndRead, Collect
  <2>2. \A v \in Wrappers : wrap'[v].env = wrap[v].env
    BY <1>4 DEF BeginRead, EndRead, Collect, TypeOK
  <2> QED BY <2>1, <2>2 DEF JobInv, Running
<1>5. ASSUME NEW w \in Wrappers, QueueWork(w) \/ Execute(w) PROVE JobInv'
  <2>1. wrap' = wrap /\ exited' = exited /\ handle' = handle BY <1>5 DEF QueueWork, Execute
  <2>2. \A v \in Wrappers \ {w} : job'[v] = job[v] BY <1>5 DEF QueueWork, Execute, TypeOK
  <2>3. job'[w] # None => Running(w) /\ wrap[w].env = job'[w] /\ handle[job'[w]] = "open"
    BY <1>5 DEF QueueWork, Execute, IsOpen, TypeOK
  <2> QED BY <2>1, <2>2, <2>3 DEF JobInv, Running
<1>6. ASSUME NEW w \in Wrappers, close(w) \/ cleanup(w) PROVE JobInv'
  <2>1. job[w] = None /\ job' = job /\ exited' = exited
    BY <1>6 DEF close, cleanup, closeEnv, JobInv
  <2>2. \A v \in Wrappers \ {w} : wrap'[v] = wrap[v] BY <1>6 DEF close, cleanup, TypeOK
  <2>3. ASSUME NEW v \in Wrappers, job[v] # None PROVE handle'[job[v]] = "open"
    <3>1. v # w /\ wrap[v].env = job[v] /\ job[v] \in Wrappers /\ handle[job[v]] = "open"
      BY <1>1, <2>1, <2>3 DEF JobInv
    <3>2. wrap'[v].env = job[v] BY <2>2, <3>1
    <3>3. handle'[job[v]] \in {"open", "closed"}
      BY <1>6, <3>1 DEF close, cleanup, closeEnv
    <3> QED BY <3>1, <3>2, <3>3 DEF UseInv, UseOf
  <2> QED BY <2>1, <2>2, <2>3 DEF JobInv, Running
<1>7. ASSUME NEW t \in Threads, Exit(t) PROVE JobInv'
  <2>1. /\ wrap' = wrap /\ handle' = handle /\ job' = job /\ exited' = exited \cup {t}
        /\ \A w \in Wrappers : ThreadOf[w] = t => job[w] = None
    BY <1>7 DEF Exit
  <2> QED BY <2>1 DEF JobInv, Running
<1>8. CASE UNCHANGED vars BY <1>8 DEF vars, JobInv, Running
<1> QED BY <1>2, <1>3, <1>4, <1>5, <1>6, <1>7, <1>8 DEF Next

-----------------------------------------------------------------------------
(* The theorems. *)

\* Every path names a file of its own.
PathsNameFiles == \A p, q \in Paths : FileOf[p] = FileOf[q] => p = q

\* Every field keeps its type, whatever the order in which threads open, fail,
\* close and end: no reference count of an EnvWrap and no count of an entry of
\* envs goes below zero or above the number of its users.
THEOREM RegistryTyped == Spec => []TypeOK
<1>1. RegistryInv => TypeOK BY DEF RegistryInv
<1> QED BY <1>1, RegistryAlways, PTL

\* When every path string names a file of its own, the registry of env.cpp holds
\* exactly the open environments with the number of their users, no wrapper
\* keeps a pointer to a closed environment, and no file is open twice.
THEOREM RegistryCorrect ==
    ASSUME PathsNameFiles
    PROVE  Spec => []RegistryExact
<1>1. RegistryInv => RegistryExact
  <2> SUFFICES ASSUME RegistryInv PROVE RegistryExact OBVIOUS
  <2> USE RegistryAssumption DEF RegistryInv
  <2>1. \A h \in Wrappers :
          handle[h] = "open" <=> \E e \in envs : e.env = h /\ e.path = path[h]
    BY DEF EntryInv
  <2>2. \A e \in envs : e.count = Cardinality({w \in Wrappers : wrap[w].env = e.env})
    BY DEF CountInv, Users
  <2>3. \A w \in Wrappers : wrap[w].env # None => handle[wrap[w].env] # "closed"
    BY DEF UseInv, UseOf
  <2>4. OneEnvPerFile
    <3> SUFFICES ASSUME NEW g \in Wrappers, NEW h \in Wrappers, handle[g] = "open",
                        handle[h] = "open", FileOf[path[g]] = FileOf[path[h]]
                 PROVE  g = h
      BY DEF OneEnvPerFile
    <3>1. PICK e \in envs : e.env = g /\ e.path = path[g] BY DEF EntryInv
    <3>2. PICK f \in envs : f.env = h /\ f.path = path[h] BY DEF EntryInv
    <3>3. e.path \in Paths /\ f.path \in Paths BY DEF TypeOK
    <3>4. e.path = f.path BY <3>1, <3>2, <3>3, PathsNameFiles DEF PathsNameFiles
    <3> QED BY <3>1, <3>2, <3>4 DEF EntryInv
  <2> QED BY <2>1, <2>2, <2>3, <2>4 DEF RegistryExact
<1> QED BY <1>1, RegistryAlways, PTL

\* As long as the user does not close under queued work, no open transaction and
\* no worker on the pool refers to an environment that is not open, whichever
\* threads close theirs of the same path.
THEOREM UseCorrect ==
    ASSUME ~CloseWhileBusy
    PROVE  Spec => []InUseIsOpen
<1>1. Init => JobInv BY DEF Init, JobInv
<1>2. RegistryInv /\ RegistryInv' /\ JobInv /\ [Next]_vars => JobInv' BY JobStep
<1>3. RegistryInv /\ JobInv => InUseIsOpen
  BY RegistryAssumption, WrapRecord DEF RegistryInv, RefsInv, UseInv, UseOf, JobInv, InUseIsOpen
<1> QED BY <1>1, <1>2, <1>3, RegistryAlways, PTL DEF Spec

\* When all threads have ended and the cleanup hooks have run, every environment
\* has been closed: no failure of openEnv, no close() and no order of the hooks
\* leaves one without a user that will close it.
THEOREM ReleaseCorrect == Spec => []AllReleased
<1>1. RegistryInv => AllReleased
  <2> SUFFICES ASSUME RegistryInv, \A w \in Wrappers : ~wrap[w].hook
               PROVE  envs = {} /\ \A h \in Wrappers : handle[h] # "open"
    BY DEF AllReleased
  <2> USE RegistryAssumption DEF RegistryInv
  <2>1. ASSUME NEW e \in envs PROVE FALSE
    <3>1. /\ e.env \in Wrappers /\ e.count >= 1 /\ handle[e.env] = "open"
          /\ e.count = Cardinality(Users(e.env))
      BY DEF TypeOK, EntryInv, CountInv
    <3>2. Users(e.env) = {} BY <3>1 DEF Users, UseInv, UseOf
    <3> QED BY <3>1, <3>2, FS_EmptySet
  <2> QED BY <2>1 DEF EntryInv
<1> QED BY <1>1, RegistryAlways, PTL

=============================================================================
