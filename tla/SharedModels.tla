---------------------------- MODULE SharedModels ----------------------------
(***************************************************************************)
(* Sessions, their model stores and the model cache they share:            *)
(* service/model_store.py (ModelStore), service/session_manager.py         *)
(* (SessionManager) and service/model_cache.py (ModelCache).               *)
(*                                                                         *)
(* Threads run the methods of these three classes.  A method is cut where  *)
(* the code lets go of a lock: a step is one critical section of a store   *)
(* or of the cache, or the parse between them.  The manager's lock is      *)
(* explicit, because a store is closed while it is held and the close      *)
(* itself takes several steps.                                             *)
(*                                                                         *)
(* Which sessions expire, and when, is SessionManager.tla's subject: here  *)
(* an open session may be closed at any time its lock is free.             *)
(***************************************************************************)
EXTENDS ModelCache

CONSTANTS
    Threads,
    Stores,      \* ModelStore objects; a session owns exactly one
    PrivateIds,  \* _new_id: random ids of models that are not shared
    MaxModels,   \* max_models_per_session
    NoId,        \* "no such key" of the dedup index
    NoThread     \* nobody holds the manager's lock

AllIds == Ids \cup PrivateIds

ASSUME SharedModelsAssumption ==
    /\ IsFiniteSet(Threads) /\ IsFiniteSet(Stores)
    /\ Ids \cap PrivateIds = {}
    /\ NoId \notin AllIds
    /\ NoThread \notin Threads
    /\ MaxModels \in Nat

VARIABLES
    session,    \* per store: not created yet, in the manager's map, or dropped
    models,     \* _models (with _raws, _graphs, _summaries): id -> content
    sharedIds,  \* _shared_ids: ids backed by the cache
    index,      \* _content_hash_index: content -> id
    mgrLock,    \* SessionManager._lock, when a close holds it over several steps
    pc,         \* what each thread does next
    at,         \* the store it works on
    want,       \* the content it loads
    shares,     \* dedup_eligible: whether that load goes through the cache
    todo        \* ids whose reference it has still to release

storeVars == <<models, sharedIds, index>>
threadVars == <<pc, at, want, shares, todo>>
vars == <<cacheVars, session, storeVars, mgrLock, threadVars>>

Steps == {"idle", "ready", "acquire", "capacity", "parse", "insert", "keep",
          "adopt", "release"}

TypeOK ==
    /\ CacheTypeOK
    /\ session \in [Stores -> {"new", "open", "closed"}]
    /\ models \in [Stores -> [AllIds -> Hashes \cup {NoHash}]]
    /\ sharedIds \in [Stores -> SUBSET Ids]
    /\ index \in [Stores -> [Hashes -> AllIds \cup {NoId}]]
    /\ mgrLock \in Threads \cup {NoThread}
    /\ pc \in [Threads -> Steps]
    /\ at \in [Threads -> Stores]
    /\ want \in [Threads -> Hashes]
    /\ shares \in [Threads -> BOOLEAN]
    /\ todo \in [Threads -> SUBSET Ids]

Init ==
    /\ CacheInit
    /\ session = [s \in Stores |-> "new"]
    /\ models = [s \in Stores |-> [i \in AllIds |-> NoHash]]
    /\ sharedIds = [s \in Stores |-> {}]
    /\ index = [s \in Stores |-> [h \in Hashes |-> NoId]]
    /\ mgrLock = NoThread
    /\ pc = [t \in Threads |-> "idle"]
    /\ at \in [Threads -> Stores]
    /\ want \in [Threads -> Hashes]
    /\ shares = [t \in Threads |-> FALSE]
    /\ todo = [t \in Threads |-> {}]

Loaded(s) == {i \in AllIds : models[s][i] # NoHash}
FullOffByOne(s) == Cardinality(Loaded(s)) > MaxModels  \* mutant
Full(s) == Cardinality(Loaded(s)) >= MaxModels

\* The dedup index of a store without the entries of a removed model.
IndexKept(s, i) == index[s]  \* mutant
Unindexed(s, i) == [h \in Hashes |-> IF index[s][h] = i THEN NoId ELSE index[s][h]]

GoTo(t, step) == pc' = [pc EXCEPT ![t] = step]

-----------------------------------------------------------------------------
(* The session manager: each method runs under the manager's lock.         *)

\* create_session, get_or_create_default, get_or_create_named: a new store.
CreateSession(s) ==
    /\ mgrLock = NoThread
    /\ session[s] = "new"
    /\ session' = [session EXCEPT ![s] = "open"]
    /\ UNCHANGED <<cacheVars, storeVars, mgrLock, threadVars>>

\* get_store: the caller leaves with the store and works on it without the
\* manager's lock, whatever becomes of the session meanwhile.
GetStore(t, s) ==
    /\ pc[t] = "idle"
    /\ mgrLock = NoThread
    /\ session[s] = "open"
    /\ GoTo(t, "ready")
    /\ at' = [at EXCEPT ![t] = s]
    /\ UNCHANGED <<cacheVars, session, storeVars, mgrLock, want, shares, todo>>

\* ModelStore.close, from close_session, an expiry met by get_store or
\* get_session, and _purge_expired: the store is emptied under its lock; the
\* references it held are then released one by one, the manager's lock held.
CloseSession(t, s) ==
    /\ pc[t] = "idle"
    /\ mgrLock = NoThread
    /\ session[s] = "open"
    /\ session' = [session EXCEPT ![s] = "closed"]
    /\ models' = [models EXCEPT ![s] = [i \in AllIds |-> NoHash]]
    /\ sharedIds' = [sharedIds EXCEPT ![s] = {}]
    /\ index' = [index EXCEPT ![s] = [h \in Hashes |-> NoId]]
    /\ todo' = [todo EXCEPT ![t] = sharedIds[s]]
    /\ IF sharedIds[s] = {}
       THEN UNCHANGED <<pc, mgrLock>>
       ELSE GoTo(t, "release") /\ mgrLock' = t
    /\ UNCHANGED <<cacheVars, at, want, shares>>

-----------------------------------------------------------------------------
(* ModelStore.load_model                                                   *)

\* A plain YAML load looks in the store's dedup index first.  On a hit the
\* load ends there (reused, or refused for its data source); a stale index
\* entry is dropped.
LoadByHash(t, h) ==
    LET s == at[t] IN
    /\ pc[t] = "ready"
    /\ want' = [want EXCEPT ![t] = h]
    /\ shares' = [shares EXCEPT ![t] = TRUE]
    /\ IF index[s][h] # NoId /\ index[s][h] \in Loaded(s)
       THEN GoTo(t, "idle") /\ UNCHANGED index
       ELSE GoTo(t, "acquire") /\ index' = [index EXCEPT ![s][h] = NoId]
    /\ UNCHANGED <<cacheVars, session, models, sharedIds, mgrLock, at, todo>>

\* dedup=False, raw_dict, extends or inherits: the load stays private.
LoadPrivately(t, h) ==
    /\ pc[t] = "ready"
    /\ want' = [want EXCEPT ![t] = h]
    /\ shares' = [shares EXCEPT ![t] = FALSE]
    /\ GoTo(t, "capacity")
    /\ UNCHANGED <<cacheVars, session, storeVars, mgrLock, at, todo>>

\* The cross-session lookup.  A model whose data source this environment
\* cannot run is refused, after its reference has been taken.
AcquireShared(t) ==
    LET h == want[t] IN
    /\ pc[t] = "acquire"
    /\ Acquire(h)
    /\ \/ /\ ~Cached(h)
          /\ GoTo(t, "capacity")
          /\ UNCHANGED todo
       \/ /\ Cached(h)
          /\ GoTo(t, "adopt")
          /\ UNCHANGED todo
       \/ /\ Cached(h)
          /\ GoTo(t, "release")
          /\ todo' = [todo EXCEPT ![t] = {ContentId[h]}]
    /\ UNCHANGED <<session, storeVars, mgrLock, at, want, shares>>

\* The first capacity check, made before the expensive parse.
CheckCapacity(t) ==
    /\ pc[t] = "capacity"
    /\ GoTo(t, IF Full(at[t]) THEN "idle" ELSE "parse")
    /\ UNCHANGED <<cacheVars, session, storeVars, mgrLock, at, want, shares, todo>>

\* Parse, resolve, validate and export, under no lock: it may fail.
Parse(t) ==
    /\ pc[t] = "parse"
    /\ \/ GoTo(t, "idle")
       \/ GoTo(t, IF shares[t] THEN "insert" ELSE "keep")
    /\ UNCHANGED <<cacheVars, session, storeVars, mgrLock, at, want, shares, todo>>

Insert(t) ==
    /\ pc[t] = "insert"
    /\ InsertOrAcquire(want[t])
    /\ GoTo(t, "adopt")
    /\ UNCHANGED <<session, storeVars, mgrLock, at, want, shares, todo>>

\* _adopt_shared with _register_shared: the store keeps the reference, unless
\* it already has one for this id or is full; then it has to give it back.
AdoptShared(t) ==
    LET s == at[t]
        h == want[t]
        i == ContentId[h]
    IN
    /\ pc[t] = "adopt"
    /\ IF i \in sharedIds[s] \/ Full(s)
       THEN /\ GoTo(t, "release")
            /\ todo' = [todo EXCEPT ![t] = {i}]
            /\ UNCHANGED storeVars
       ELSE /\ models' = [models EXCEPT ![s][i] = h]
            /\ index' = [index EXCEPT ![s][h] = i]
            /\ sharedIds' = [sharedIds EXCEPT ![s] = @ \cup {i}]
            /\ GoTo(t, "idle")
            /\ UNCHANGED todo
    /\ UNCHANGED <<cacheVars, session, mgrLock, at, want, shares>>

\* The private path: capacity is checked again, the parse ran without a lock.
KeepPrivate(t) ==
    LET s == at[t] IN
    /\ pc[t] = "keep"
    /\ GoTo(t, "idle")
    /\ IF Full(s)
       THEN UNCHANGED models
       ELSE \E i \in PrivateIds :
              /\ \A r \in Stores : i \notin Loaded(r)
              /\ models' = [models EXCEPT ![s][i] = want[t]]
    /\ UNCHANGED <<cacheVars, session, sharedIds, index, mgrLock, at, want, shares, todo>>

-----------------------------------------------------------------------------
\* remove_model: one critical section of the store; the shared reference is
\* released after it.
RemoveModel(t, i) ==
    LET s == at[t] IN
    /\ pc[t] = "ready"
    /\ i \in Loaded(s)
    /\ models' = [models EXCEPT ![s][i] = NoHash]
    /\ index' = [index EXCEPT ![s] = Unindexed(s, i)]
    /\ sharedIds' = [sharedIds EXCEPT ![s] = @ \ {i}]
    /\ IF i \in sharedIds[s]
       THEN GoTo(t, "release") /\ todo' = [todo EXCEPT ![t] = {i}]
       ELSE GoTo(t, "idle") /\ UNCHANGED todo
    /\ UNCHANGED <<cacheVars, session, mgrLock, at, want, shares>>

\* One call of ModelCache.release by whoever still owes it; with the last one
\* the operation ends, and a close lets the manager's lock go.
ReleaseOne(t, i) ==
    /\ pc[t] = "release"
    /\ i \in todo[t]
    /\ Release(i)
    /\ todo' = [todo EXCEPT ![t] = @ \ {i}]
    /\ IF todo[t] = {i}
       THEN /\ GoTo(t, "idle")
            /\ mgrLock' = IF mgrLock = t THEN NoThread ELSE mgrLock
       ELSE UNCHANGED <<pc, mgrLock>>
    /\ UNCHANGED <<session, storeVars, at, want, shares>>

-----------------------------------------------------------------------------
Step(t) ==
    \/ AcquireShared(t)
    \/ CheckCapacity(t)
    \/ Parse(t)
    \/ Insert(t)
    \/ AdoptShared(t)
    \/ KeepPrivate(t)
    \/ \E i \in Ids : ReleaseOne(t, i)

Begin(t) ==
    \/ \E s \in Stores : GetStore(t, s) \/ CloseSession(t, s)
    \/ \E h \in Hashes : LoadByHash(t, h) \/ LoadPrivately(t, h)
    \/ \E i \in AllIds : RemoveModel(t, i)

Next ==
    \/ \E s \in Stores : CreateSession(s)
    \/ \E t \in Threads : Begin(t) \/ Step(t)

Spec == Init /\ [][Next]_vars

-----------------------------------------------------------------------------
(* Properties                                                              *)

\* The references a thread has taken and neither handed to a store nor
\* released yet.
Owed(t) == IF pc[t] = "adopt" THEN {ContentId[want[t]]} ELSE todo[t]

Holders(i) == {s \in Stores : i \in sharedIds[s]}
Debtors(i) == {t \in Threads : i \in Owed(t)}

\* The count of a cache entry is exactly the number of stores that expose its
\* model plus the references in flight: no load, failed load, duplicate load,
\* removal or close, in any interleaving, loses or invents one.  (An entry
\* evicted too early is a model recompiled while it is in use; one never
\* evicted is a leak.)
RefcountExact ==
    \A h \in Hashes :
        refcount[h] = Cardinality(Holders(ContentId[h]))
                      + Cardinality(Debtors(ContentId[h]))

\* What release goes by and what acquire goes by never disagree: an id leads
\* to the entry it labels, as long as there is one.
LabelsAgree ==
    /\ \A h \in Hashes : Cached(h) => byId[ContentId[h]] = h
    /\ \A i \in Ids : byId[i] # NoHash => Cached(byId[i]) /\ ContentId[byId[i]] = i

\* The dedup index answers with a model that is loaded, shared, and made from
\* exactly the bytes asked for; and a model is counted as shared only while
\* the store exposes it.
IndexSound ==
    \A s \in Stores :
        /\ sharedIds[s] \subseteq Loaded(s)
        /\ \A h \in Hashes :
              index[s][h] # NoId => /\ index[s][h] \in sharedIds[s]
                                    /\ models[s][index[s][h]] = h

\* No interleaving of loads takes a session over its model cap, although the
\* check before the parse is stale by the time the model is stored.
CapacityRespected == \A s \in Stores : Cardinality(Loaded(s)) <= MaxModels
=============================================================================
