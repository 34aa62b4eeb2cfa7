------------------------- MODULE SharedModelsProofs -------------------------
(***************************************************************************)
(* What SharedModels promises for every number of threads, sessions,       *)
(* contents and models.                                                    *)
(***************************************************************************)
EXTENDS SharedModels, FiniteSetTheorems, TLAPS

-----------------------------------------------------------------------------
(* The cache's operations and the type of its dictionaries.                *)

\* A release leaves both dictionaries of the cache well formed.
LEMMA ReleaseType ==
    ASSUME CacheTypeOK, NEW i \in Ids, Release(i)
    PROVE  CacheTypeOK'
<1>1. CASE byId[i] = NoHash
  BY <1>1 DEF CacheTypeOK, Release, cacheVars
<1>2. CASE byId[i] # NoHash
  <2> DEFINE h == byId[i]
  <2>1. h \in Hashes
    BY <1>2 DEF CacheTypeOK
  <2>2. refcount' \in [Hashes -> Nat]
    BY <1>2, <2>1 DEF CacheTypeOK, Release, Cached
  <2>3. byId' \in [Ids -> Hashes \cup {NoHash}]
    BY <1>2, <2>1 DEF CacheTypeOK, Release
  <2> QED BY <2>2, <2>3 DEF CacheTypeOK
<1> QED BY <1>1, <1>2

\* Taking a reference does too.
LEMMA AcquireType ==
    ASSUME CacheTypeOK, NEW h \in Hashes, Acquire(h) \/ InsertOrAcquire(h)
    PROVE  CacheTypeOK'
BY ContentIdAssumption DEF CacheTypeOK, Acquire, InsertOrAcquire, Cached

-----------------------------------------------------------------------------
(* Type correctness                                                        *)

\* A thread goes from one of its steps to another.
LEMMA GoToType ==
    ASSUME pc \in [Threads -> Steps], NEW t \in Threads, NEW step \in Steps, GoTo(t, step)
    PROVE  pc' \in [Threads -> Steps]
BY DEF GoTo

\* The process starts well typed.
LEMMA TypeInit == Init => TypeOK
BY DEF Init, TypeOK, CacheInit, CacheTypeOK, Steps, AllIds

\* Every step of every thread keeps the types.
LEMMA TypeStep == TypeOK /\ [Next]_vars => TypeOK'
<1> SUFFICES ASSUME TypeOK, [Next]_vars PROVE TypeOK'
  OBVIOUS
<1> USE DEF TypeOK
<1>1. ASSUME NEW s \in Stores, CreateSession(s) PROVE TypeOK'
  BY <1>1 DEF CreateSession, cacheVars, storeVars, threadVars, CacheTypeOK
<1>2. ASSUME NEW t \in Threads, NEW s \in Stores, GetStore(t, s) PROVE TypeOK'
  <2>1. pc' \in [Threads -> Steps]
    BY <1>2, GoToType DEF GetStore, Steps
  <2> QED BY <1>2, <2>1 DEF GetStore, cacheVars, storeVars, CacheTypeOK
<1>3. ASSUME NEW t \in Threads, NEW s \in Stores, CloseSession(t, s) PROVE TypeOK'
  <2>1. pc' \in [Threads -> Steps]
    BY <1>3, GoToType DEF CloseSession, Steps
  <2>2. /\ mgrLock' \in Threads \cup {NoThread}
        /\ todo' \in [Threads -> SUBSET Ids]
    BY <1>3 DEF CloseSession
  <2>3. /\ models' \in [Stores -> [AllIds -> Hashes \cup {NoHash}]]
        /\ sharedIds' \in [Stores -> SUBSET Ids]
        /\ index' \in [Stores -> [Hashes -> AllIds \cup {NoId}]]
    BY <1>3 DEF CloseSession
  <2> QED BY <1>3, <2>1, <2>2, <2>3 DEF CloseSession, cacheVars, CacheTypeOK
<1>4. ASSUME NEW t \in Threads, NEW h \in Hashes, LoadByHash(t, h) PROVE TypeOK'
  <2>1. pc' \in [Threads -> Steps]
    <3>1. GoTo(t, "idle") \/ GoTo(t, "acquire")
      BY <1>4 DEF LoadByHash
    <3> QED BY <3>1, GoToType DEF Steps
  <2>2. index' \in [Stores -> [Hashes -> AllIds \cup {NoId}]]
    <3>1. [index[at[t]] EXCEPT ![h] = NoId] \in [Hashes -> AllIds \cup {NoId}]
      OBVIOUS
    <3>2. \/ index' = index
          \/ index' = [index EXCEPT ![at[t]] = [index[at[t]] EXCEPT ![h] = NoId]]
      BY <1>4 DEF LoadByHash
    <3> QED BY <3>1, <3>2
  <2> QED BY <1>4, <2>1, <2>2 DEF LoadByHash, cacheVars, CacheTypeOK
<1>5. ASSUME NEW t \in Threads, NEW h \in Hashes, LoadPrivately(t, h) PROVE TypeOK'
  <2>1. pc' \in [Threads -> Steps]
    BY <1>5, GoToType DEF LoadPrivately, Steps
  <2> QED BY <1>5, <2>1 DEF LoadPrivately, cacheVars, storeVars, CacheTypeOK
<1>6. ASSUME NEW t \in Threads, NEW i \in AllIds, RemoveModel(t, i) PROVE TypeOK'
  <2>1. pc' \in [Threads -> Steps]
    BY <1>6, GoToType DEF RemoveModel, Steps
  <2>2. todo' \in [Threads -> SUBSET Ids]
    <3>1. todo' = todo \/ (i \in sharedIds[at[t]] /\ todo' = [todo EXCEPT ![t] = {i}])
      BY <1>6 DEF RemoveModel
    <3>2. CASE todo' = todo
      BY <3>2
    <3>3. CASE i \in sharedIds[at[t]] /\ todo' = [todo EXCEPT ![t] = {i}]
      <4>1. {i} \in SUBSET Ids
        BY <3>3
      <4> QED BY <3>3, <4>1
    <3> QED BY <3>1, <3>2, <3>3
  <2>3. models' \in [Stores -> [AllIds -> Hashes \cup {NoHash}]]
    <3>1. [models[at[t]] EXCEPT ![i] = NoHash] \in [AllIds -> Hashes \cup {NoHash}]
      OBVIOUS
    <3>2. models' = [models EXCEPT ![at[t]] = [models[at[t]] EXCEPT ![i] = NoHash]]
      BY <1>6 DEF RemoveModel
    <3> QED BY <3>1, <3>2
  <2>4. index' \in [Stores -> [Hashes -> AllIds \cup {NoId}]]
    <3>1. Unindexed(at[t], i) \in [Hashes -> AllIds \cup {NoId}]
      BY DEF Unindexed
    <3>2. index' = [index EXCEPT ![at[t]] = Unindexed(at[t], i)]
      BY <1>6 DEF RemoveModel
    <3> QED BY <3>1, <3>2
  <2>5. sharedIds' \in [Stores -> SUBSET Ids]
    BY <1>6 DEF RemoveModel
  <2> QED BY <1>6, <2>1, <2>2, <2>3, <2>4, <2>5 DEF RemoveModel, cacheVars, CacheTypeOK
<1>7. ASSUME NEW t \in Threads, AcquireShared(t) PROVE TypeOK'
  <2>1. CacheTypeOK'
    BY <1>7, AcquireType DEF AcquireShared
  <2>2. pc' \in [Threads -> Steps]
    BY <1>7, GoToType DEF AcquireShared, Steps
  <2>3. todo' \in [Threads -> SUBSET Ids]
    <3>1. ContentId[want[t]] \in Ids
      BY ContentIdAssumption
    <3>2. todo' = todo \/ todo' = [todo EXCEPT ![t] = {ContentId[want[t]]}]
      BY <1>7 DEF AcquireShared
    <3>3. CASE todo' = todo
      BY <3>3
    <3>4. CASE todo' = [todo EXCEPT ![t] = {ContentId[want[t]]}]
      <4>1. {ContentId[want[t]]} \in SUBSET Ids
        BY <3>1
      <4> QED BY <3>4, <4>1
    <3> QED BY <3>2, <3>3, <3>4
  <2> QED BY <1>7, <2>1, <2>2, <2>3 DEF AcquireShared, storeVars
<1>8. ASSUME NEW t \in Threads, CheckCapacity(t) PROVE TypeOK'
  <2>1. pc' \in [Threads -> Steps]
    <3>1. GoTo(t, "idle") \/ GoTo(t, "parse")
      BY <1>8 DEF CheckCapacity
    <3> QED BY <3>1, GoToType DEF Steps
  <2> QED BY <1>8, <2>1 DEF CheckCapacity, cacheVars, storeVars, CacheTypeOK
<1>9. ASSUME NEW t \in Threads, Parse(t) PROVE TypeOK'
  <2>1. pc' \in [Threads -> Steps]
    <3>1. GoTo(t, "idle") \/ GoTo(t, "insert") \/ GoTo(t, "keep")
      BY <1>9 DEF Parse
    <3> QED BY <3>1, GoToType DEF Steps
  <2> QED BY <1>9, <2>1 DEF Parse, cacheVars, storeVars, CacheTypeOK
<1>10. ASSUME NEW t \in Threads, Insert(t) PROVE TypeOK'
  <2>1. CacheTypeOK'
    BY <1>10, AcquireType DEF Insert
  <2>2. pc' \in [Threads -> Steps]
    BY <1>10, GoToType DEF Insert, Steps
  <2> QED BY <1>10, <2>1, <2>2 DEF Insert, storeVars
<1>11. ASSUME NEW t \in Threads, AdoptShared(t) PROVE TypeOK'
  <2> DEFINE s == at[t]
             h == want[t]
             i == ContentId[h]
  <2>1. /\ i \in Ids /\ i \in AllIds
        /\ pc' \in [Threads -> Steps]
    BY <1>11, ContentIdAssumption, GoToType DEF AdoptShared, AllIds, Steps
  <2>2. CASE i \in sharedIds[s] \/ Full(s)
    <3>1. todo' = [todo EXCEPT ![t] = {i}] /\ UNCHANGED storeVars
      BY <1>11, <2>2 DEF AdoptShared
    <3> QED BY <1>11, <2>1, <3>1 DEF AdoptShared, storeVars, cacheVars, CacheTypeOK
  <2>3. CASE ~(i \in sharedIds[s] \/ Full(s))
    <3>1. /\ models' = [models EXCEPT ![s] = [models[s] EXCEPT ![i] = h]]
          /\ index' = [index EXCEPT ![s] = [index[s] EXCEPT ![h] = i]]
          /\ sharedIds' = [sharedIds EXCEPT ![s] = sharedIds[s] \cup {i}]
          /\ UNCHANGED todo
      BY <1>11, <2>3 DEF AdoptShared
    <3>2. /\ [models[s] EXCEPT ![i] = h] \in [AllIds -> Hashes \cup {NoHash}]
          /\ [index[s] EXCEPT ![h] = i] \in [Hashes -> AllIds \cup {NoId}]
          /\ sharedIds[s] \cup {i} \in SUBSET Ids
      BY <2>1
    <3>3. /\ models' \in [Stores -> [AllIds -> Hashes \cup {NoHash}]]
          /\ index' \in [Stores -> [Hashes -> AllIds \cup {NoId}]]
          /\ sharedIds' \in [Stores -> SUBSET Ids]
      BY <3>1, <3>2
    <3> QED BY <1>11, <2>1, <3>1, <3>3 DEF AdoptShared, cacheVars, CacheTypeOK
  <2> QED BY <2>2, <2>3
<1>12. ASSUME NEW t \in Threads, KeepPrivate(t) PROVE TypeOK'
  <2>1. pc' \in [Threads -> Steps]
    BY <1>12, GoToType DEF KeepPrivate, Steps
  <2>2. models' \in [Stores -> [AllIds -> Hashes \cup {NoHash}]]
    <3>1. CASE Full(at[t])
      BY <1>12, <3>1 DEF KeepPrivate
    <3>2. CASE ~Full(at[t])
      <4>1. PICK i \in PrivateIds :
                models' = [models EXCEPT ![at[t]] = [models[at[t]] EXCEPT ![i] = want[t]]]
        BY <1>12, <3>2 DEF KeepPrivate
      <4>2. [models[at[t]] EXCEPT ![i] = want[t]] \in [AllIds -> Hashes \cup {NoHash}]
        BY DEF AllIds
      <4> QED BY <4>1, <4>2
    <3> QED BY <3>1, <3>2
  <2> QED BY <1>12, <2>1, <2>2 DEF KeepPrivate, cacheVars, CacheTypeOK
<1>13. ASSUME NEW t \in Threads, NEW i \in Ids, ReleaseOne(t, i) PROVE TypeOK'
  <2>1. CacheTypeOK'
    BY <1>13, ReleaseType DEF ReleaseOne
  <2>2. pc' \in [Threads -> Steps]
    BY <1>13, GoToType DEF ReleaseOne, Steps
  <2>3. /\ todo' \in [Threads -> SUBSET Ids]
        /\ mgrLock' \in Threads \cup {NoThread}
    BY <1>13 DEF ReleaseOne
  <2> QED BY <1>13, <2>1, <2>2, <2>3 DEF ReleaseOne, storeVars
<1>14. CASE UNCHANGED vars
  BY <1>14 DEF vars, cacheVars, storeVars, threadVars, CacheTypeOK
<1> QED
  BY <1>1, <1>2, <1>3, <1>4, <1>5, <1>6, <1>7, <1>8, <1>9, <1>10, <1>11, <1>12,
     <1>13, <1>14 DEF Next, Begin, Step

\* The state of the cache, the stores and the threads stays well formed.
THEOREM TypeCorrect == Spec => []TypeOK
BY TypeInit, TypeStep, PTL DEF Spec
-----------------------------------------------------------------------------
(* Reference counting.  The argument: a reference is held by a store or    *)
(* owed by a thread, every step either leaves both as they are, moves one  *)
(* between a store and a thread, or changes the count with the debt; and   *)
(* release, which goes by label, finds the entry the reference is to.      *)

\* A thread owes references only while it is releasing or about to adopt.
TodoShape == \A t \in Threads : pc[t] # "release" => todo[t] = {}

\* Every step keeps that so.
LEMMA TodoShapeStep == TypeOK /\ TodoShape /\ [Next]_vars => TodoShape'
<1> SUFFICES ASSUME TypeOK, TodoShape, [Next]_vars PROVE TodoShape'
  OBVIOUS
<1> USE DEF TypeOK, TodoShape
<1>2. ASSUME NEW s \in Stores, CreateSession(s) PROVE TodoShape'
  BY <1>2 DEF CreateSession, threadVars
<1>3. ASSUME NEW t \in Threads, NEW s \in Stores, GetStore(t, s) PROVE TodoShape'
  BY <1>3 DEF GetStore, GoTo
<1>4. ASSUME NEW t \in Threads, NEW s \in Stores, CloseSession(t, s) PROVE TodoShape'
  BY <1>4 DEF CloseSession, GoTo
<1>5. ASSUME NEW t \in Threads, NEW h \in Hashes, LoadByHash(t, h) PROVE TodoShape'
  BY <1>5 DEF LoadByHash, GoTo
<1>6. ASSUME NEW t \in Threads, NEW h \in Hashes, LoadPrivately(t, h) PROVE TodoShape'
  BY <1>6 DEF LoadPrivately, GoTo
<1>7. ASSUME NEW t \in Threads, NEW i \in AllIds, RemoveModel(t, i) PROVE TodoShape'
  BY <1>7 DEF RemoveModel, GoTo
<1>8. ASSUME NEW t \in Threads, AcquireShared(t) PROVE TodoShape'
  BY <1>8 DEF AcquireShared, GoTo
<1>9. ASSUME NEW t \in Threads, CheckCapacity(t) PROVE TodoShape'
  BY <1>9 DEF CheckCapacity, GoTo
<1>10. ASSUME NEW t \in Threads, Parse(t) PROVE TodoShape'
  BY <1>10 DEF Parse, GoTo
<1>11. ASSUME NEW t \in Threads, Insert(t) PROVE TodoShape'
  BY <1>11 DEF Insert, GoTo
<1>12. ASSUME NEW t \in Threads, AdoptShared(t) PROVE TodoShape'
  BY <1>12 DEF AdoptShared, GoTo
<1>13. ASSUME NEW t \in Threads, KeepPrivate(t) PROVE TodoShape'
  BY <1>13 DEF KeepPrivate, GoTo
<1>14. ASSUME NEW t \in Threads, NEW i \in Ids, ReleaseOne(t, i) PROVE TodoShape'
  BY <1>14 DEF ReleaseOne, GoTo
<1>15. CASE UNCHANGED vars
  BY <1>15 DEF vars, threadVars
<1> QED
  BY <1>2, <1>3, <1>4, <1>5, <1>6, <1>7, <1>8, <1>9, <1>10, <1>11, <1>12, <1>13,
     <1>14, <1>15 DEF Next, Begin, Step

\* The inductive invariant.
RefInv == TypeOK /\ TodoShape /\ RefcountExact /\ LabelsAgree

\* Only finitely many hold an id, so taking one in or out moves the number of
\* holders by one.
LEMMA HoldersFinite ==
    ASSUME NEW i
    PROVE  IsFiniteSet(Holders(i)) /\ IsFiniteSet(Debtors(i))
<1>1. Holders(i) \subseteq Stores /\ Debtors(i) \subseteq Threads
  BY DEF Holders, Debtors
<1> QED BY <1>1, SharedModelsAssumption, FS_Subset

\* One holder more, or one less, counts one more, or one less.
LEMMA OneMore ==
    ASSUME NEW S, NEW x, IsFiniteSet(S), x \notin S
    PROVE  Cardinality(S \cup {x}) = Cardinality(S) + 1
BY FS_AddElement

\* The same for an element taken out.
LEMMA OneLess ==
    ASSUME NEW S, NEW x, IsFiniteSet(S), x \in S
    PROVE  Cardinality(S \ {x}) = Cardinality(S) - 1
BY FS_RemoveElement

\* A step that changes neither the cache nor who holds what.
Quiet == /\ UNCHANGED <<cacheVars, sharedIds>>
         /\ \A t \in Threads : Owed(t)' = Owed(t)

\* Such a step keeps the counts exact.
LEMMA QuietKeeps ==
    ASSUME RefcountExact, LabelsAgree, Quiet
    PROVE  RefcountExact' /\ LabelsAgree'
<1>1. \A i : Holders(i)' = Holders(i) /\ Debtors(i)' = Debtors(i)
  BY DEF Quiet, Holders, Debtors
<1> QED BY <1>1 DEF Quiet, cacheVars, RefcountExact, LabelsAgree, Cached

\* One more reference to h, owed by a thread that owed none.
LEMMA TakeKeeps ==
    ASSUME TypeOK, RefcountExact, LabelsAgree, LabelsDistinct,
           NEW t \in Threads, NEW h \in Hashes,
           UNCHANGED sharedIds,
           refcount' = [refcount EXCEPT ![h] = @ + 1],
           byId' = IF Cached(h) THEN byId ELSE [byId EXCEPT ![ContentId[h]] = h],
           Owed(t) = {}, Owed(t)' = {ContentId[h]},
           \A u \in Threads \ {t} : Owed(u)' = Owed(u)
    PROVE  RefcountExact' /\ LabelsAgree'
<1> DEFINE i == ContentId[h]
<1>1. \A j : Holders(j)' = Holders(j)
  BY DEF Holders
<1>2. Debtors(i)' = Debtors(i) \cup {t} /\ t \notin Debtors(i)
  BY DEF Debtors
<1>3. \A g \in Hashes : g # h => Debtors(ContentId[g])' = Debtors(ContentId[g])
  BY DEF Debtors, LabelsDistinct
<1>4. Cardinality(Debtors(i)') = Cardinality(Debtors(i)) + 1
  BY <1>2, HoldersFinite, OneMore
<1>5. RefcountExact'
  <2> SUFFICES ASSUME NEW g \in Hashes
               PROVE  refcount'[g] = Cardinality(Holders(ContentId[g])')
                                     + Cardinality(Debtors(ContentId[g])')
    BY DEF RefcountExact
  <2>1. CASE g = h
    <3>1. /\ Cardinality(Holders(i)) \in Nat /\ Cardinality(Debtors(i)) \in Nat
          /\ refcount[h] = Cardinality(Holders(i)) + Cardinality(Debtors(i))
      BY HoldersFinite, FS_CardinalityType DEF RefcountExact
    <3>2. refcount'[h] = refcount[h] + 1
      BY DEF TypeOK, CacheTypeOK
    <3> QED BY <2>1, <1>1, <1>4, <3>1, <3>2
  <2>2. CASE g # h
    BY <2>2, <1>1, <1>3 DEF RefcountExact, TypeOK, CacheTypeOK
  <2> QED BY <2>1, <2>2
<1>6. LabelsAgree'
  <2>1. /\ h \in Hashes /\ i \in Ids /\ h # NoHash
        /\ refcount[h] \in Nat /\ refcount'[h] = refcount[h] + 1
        /\ \A g \in Hashes : g # h => refcount'[g] = refcount[g]
    BY ContentIdAssumption DEF TypeOK, CacheTypeOK
  <2>2. Cached(h)'
    BY <2>1 DEF Cached
  <2>3. byId'[i] = h /\ \A j \in Ids : j # i => byId'[j] = byId[j]
    BY <2>1 DEF LabelsAgree, TypeOK, CacheTypeOK
  <2>4. \A g \in Hashes : Cached(g)' => byId'[ContentId[g]] = g
    <3> SUFFICES ASSUME NEW g \in Hashes, Cached(g)', g # h
                 PROVE  byId'[ContentId[g]] = g
      BY <2>3
    <3>1. ContentId[g] # i /\ ContentId[g] \in Ids
      BY ContentIdAssumption DEF LabelsDistinct
    <3>2. Cached(g)
      BY <2>1 DEF Cached
    <3> QED BY <2>3, <3>1, <3>2 DEF LabelsAgree
  <2>5. \A j \in Ids : byId'[j] # NoHash => refcount'[byId'[j]] > 0 /\ ContentId[byId'[j]] = j
    <3> SUFFICES ASSUME NEW j \in Ids, byId'[j] # NoHash, j # i
                 PROVE  refcount'[byId'[j]] > 0 /\ ContentId[byId'[j]] = j
      BY <2>2, <2>3 DEF Cached
    <3>1. byId'[j] = byId[j] /\ Cached(byId[j]) /\ ContentId[byId[j]] = j
      BY <2>3 DEF LabelsAgree
    <3>2. byId[j] \in Hashes /\ byId[j] # h
      BY <2>3, <3>1 DEF TypeOK, CacheTypeOK
    <3> QED BY <2>1, <3>1, <3>2 DEF Cached
  <2> QED BY <2>4, <2>5 DEF LabelsAgree, Cached
<1> QED BY <1>5, <1>6

\* A store hands the references D over to a thread that owed none.
LEMMA HandOverKeeps ==
    ASSUME TypeOK, RefcountExact, LabelsAgree,
           NEW t \in Threads, NEW s \in Stores, NEW D \in SUBSET sharedIds[s],
           UNCHANGED cacheVars,
           sharedIds' = [sharedIds EXCEPT ![s] = @ \ D],
           Owed(t) = {}, Owed(t)' = D,
           \A u \in Threads \ {t} : Owed(u)' = Owed(u)
    PROVE  RefcountExact' /\ LabelsAgree'
<1>1. ASSUME NEW h \in Hashes
      PROVE  refcount[h] = Cardinality(Holders(ContentId[h])')
                           + Cardinality(Debtors(ContentId[h])')
  <2> DEFINE i == ContentId[h]
  <2>1. /\ refcount[h] = Cardinality(Holders(i)) + Cardinality(Debtors(i))
        /\ Cardinality(Holders(i)) \in Nat /\ Cardinality(Debtors(i)) \in Nat
    BY HoldersFinite, FS_CardinalityType DEF RefcountExact
  <2>2. CASE i \in D
    <3>5. /\ sharedIds'[s] = sharedIds[s] \ D
          /\ \A r \in Stores : r # s => sharedIds'[r] = sharedIds[r]
      BY DEF TypeOK
    <3>6. \A r \in Stores : i \in sharedIds'[r] <=> (i \in sharedIds[r] /\ r # s)
      <4>1. i \in sharedIds[s] /\ i \notin sharedIds'[s]
        BY <2>2, <3>5
      <4> QED BY <3>5, <4>1
    <3>7. s \in Holders(i)
      BY <2>2 DEF Holders
    <3>1. Holders(i)' = Holders(i) \ {s} /\ s \in Holders(i)
      BY <3>6, <3>7 DEF Holders
    <3>2. Debtors(i)' = Debtors(i) \cup {t} /\ t \notin Debtors(i)
      BY <2>2 DEF Debtors
    <3>3. Cardinality(Holders(i)') = Cardinality(Holders(i)) - 1
      BY <3>1, HoldersFinite, OneLess
    <3>4. Cardinality(Debtors(i)') = Cardinality(Debtors(i)) + 1
      BY <3>2, HoldersFinite, OneMore
    <3> QED BY <2>1, <3>3, <3>4
  <2>3. CASE i \notin D
    <3>1. /\ sharedIds'[s] = sharedIds[s] \ D
          /\ \A r \in Stores : r # s => sharedIds'[r] = sharedIds[r]
      BY DEF TypeOK
    <3>2. \A r \in Stores : i \in sharedIds'[r] <=> i \in sharedIds[r]
      BY <2>3, <3>1
    <3>3. Holders(i)' = Holders(i)
      BY <3>2 DEF Holders
    <3>4. Debtors(i)' = Debtors(i)
      BY <2>3 DEF Debtors
    <3> QED BY <2>1, <3>3, <3>4
  <2> QED BY <2>2, <2>3
<1> QED BY <1>1 DEF RefcountExact, LabelsAgree, Cached, cacheVars

\* A store takes over the one reference a thread owes.
LEMMA TakeOverKeeps ==
    ASSUME TypeOK, RefcountExact, LabelsAgree,
           NEW t \in Threads, NEW s \in Stores, NEW i \in Ids \ sharedIds[s],
           UNCHANGED cacheVars,
           sharedIds' = [sharedIds EXCEPT ![s] = @ \cup {i}],
           Owed(t) = {i}, Owed(t)' = {},
           \A u \in Threads \ {t} : Owed(u)' = Owed(u)
    PROVE  RefcountExact' /\ LabelsAgree'
<1>1. ASSUME NEW h \in Hashes
      PROVE  refcount[h] = Cardinality(Holders(ContentId[h])')
                           + Cardinality(Debtors(ContentId[h])')
  <2> DEFINE j == ContentId[h]
  <2>1. /\ refcount[h] = Cardinality(Holders(j)) + Cardinality(Debtors(j))
        /\ Cardinality(Holders(j)) \in Nat /\ Cardinality(Debtors(j)) \in Nat
    BY HoldersFinite, FS_CardinalityType DEF RefcountExact
  <2>2. CASE j = i
    <3>1. Holders(j)' = Holders(j) \cup {s} /\ s \notin Holders(j)
      BY <2>2 DEF Holders, TypeOK
    <3>2. Debtors(j)' = Debtors(j) \ {t} /\ t \in Debtors(j)
      BY <2>2 DEF Debtors
    <3>3. Cardinality(Holders(j)') = Cardinality(Holders(j)) + 1
      BY <3>1, HoldersFinite, OneMore
    <3>4. Cardinality(Debtors(j)') = Cardinality(Debtors(j)) - 1
      BY <3>2, HoldersFinite, OneLess
    <3> QED BY <2>1, <3>3, <3>4
  <2>3. CASE j # i
    <3>1. Holders(j)' = Holders(j) /\ Debtors(j)' = Debtors(j)
      BY <2>3 DEF Holders, Debtors, TypeOK
    <3> QED BY <2>1, <3>1
  <2> QED BY <2>2, <2>3
<1> QED BY <1>1 DEF RefcountExact, LabelsAgree, Cached, cacheVars

\* A release by a thread that owes the reference finds the entry it is to.
LEMMA ReleaseKeeps ==
    ASSUME TypeOK, RefcountExact, LabelsAgree, LabelsDistinct,
           NEW t \in Threads, NEW i \in Ids,
           UNCHANGED sharedIds, Release(i),
           i \in Owed(t), Owed(t)' = Owed(t) \ {i},
           \A u \in Threads \ {t} : Owed(u)' = Owed(u)
    PROVE  RefcountExact' /\ LabelsAgree'
<1>1. \A j : Holders(j)' = Holders(j)
  BY DEF Holders
<1>2. Debtors(i)' = Debtors(i) \ {t} /\ t \in Debtors(i)
  BY DEF Debtors
<1>3. \A j : j # i => Debtors(j)' = Debtors(j)
  BY DEF Debtors
<1>4. Cardinality(Debtors(i)') = Cardinality(Debtors(i)) - 1
  BY <1>2, HoldersFinite, OneLess
<1>5. /\ Cardinality(Holders(i)) \in Nat /\ Cardinality(Debtors(i)) \in Nat
      /\ Cardinality(Debtors(i)) # 0
  BY <1>2, HoldersFinite, FS_CardinalityType, FS_EmptySet
<1>6. CASE byId[i] = NoHash
  <2>1. UNCHANGED cacheVars
    BY <1>6 DEF Release
  <2>2. \A h \in Hashes : ContentId[h] # i
    <3> SUFFICES ASSUME NEW h \in Hashes, ContentId[h] = i PROVE FALSE
      OBVIOUS
    <3>1. refcount[h] = Cardinality(Holders(i)) + Cardinality(Debtors(i))
      BY DEF RefcountExact
    <3>2. Cached(h)
      BY <1>5, <3>1 DEF Cached
    <3> QED BY <1>6, <3>2, ContentIdAssumption DEF LabelsAgree
  <2> QED BY <2>1, <2>2, <1>1, <1>3 DEF RefcountExact, LabelsAgree, Cached, cacheVars
<1>7. CASE byId[i] # NoHash
  <2> DEFINE h == byId[i]
  <2>1. h \in Hashes /\ ContentId[h] = i /\ Cached(h)
    BY <1>7 DEF LabelsAgree, TypeOK, CacheTypeOK
  <2>2. /\ refcount[h] \in Nat
        /\ refcount' = [refcount EXCEPT ![h] = refcount[h] - 1]
        /\ byId' = IF refcount[h] <= 1 THEN [byId EXCEPT ![i] = NoHash] ELSE byId
    BY <1>7, <2>1 DEF Release, TypeOK, CacheTypeOK
  <2>3. /\ refcount'[h] = refcount[h] - 1
        /\ \A g \in Hashes : g # h => refcount'[g] = refcount[g]
    BY <2>1, <2>2 DEF TypeOK, CacheTypeOK
  <2>4. \A g \in Hashes : g # h => ContentId[g] # i
    BY <2>1 DEF LabelsDistinct
  <2>5. RefcountExact'
    <3> SUFFICES ASSUME NEW g \in Hashes
                 PROVE  refcount'[g] = Cardinality(Holders(ContentId[g])')
                                       + Cardinality(Debtors(ContentId[g])')
      BY DEF RefcountExact
    <3>1. CASE g = h
      <4>1. refcount[h] = Cardinality(Holders(i)) + Cardinality(Debtors(i))
        BY <2>1 DEF RefcountExact
      <4> QED BY <3>1, <4>1, <1>1, <1>4, <1>5, <2>1, <2>3
    <3>2. CASE g # h
      BY <3>2, <1>1, <1>3, <2>3, <2>4 DEF RefcountExact
    <3> QED BY <3>1, <3>2
  <2>6. /\ byId'[i] = IF refcount[h] <= 1 THEN NoHash ELSE h
        /\ \A j \in Ids : j # i => byId'[j] = byId[j]
    BY <2>2 DEF TypeOK, CacheTypeOK
  <2>7. \A g \in Hashes : refcount'[g] > 0 => byId'[ContentId[g]] = g
    <3> SUFFICES ASSUME NEW g \in Hashes, refcount'[g] > 0
                 PROVE  byId'[ContentId[g]] = g
      OBVIOUS
    <3>1. CASE g = h
      BY <3>1, <2>1, <2>2, <2>3, <2>6
    <3>2. CASE g # h
      <4>1. ContentId[g] # i /\ ContentId[g] \in Ids /\ Cached(g)
        BY <3>2, <2>3, <2>4, ContentIdAssumption DEF Cached
      <4> QED BY <4>1, <2>6 DEF LabelsAgree
    <3> QED BY <3>1, <3>2
  <2>8. \A j \in Ids : byId'[j] # NoHash
                        => refcount'[byId'[j]] > 0 /\ ContentId[byId'[j]] = j
    <3> SUFFICES ASSUME NEW j \in Ids, byId'[j] # NoHash
                 PROVE  refcount'[byId'[j]] > 0 /\ ContentId[byId'[j]] = j
      OBVIOUS
    <3>1. CASE j = i
      BY <3>1, <2>1, <2>2, <2>3, <2>6
    <3>2. CASE j # i
      <4>1. byId'[j] = byId[j] /\ Cached(byId[j]) /\ ContentId[byId[j]] = j
        BY <3>2, <2>6 DEF LabelsAgree
      <4>2. byId[j] \in Hashes /\ byId[j] # h
        BY <3>2, <4>1, <2>1, <2>6 DEF TypeOK, CacheTypeOK
      <4> QED BY <4>1, <4>2, <2>3 DEF Cached
    <3> QED BY <3>1, <3>2
  <2> QED BY <2>5, <2>7, <2>8 DEF LabelsAgree, Cached
<1> QED BY <1>6, <1>7

\* Exactness and agreement of the labels are preserved by every step.
LEMMA RefStep ==
    ASSUME LabelsDistinct, RefInv, [Next]_vars
    PROVE  RefInv'
<1> USE DEF RefInv
<1>0. TypeOK' /\ TodoShape'
  BY TypeStep, TodoShapeStep
<1> SUFFICES RefcountExact' /\ LabelsAgree'
  BY <1>0
<1>1. ASSUME NEW s \in Stores, CreateSession(s) PROVE Quiet
  BY <1>1 DEF CreateSession, Quiet, storeVars, threadVars, Owed
<1>2. ASSUME NEW t \in Threads, NEW s \in Stores, GetStore(t, s) PROVE Quiet
  BY <1>2 DEF GetStore, GoTo, Quiet, storeVars, Owed, TypeOK
<1>3. ASSUME NEW t \in Threads, NEW s \in Stores, CloseSession(t, s)
      PROVE  RefcountExact' /\ LabelsAgree'
  <2>1. /\ UNCHANGED cacheVars
        /\ sharedIds' = [sharedIds EXCEPT ![s] = sharedIds[s] \ sharedIds[s]]
    BY <1>3 DEF CloseSession
  <2>2. Owed(t) = {}
    BY <1>3 DEF CloseSession, Owed, TodoShape
  <2>3. Owed(t)' = sharedIds[s] /\ \A u \in Threads \ {t} : Owed(u)' = Owed(u)
    BY <1>3 DEF CloseSession, GoTo, Owed, TypeOK
  <2> QED BY <2>1, <2>2, <2>3, HandOverKeeps
<1>4. ASSUME NEW t \in Threads, NEW h \in Hashes, LoadByHash(t, h) PROVE Quiet
  BY <1>4 DEF LoadByHash, GoTo, Quiet, Owed, TypeOK
<1>5. ASSUME NEW t \in Threads, NEW h \in Hashes, LoadPrivately(t, h) PROVE Quiet
  BY <1>5 DEF LoadPrivately, GoTo, Quiet, storeVars, Owed, TypeOK
<1>6. ASSUME NEW t \in Threads, NEW i \in AllIds, RemoveModel(t, i)
      PROVE  RefcountExact' /\ LabelsAgree'
  <2> DEFINE s == at[t]
  <2>1. CASE i \in sharedIds[s]
    <3>1. /\ UNCHANGED cacheVars /\ s \in Stores
          /\ sharedIds' = [sharedIds EXCEPT ![s] = sharedIds[s] \ {i}]
      BY <1>6 DEF RemoveModel, TypeOK
    <3>2. Owed(t) = {}
      BY <1>6 DEF RemoveModel, Owed, TodoShape
    <3>3. Owed(t)' = {i} /\ \A u \in Threads \ {t} : Owed(u)' = Owed(u)
      BY <1>6, <2>1 DEF RemoveModel, GoTo, Owed, TypeOK
    <3>4. {i} \in SUBSET sharedIds[s]
      BY <2>1
    <3> QED BY <3>1, <3>2, <3>3, <3>4, HandOverKeeps
  <2>2. CASE i \notin sharedIds[s]
    <3>1. UNCHANGED sharedIds
      BY <1>6, <2>2 DEF RemoveModel, TypeOK
    <3>2. Quiet
      BY <1>6, <2>2, <3>1 DEF RemoveModel, GoTo, Quiet, Owed, TypeOK
    <3> QED BY <3>2, QuietKeeps
  <2> QED BY <2>1, <2>2
<1>7. ASSUME NEW t \in Threads, AcquireShared(t)
      PROVE  RefcountExact' /\ LabelsAgree'
  <2> DEFINE h == want[t]
  <2>1. CASE Cached(h)
    <3>1. /\ h \in Hashes /\ UNCHANGED sharedIds
          /\ refcount' = [refcount EXCEPT ![h] = @ + 1]
          /\ byId' = IF Cached(h) THEN byId ELSE [byId EXCEPT ![ContentId[h]] = h]
      BY <1>7, <2>1 DEF AcquireShared, Acquire, storeVars, TypeOK
    <3>2. Owed(t) = {}
      BY <1>7 DEF AcquireShared, Owed, TodoShape
    <3>3. Owed(t)' = {ContentId[h]}
      BY <1>7, <2>1 DEF AcquireShared, GoTo, Owed, TypeOK
    <3>4. \A u \in Threads \ {t} : Owed(u)' = Owed(u)
      BY <1>7 DEF AcquireShared, GoTo, Owed, TypeOK
    <3> QED BY <3>1, <3>2, <3>3, <3>4, TakeKeeps
  <2>2. CASE ~Cached(h)
    <3>1. Quiet
      BY <1>7, <2>2 DEF AcquireShared, Acquire, GoTo, Quiet, cacheVars, storeVars,
                        Owed, TypeOK
    <3> QED BY <3>1, QuietKeeps
  <2> QED BY <2>1, <2>2
<1>8. ASSUME NEW t \in Threads, CheckCapacity(t) PROVE Quiet
  BY <1>8 DEF CheckCapacity, GoTo, Quiet, storeVars, Owed, TypeOK
<1>9. ASSUME NEW t \in Threads, Parse(t) PROVE Quiet
  BY <1>9 DEF Parse, GoTo, Quiet, storeVars, Owed, TypeOK
<1>10. ASSUME NEW t \in Threads, Insert(t) PROVE RefcountExact' /\ LabelsAgree'
  <2> DEFINE h == want[t]
  <2>1. /\ h \in Hashes /\ UNCHANGED sharedIds
        /\ refcount' = [refcount EXCEPT ![h] = @ + 1]
        /\ byId' = IF Cached(h) THEN byId ELSE [byId EXCEPT ![ContentId[h]] = h]
    BY <1>10 DEF Insert, InsertOrAcquire, storeVars, TypeOK
  <2>2. Owed(t) = {}
    BY <1>10 DEF Insert, Owed, TodoShape
  <2>3. /\ Owed(t)' = {ContentId[h]}
        /\ \A u \in Threads \ {t} : Owed(u)' = Owed(u)
    BY <1>10 DEF Insert, GoTo, Owed, TypeOK
  <2> QED BY <2>1, <2>2, <2>3, TakeKeeps
<1>11. ASSUME NEW t \in Threads, AdoptShared(t) PROVE RefcountExact' /\ LabelsAgree'
  <2> DEFINE s == at[t]
             i == ContentId[want[t]]
  <2>1. CASE i \in sharedIds[s] \/ Full(s)
    <3>1. /\ todo' = [todo EXCEPT ![t] = {i}] /\ UNCHANGED <<cacheVars, storeVars, want>>
          /\ pc[t] = "adopt" /\ pc' = [pc EXCEPT ![t] = "release"]
      BY <1>11, <2>1 DEF AdoptShared, GoTo
    <3>2. Quiet
      BY <3>1 DEF Quiet, storeVars, Owed, TypeOK
    <3> QED BY <3>2, QuietKeeps
  <2>2. CASE ~(i \in sharedIds[s] \/ Full(s))
    <3>1. /\ UNCHANGED <<cacheVars, todo, want>> /\ s \in Stores /\ i \in Ids \ sharedIds[s]
          /\ sharedIds' = [sharedIds EXCEPT ![s] = @ \cup {i}]
          /\ pc[t] = "adopt" /\ pc' = [pc EXCEPT ![t] = "idle"]
      BY <1>11, <2>2, ContentIdAssumption DEF AdoptShared, GoTo, TypeOK
    <3>2. Owed(t) = {i} /\ Owed(t)' = {}
      BY <3>1 DEF Owed, TypeOK, TodoShape
    <3>3. \A u \in Threads \ {t} : Owed(u)' = Owed(u)
      BY <3>1 DEF Owed, TypeOK
    <3> QED BY <3>1, <3>2, <3>3, TakeOverKeeps
  <2> QED BY <2>1, <2>2
<1>12. ASSUME NEW t \in Threads, KeepPrivate(t) PROVE Quiet
  BY <1>12 DEF KeepPrivate, GoTo, Quiet, Owed, TypeOK
<1>13. ASSUME NEW t \in Threads, NEW i \in Ids, ReleaseOne(t, i)
       PROVE  RefcountExact' /\ LabelsAgree'
  <2>1. /\ UNCHANGED <<sharedIds, want>> /\ Release(i) /\ i \in todo[t]
        /\ todo' = [todo EXCEPT ![t] = @ \ {i}]
        /\ pc[t] = "release" /\ pc' \in {pc, [pc EXCEPT ![t] = "idle"]}
    BY <1>13 DEF ReleaseOne, GoTo, storeVars
  <2>2. i \in Owed(t) /\ Owed(t)' = Owed(t) \ {i}
    BY <2>1 DEF Owed, TypeOK
  <2>3. \A u \in Threads \ {t} : Owed(u)' = Owed(u)
    BY <2>1 DEF Owed, TypeOK
  <2> QED BY <2>1, <2>2, <2>3, ReleaseKeeps
<1>14. ASSUME UNCHANGED vars PROVE Quiet
  BY <1>14 DEF vars, Quiet, storeVars, threadVars, Owed
<1> QED
  BY <1>1, <1>2, <1>3, <1>4, <1>5, <1>6, <1>7, <1>8, <1>9, <1>10, <1>11, <1>12,
     <1>13, <1>14, QuietKeeps DEF Next, Begin, Step

\* An empty cache is exact.
LEMMA RefInit == Init => RefInv
<1> SUFFICES ASSUME Init PROVE RefInv
  OBVIOUS
<1>1. TypeOK /\ TodoShape
  BY TypeInit DEF Init, TodoShape
<1>2. \A i : Holders(i) = {}
  BY DEF Init, Holders
<1>3. \A i : Debtors(i) = {}
  BY DEF Init, Debtors, Owed
<1>4. RefcountExact
  <2>1. Cardinality({}) = 0
    BY FS_EmptySet
  <2>2. \A h \in Hashes : refcount[h] = 0
    BY DEF Init, CacheInit
  <2> QED BY <1>2, <1>3, <2>1, <2>2 DEF RefcountExact
<1>5. LabelsAgree
  <2>1. /\ \A h \in Hashes : ~Cached(h)
        /\ \A i \in Ids : byId[i] = NoHash
    BY DEF Init, CacheInit, Cached
  <2> QED BY <2>1 DEF LabelsAgree
<1> QED BY <1>1, <1>4, <1>5 DEF RefInv

\* While no two contents share a label, the count of every cache entry is the
\* number of stores that expose its model plus the references in flight,
\* whatever the threads do.
THEOREM RefcountsAreExact == LabelsDistinct => (Spec => []RefcountExact)
<1> SUFFICES ASSUME LabelsDistinct PROVE Spec => []RefcountExact
  OBVIOUS
<1>1. RefInv /\ [Next]_vars => RefInv'
  BY RefStep
<1>2. RefInv => RefcountExact
  BY DEF RefInv
<1> QED BY RefInit, <1>1, <1>2, PTL DEF Spec

\* And the two dictionaries of the cache agree.
THEOREM LabelsAlwaysAgree == LabelsDistinct => (Spec => []LabelsAgree)
<1> SUFFICES ASSUME LabelsDistinct PROVE Spec => []LabelsAgree
  OBVIOUS
<1>1. RefInv /\ [Next]_vars => RefInv'
  BY RefStep
<1>2. RefInv => LabelsAgree
  BY DEF RefInv
<1> QED BY RefInit, <1>1, <1>2, PTL DEF Spec

-----------------------------------------------------------------------------
(* What a step does to the models of a store.  Every action changes the    *)
(* models of at most one store, in one of four ways.                       *)

Emptied(s) ==
    /\ models' = [models EXCEPT ![s] = [i \in AllIds |-> NoHash]]
    /\ sharedIds' = [sharedIds EXCEPT ![s] = {}]
    /\ index' = [index EXCEPT ![s] = [h \in Hashes |-> NoId]]
Shared(s, h) ==
    /\ ContentId[h] \notin sharedIds[s] /\ ~Full(s)
    /\ models' = [models EXCEPT ![s][ContentId[h]] = h]
    /\ index' = [index EXCEPT ![s][h] = ContentId[h]]
    /\ sharedIds' = [sharedIds EXCEPT ![s] = @ \cup {ContentId[h]}]
Kept(s, i, h) ==
    /\ ~Full(s)
    /\ models' = [models EXCEPT ![s][i] = h]
    /\ UNCHANGED <<sharedIds, index>>
Removed(s, i) ==
    /\ models' = [models EXCEPT ![s][i] = NoHash]
    /\ index' = [index EXCEPT ![s] = Unindexed(s, i)]
    /\ sharedIds' = [sharedIds EXCEPT ![s] = @ \ {i}]
Forgotten(s, h) ==
    /\ UNCHANGED <<models, sharedIds>>
    /\ index' = [index EXCEPT ![s][h] = NoId]

\* Which of them each action is.
LEMMA StoreSteps ==
    ASSUME TypeOK, [Next]_vars
    PROVE  \/ UNCHANGED storeVars
           \/ \E s \in Stores : Emptied(s)
           \/ \E s \in Stores, h \in Hashes : Shared(s, h) \/ Forgotten(s, h)
           \/ \E s \in Stores, i \in PrivateIds, h \in Hashes : Kept(s, i, h)
           \/ \E s \in Stores, i \in AllIds : Removed(s, i)
<1> USE DEF TypeOK
<1>1. ASSUME NEW s \in Stores, CreateSession(s) PROVE UNCHANGED storeVars
  BY <1>1 DEF CreateSession, storeVars
<1>2. ASSUME NEW t \in Threads, NEW s \in Stores, GetStore(t, s)
      PROVE  UNCHANGED storeVars
  BY <1>2 DEF GetStore, storeVars
<1>3. ASSUME NEW t \in Threads, NEW s \in Stores, CloseSession(t, s) PROVE Emptied(s)
  BY <1>3 DEF CloseSession, Emptied
<1>4. ASSUME NEW t \in Threads, NEW h \in Hashes, LoadByHash(t, h)
      PROVE  UNCHANGED storeVars \/ (at[t] \in Stores /\ Forgotten(at[t], h))
  BY <1>4 DEF LoadByHash, Forgotten, storeVars
<1>5. ASSUME NEW t \in Threads, NEW h \in Hashes, LoadPrivately(t, h)
      PROVE  UNCHANGED storeVars
  BY <1>5 DEF LoadPrivately, storeVars
<1>6. ASSUME NEW t \in Threads, NEW i \in AllIds, RemoveModel(t, i)
      PROVE  at[t] \in Stores /\ Removed(at[t], i)
  BY <1>6 DEF RemoveModel, Removed
<1>7. ASSUME NEW t \in Threads,
             AcquireShared(t) \/ CheckCapacity(t) \/ Parse(t) \/ Insert(t)
      PROVE  UNCHANGED storeVars
  BY <1>7 DEF AcquireShared, CheckCapacity, Parse, Insert, storeVars
<1>8. ASSUME NEW t \in Threads, AdoptShared(t)
      PROVE  \/ UNCHANGED storeVars
             \/ at[t] \in Stores /\ want[t] \in Hashes /\ Shared(at[t], want[t])
  BY <1>8 DEF AdoptShared, Shared, storeVars
<1>9. ASSUME NEW t \in Threads, KeepPrivate(t)
      PROVE  \/ UNCHANGED storeVars
             \/ /\ at[t] \in Stores /\ want[t] \in Hashes
                /\ \E i \in PrivateIds : Kept(at[t], i, want[t])
  BY <1>9 DEF KeepPrivate, Kept, storeVars
<1>10. ASSUME NEW t \in Threads, NEW i \in Ids, ReleaseOne(t, i)
       PROVE  UNCHANGED storeVars
  BY <1>10 DEF ReleaseOne, storeVars
<1>11. ASSUME UNCHANGED vars PROVE UNCHANGED storeVars
  BY <1>11 DEF vars, storeVars
<1> QED
  BY <1>1, <1>2, <1>3, <1>4, <1>5, <1>6, <1>7, <1>8, <1>9, <1>10, <1>11
     DEF Next, Begin, Step

\* How each of them changes the set of loaded ids of a store r.
LEMMA LoadedAfter ==
    ASSUME TypeOK, NEW s \in Stores, NEW r \in Stores
    PROVE  /\ UNCHANGED models => Loaded(r)' = Loaded(r)
           /\ Emptied(s) => Loaded(r)' = IF r = s THEN {} ELSE Loaded(r)
           /\ \A i \in AllIds, h \in Hashes :
                 models' = [models EXCEPT ![s][i] = h]
                 => Loaded(r)' = IF r = s THEN Loaded(r) \cup {i} ELSE Loaded(r)
           /\ \A i \in AllIds :
                 models' = [models EXCEPT ![s][i] = NoHash]
                 => Loaded(r)' = IF r = s THEN Loaded(r) \ {i} ELSE Loaded(r)
<1>1. UNCHANGED models => Loaded(r)' = Loaded(r)
  BY DEF Loaded
<1>2. Emptied(s) => Loaded(r)' = IF r = s THEN {} ELSE Loaded(r)
  BY DEF Loaded, Emptied, TypeOK
<1>3. ASSUME NEW i \in AllIds, NEW h \in Hashes, models' = [models EXCEPT ![s][i] = h]
      PROVE  Loaded(r)' = IF r = s THEN Loaded(r) \cup {i} ELSE Loaded(r)
  <2>1. \A j \in AllIds : models'[r][j] = IF r = s /\ j = i THEN h ELSE models[r][j]
    BY <1>3 DEF TypeOK
  <2>2. h # NoHash
    BY ContentIdAssumption
  <2> QED BY <2>1, <2>2 DEF Loaded
<1>4. ASSUME NEW i \in AllIds, models' = [models EXCEPT ![s][i] = NoHash]
      PROVE  Loaded(r)' = IF r = s THEN Loaded(r) \ {i} ELSE Loaded(r)
  <2>1. \A j \in AllIds :
           models'[r][j] = IF r = s /\ j = i THEN NoHash ELSE models[r][j]
    BY <1>4 DEF TypeOK
  <2> QED BY <2>1 DEF Loaded
<1> QED BY <1>1, <1>2, <1>3, <1>4

-----------------------------------------------------------------------------
(* The model cap.  Every path that stores a model looks at the cap in the  *)
(* critical section that stores it; what the check before the parse saw    *)
(* does not matter.                                                        *)

CapInv ==
    /\ TypeOK
    /\ \A s \in Stores : IsFiniteSet(Loaded(s))
    /\ CapacityRespected

\* One more model in a store that is not full, or any number fewer.
LEMMA CapStep ==
    ASSUME CapInv, [Next]_vars
    PROVE  CapInv'
<1> USE DEF CapInv
<1>1. TypeOK'
  BY TypeStep
<1>2. ASSUME NEW r \in Stores
      PROVE  IsFiniteSet(Loaded(r)') /\ Cardinality(Loaded(r)') <= MaxModels
  <2>1. /\ IsFiniteSet(Loaded(r)) /\ Cardinality(Loaded(r)) \in Nat
        /\ Cardinality(Loaded(r)) <= MaxModels /\ MaxModels \in Nat
    BY FS_CardinalityType, SharedModelsAssumption DEF CapacityRespected
  <2>2. ASSUME Loaded(r)' = Loaded(r)
        PROVE  IsFiniteSet(Loaded(r)') /\ Cardinality(Loaded(r)') <= MaxModels
    BY <2>1, <2>2
  <2>3. ASSUME NEW i, Loaded(r)' = Loaded(r) \cup {i}, ~Full(r)
        PROVE  IsFiniteSet(Loaded(r)') /\ Cardinality(Loaded(r)') <= MaxModels
    <3>1. Cardinality(Loaded(r)) < MaxModels
      BY <2>1, <2>3 DEF Full
    <3>2. /\ IsFiniteSet(Loaded(r) \cup {i})
          /\ \/ Cardinality(Loaded(r) \cup {i}) = Cardinality(Loaded(r))
             \/ Cardinality(Loaded(r) \cup {i}) = Cardinality(Loaded(r)) + 1
      BY <2>1, FS_AddElement
    <3>3. Cardinality(Loaded(r) \cup {i}) <= MaxModels
      BY <2>1, <3>1, <3>2
    <3> QED BY <2>3, <3>2, <3>3
  <2>4. ASSUME NEW i, Loaded(r)' = Loaded(r) \ {i}
        PROVE  IsFiniteSet(Loaded(r)') /\ Cardinality(Loaded(r)') <= MaxModels
    BY <2>1, <2>4, FS_RemoveElement
  <2>5. CASE UNCHANGED storeVars
    BY <2>2, <2>5, LoadedAfter DEF storeVars
  <2>6. ASSUME NEW s \in Stores, Emptied(s)
        PROVE  IsFiniteSet(Loaded(r)') /\ Cardinality(Loaded(r)') <= MaxModels
    <3>1. Loaded(r)' = {} \/ Loaded(r)' = Loaded(r)
      BY <2>6, LoadedAfter
    <3> QED BY <2>1, <2>2, <3>1, FS_EmptySet
  <2>7. ASSUME NEW s \in Stores, NEW h \in Hashes, Shared(s, h) \/ Forgotten(s, h)
        PROVE  IsFiniteSet(Loaded(r)') /\ Cardinality(Loaded(r)') <= MaxModels
    <3>1. CASE Forgotten(s, h)
      BY <2>2, <3>1, LoadedAfter DEF Forgotten
    <3>2. CASE Shared(s, h)
      <4>1. ContentId[h] \in AllIds
        BY ContentIdAssumption DEF AllIds
      <4>2. \/ Loaded(r)' = Loaded(r)
            \/ r = s /\ Loaded(r)' = Loaded(r) \cup {ContentId[h]}
        BY <3>2, <4>1, LoadedAfter DEF Shared
      <4> QED BY <2>2, <2>3, <3>2, <4>2 DEF Shared
    <3> QED BY <2>7, <3>1, <3>2
  <2>8. ASSUME NEW s \in Stores, NEW i \in PrivateIds, NEW h \in Hashes, Kept(s, i, h)
        PROVE  IsFiniteSet(Loaded(r)') /\ Cardinality(Loaded(r)') <= MaxModels
    <3>1. \/ Loaded(r)' = Loaded(r)
          \/ r = s /\ Loaded(r)' = Loaded(r) \cup {i}
      BY <2>8, LoadedAfter DEF Kept, AllIds
    <3> QED BY <2>2, <2>3, <2>8, <3>1 DEF Kept
  <2>9. ASSUME NEW s \in Stores, NEW i \in AllIds, Removed(s, i)
        PROVE  IsFiniteSet(Loaded(r)') /\ Cardinality(Loaded(r)') <= MaxModels
    <3>1. Loaded(r)' = Loaded(r) \/ Loaded(r)' = Loaded(r) \ {i}
      BY <2>9, LoadedAfter DEF Removed
    <3> QED BY <2>2, <2>4, <3>1
  <2> QED BY <2>5, <2>6, <2>7, <2>8, <2>9, StoreSteps
<1> QED BY <1>1, <1>2 DEF CapacityRespected

\* No session ever holds more models than its cap.
THEOREM CapacityIsRespected == Spec => []CapacityRespected
<1>1. Init => CapInv
  <2> SUFFICES ASSUME Init PROVE CapInv
    OBVIOUS
  <2>1. \A s \in Stores : Loaded(s) = {}
    BY DEF Init, Loaded
  <2> QED BY <2>1, TypeInit, FS_EmptySet, SharedModelsAssumption
          DEF CapInv, CapacityRespected
<1>2. CapInv /\ [Next]_vars => CapInv'
  BY CapStep
<1>3. CapInv => CapacityRespected
  BY DEF CapInv
<1> QED BY <1>1, <1>2, <1>3, PTL DEF Spec

-----------------------------------------------------------------------------
(* The dedup index.  It holds even where labels collide: a load that finds *)
(* its label taken is not indexed.                                         *)

IndexInv == TypeOK /\ IndexSound

\* Every step keeps every dedup index sound.
LEMMA IndexStep ==
    ASSUME IndexInv, [Next]_vars
    PROVE  IndexInv'
<1> USE DEF IndexInv
<1>1. TypeOK'
  BY TypeStep
<1>2. ASSUME NEW r \in Stores
      PROVE  /\ sharedIds'[r] \subseteq Loaded(r)'
             /\ \A h \in Hashes :
                   index'[r][h] # NoId => /\ index'[r][h] \in sharedIds'[r]
                                          /\ models'[r][index'[r][h]] = h
  <2> DEFINE Goal == /\ sharedIds'[r] \subseteq Loaded(r)'
                     /\ \A h \in Hashes :
                           index'[r][h] # NoId => /\ index'[r][h] \in sharedIds'[r]
                                                  /\ models'[r][index'[r][h]] = h
  <2>0. /\ sharedIds[r] \subseteq Loaded(r) /\ sharedIds[r] \subseteq Ids
        /\ \A h \in Hashes :
              index[r][h] # NoId => /\ index[r][h] \in sharedIds[r]
                                    /\ models[r][index[r][h]] = h
    BY DEF IndexSound, TypeOK
  <2>1. ASSUME models'[r] = models[r], sharedIds'[r] = sharedIds[r],
               index'[r] = index[r]
        PROVE  Goal
    BY <2>0, <2>1 DEF Loaded
  <2>2. CASE UNCHANGED storeVars
    BY <2>1, <2>2 DEF storeVars
  <2>3. ASSUME NEW s \in Stores, Emptied(s) PROVE Goal
    <3>1. CASE r = s
      <4>1. sharedIds'[r] = {} /\ \A h \in Hashes : index'[r][h] = NoId
        BY <2>3, <3>1 DEF Emptied, TypeOK
      <4> QED BY <4>1
    <3>2. CASE r # s
      BY <2>1, <2>3, <3>2 DEF Emptied, TypeOK
    <3> QED BY <3>1, <3>2
  <2>4. ASSUME NEW s \in Stores, NEW g \in Hashes, Shared(s, g) PROVE Goal
    <3> DEFINE i == ContentId[g]
    <3>1. CASE r # s
      BY <2>1, <2>4, <3>1 DEF Shared, TypeOK
    <3>2. CASE r = s
      <4>1. /\ i \in Ids /\ i \in AllIds /\ i \notin sharedIds[r]
            /\ sharedIds'[r] = sharedIds[r] \cup {i}
        BY <2>4, <3>2, ContentIdAssumption DEF Shared, TypeOK, AllIds
      <4>2. /\ models'[r][i] = g
            /\ \A j \in AllIds : j # i => models'[r][j] = models[r][j]
        BY <2>4, <3>2, <4>1 DEF Shared, TypeOK
      <4>3. /\ index'[r][g] = i
            /\ \A h \in Hashes : h # g => index'[r][h] = index[r][h]
        BY <2>4, <3>2 DEF Shared, TypeOK
      <4>4. Loaded(r)' = Loaded(r) \cup {i}
        BY <2>4, <3>2, <4>1, LoadedAfter DEF Shared
      <4>5. sharedIds'[r] \subseteq Loaded(r)'
        BY <2>0, <4>1, <4>4
      <4>6. ASSUME NEW h \in Hashes, h # g, index[r][h] # NoId
            PROVE  index[r][h] \in sharedIds'[r] /\ models'[r][index[r][h]] = h
        <5>1. index[r][h] \in sharedIds[r] /\ models[r][index[r][h]] = h
          BY <2>0, <4>6
        <5>2. index[r][h] # i /\ index[r][h] \in AllIds
          BY <2>0, <4>1, <5>1 DEF AllIds
        <5> QED BY <4>1, <4>2, <5>1, <5>2
      <4> QED BY <4>1, <4>2, <4>3, <4>5, <4>6
    <3> QED BY <3>1, <3>2
  <2>5. ASSUME NEW s \in Stores, NEW g \in Hashes, Forgotten(s, g) PROVE Goal
    <3>1. models'[r] = models[r] /\ sharedIds'[r] = sharedIds[r] /\ Loaded(r)' = Loaded(r)
      BY <2>5 DEF Forgotten, Loaded
    <3>2. \A h \in Hashes : index'[r][h] = index[r][h] \/ index'[r][h] = NoId
      BY <2>5 DEF Forgotten, TypeOK
    <3> QED BY <2>0, <3>1, <3>2
  <2>6. ASSUME NEW s \in Stores, NEW i \in PrivateIds, NEW g \in Hashes, Kept(s, i, g)
        PROVE  Goal
    <3>1. CASE r # s
      BY <2>1, <2>6, <3>1 DEF Kept, TypeOK
    <3>2. CASE r = s
      <4>1. i \in AllIds /\ i \notin Ids
        BY SharedModelsAssumption DEF AllIds
      <4>2. \A j \in AllIds : j # i => models'[r][j] = models[r][j]
        BY <2>6, <3>2, <4>1 DEF Kept, TypeOK
      <4>3. sharedIds'[r] = sharedIds[r] /\ index'[r] = index[r]
        BY <2>6 DEF Kept
      <4>4. Loaded(r)' = Loaded(r) \cup {i}
        BY <2>6, <3>2, <4>1, LoadedAfter DEF Kept
      <4>5. \A j \in sharedIds[r] : j \in AllIds /\ j # i
        BY <2>0, <4>1 DEF AllIds
      <4> QED BY <2>0, <4>2, <4>3, <4>4, <4>5
    <3> QED BY <3>1, <3>2
  <2>7. ASSUME NEW s \in Stores, NEW i \in AllIds, Removed(s, i) PROVE Goal
    <3>1. CASE r # s
      BY <2>1, <2>7, <3>1 DEF Removed, TypeOK
    <3>2. CASE r = s
      <4>1. \A j \in AllIds : j # i => models'[r][j] = models[r][j]
        BY <2>7, <3>2 DEF Removed, TypeOK
      <4>2. sharedIds'[r] = sharedIds[r] \ {i} /\ Loaded(r)' = Loaded(r) \ {i}
        BY <2>7, <3>2, LoadedAfter DEF Removed, TypeOK
      <4>3. index'[r] = Unindexed(r, i)
        BY <2>7, <3>2 DEF Removed, TypeOK
      <4>4. ASSUME NEW h \in Hashes, index'[r][h] # NoId
            PROVE  index'[r][h] = index[r][h] /\ index[r][h] # i
        BY <4>3, <4>4 DEF Unindexed
      <4>5. \A j \in sharedIds[r] : j \in AllIds
        BY <2>0 DEF AllIds
      <4>6. sharedIds'[r] \subseteq Loaded(r)'
        BY <2>0, <4>2
      <4> QED BY <2>0, <4>1, <4>2, <4>4, <4>5, <4>6
    <3> QED BY <3>1, <3>2
  <2> QED BY <2>2, <2>3, <2>4, <2>5, <2>6, <2>7, StoreSteps
<1> QED BY <1>1, <1>2 DEF IndexSound

\* A load answered from the dedup index gets a loaded, shared model made from
\* the bytes it asked for.
THEOREM IndexIsSound == Spec => []IndexSound
<1>1. Init => IndexInv
  BY TypeInit DEF Init, IndexInv, IndexSound
<1>2. IndexInv /\ [Next]_vars => IndexInv'
  BY IndexStep
<1>3. IndexInv => IndexSound
  BY DEF IndexInv
<1> QED BY <1>1, <1>2, <1>3, PTL DEF Spec

=============================================================================
