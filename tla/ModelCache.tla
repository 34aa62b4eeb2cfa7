----------------------------- MODULE ModelCache -----------------------------
(***************************************************************************)
(* service/model_cache.py: the process-wide, content-addressed cache of    *)
(* compiled models.  Each method runs under the cache's own lock, so each  *)
(* is one action on the two dictionaries.  The compiled model itself is    *)
(* immutable and abstracted to its content hash; what is kept is the       *)
(* reference count, and the id -> hash dictionary that release goes by.    *)
(***************************************************************************)
EXTENDS Naturals, FiniteSets

CONSTANTS
    Hashes,     \* content hashes of OBML documents
    Ids,        \* content-derived model ids
    ContentId,  \* ModelStore._content_id: the 16-digit prefix of a hash
    NoHash      \* "no such key" of the id dictionary

ASSUME ContentIdAssumption ==
    /\ IsFiniteSet(Hashes)
    /\ ContentId \in [Hashes -> Ids]
    /\ NoHash \notin Hashes

\* No two contents share a label.  Not assumed: the label is 16 of the hash's
\* 64 digits.  The contents of MCSharedModels have distinct ones; the theorems
\* that need it have it as a hypothesis.
LabelsDistinct == \A g, h \in Hashes : ContentId[g] = ContentId[h] => g = h

VARIABLES
    refcount,   \* _by_hash: the entry's reference count, 0 when there is none
    byId        \* _by_id

cacheVars == <<refcount, byId>>

CacheTypeOK ==
    /\ refcount \in [Hashes -> Nat]
    /\ byId \in [Ids -> Hashes \cup {NoHash}]

CacheInit ==
    /\ refcount = [h \in Hashes |-> 0]
    /\ byId = [i \in Ids |-> NoHash]

Cached(h) == refcount[h] > 0

\* acquire: a hit takes one reference; a miss changes nothing.
Acquire(h) ==
    /\ refcount' = IF Cached(h) THEN [refcount EXCEPT ![h] = @ + 1] ELSE refcount
    /\ UNCHANGED byId

\* Mutant: the loser of the race takes the entry without a reference.
InsertOrAdoptUncounted(h) ==
    /\ refcount' = IF Cached(h) THEN refcount ELSE [refcount EXCEPT ![h] = 1]
    /\ byId' = IF Cached(h) THEN byId ELSE [byId EXCEPT ![ContentId[h]] = h]

\* insert_or_acquire: the loser of a race adopts the winner's entry.
InsertOrAcquire(h) ==
    /\ refcount' = [refcount EXCEPT ![h] = @ + 1]
    /\ byId' = IF Cached(h) THEN byId ELSE [byId EXCEPT ![ContentId[h]] = h]

\* Mutant: the entry is evicted, its label stays.
ReleaseKeepsLabel(i) ==
    LET h == byId[i] IN
    /\ refcount' = IF h # NoHash /\ Cached(h) THEN [refcount EXCEPT ![h] = @ - 1] ELSE refcount
    /\ UNCHANGED byId

\* release: by id, evicting the entry at zero; nothing for an unknown id.
Release(i) ==
    LET h == byId[i] IN
    IF h = NoHash
    THEN UNCHANGED cacheVars
    ELSE /\ refcount' = IF Cached(h) THEN [refcount EXCEPT ![h] = @ - 1] ELSE refcount
         /\ byId' = IF refcount[h] <= 1 THEN [byId EXCEPT ![i] = NoHash] ELSE byId
=============================================================================
