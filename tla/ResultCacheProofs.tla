-------------------------- MODULE ResultCacheProofs --------------------------
(***************************************************************************)
(* Theorems about ResultCache, for any number of queries, keys and tables. *)
(*                                                                         *)
(* Types hold whatever loops the queries run on.  That a hit is the        *)
(* caller's own, that no file is left behind, and what an invalidation     *)
(* promises of hits, are proved for queries that share one event loop.     *)
(***************************************************************************)
EXTENDS ResultCache, TLAPS

\* A query that has begun has a key, one past its lookup has a path, and one
\* with a file to unlink is doing that.
KeysKnown ==
    \A q \in Queries :
        /\ pc[q] # "idle" => want[q] \in Keys
        /\ pc[q] \in {"evict", "read", "gone", "hit"} => path[q] \in Keys
        /\ doomed[q] # {} => pc[q] = "unlink" /\ doomed[q] = {path[q]}

GeneralInv == TypeOK /\ KeysKnown

USE DEF Processes, Steps

\* Versions stay an opaque set: this is all the type proofs need of it.
LEMMA NothingSeen == Nothing \in Seen
BY DEF Nothing, Seen

LEMMA CurrentSeen ==
    ASSUME version \in Seen, NEW k \in Keys
    PROVE  Current(k) \in Seen
BY DEF Current, Seen

LEMMA RefreshSeen ==
    ASSUME NEW old \in Seen, NEW t \in Tables
    PROVE  [old EXCEPT ![t] = @ + 1] \in Seen
BY DEF Seen

LEMMA AnnounceSeen ==
    ASSUME NEW old \in Seen, NEW new \in Seen, NEW t \in Tables
    PROVE  [old EXCEPT ![t] = new[t]] \in Seen
BY DEF Seen

LEMMA UnreadPayload == Unread \in Payloads
BY NothingSeen DEF Unread, Payloads

LEMMA PayloadSeen ==
    ASSUME NEW payload \in Payloads
    PROVE  payload.rows \in Seen /\ payload.since \in Seen
BY DEF Payloads

LEMMA TaggedPayload ==
    ASSUME NEW read \in Seen, NEW seen \in Seen
    PROVE  [rows |-> read, since |-> seen] \in Payloads
BY DEF Payloads

LEMMA GeneralInit == Init => GeneralInv
<1> SUFFICES ASSUME Init PROVE GeneralInv
  OBVIOUS
<1>1. TypeOK
  BY ResultCacheAssumption, NothingSeen, UnreadPayload DEF Init, TypeOK
<1>2. KeysKnown
  BY DEF Init, KeysKnown
<1> QED
  BY <1>1, <1>2 DEF GeneralInv

\* Deleting rows and dooming their files.
LEMMA DeleteKeepsGeneral ==
    ASSUME GeneralInv, NEW K \in SUBSET Keys, DeleteRows(Maintainer, K),
           UNCHANGED <<worldVars, queryVars>>
    PROVE  GeneralInv'
<1>1. TypeOK'
  BY ResultCacheAssumption, NothingSeen, UnreadPayload
  DEF GeneralInv, TypeOK, DeleteRows, worldVars, queryVars
<1>2. KeysKnown'
  BY ResultCacheAssumption
  DEF GeneralInv, TypeOK, KeysKnown, DeleteRows, queryVars
<1> QED
  BY <1>1, <1>2 DEF GeneralInv

LEMMA QueryStepKeepsGeneral ==
    ASSUME GeneralInv, NEW q \in Queries, QueryStep(q)
    PROVE  GeneralInv'
<1> USE DEF GeneralInv, GoTo, Return, cacheVars, worldVars
<1>1. CASE Select(q)
  BY <1>1, ResultCacheAssumption, NothingSeen, UnreadPayload
  DEF Select, TypeOK, KeysKnown
<1>2. CASE Fetch(q)
  BY <1>2, ResultCacheAssumption, NothingSeen, UnreadPayload
  DEF Fetch, TypeOK, KeysKnown
<1>3. CASE Read(q)
  <2>1. TypeOK'
    BY <1>3, ResultCacheAssumption, NothingSeen, UnreadPayload DEF Read, TypeOK, KeysKnown
  <2>2. KeysKnown'
    BY <1>3 DEF Read, TypeOK, KeysKnown
  <2> QED
    BY <2>1, <2>2
<1>4. CASE Hit(q)
  BY <1>4, ResultCacheAssumption, NothingSeen, UnreadPayload
  DEF Hit, TypeOK, KeysKnown
<1>5. CASE Evict(q)
  <2>1. TypeOK'
    BY <1>5, ResultCacheAssumption, NothingSeen DEF Evict, TypeOK, KeysKnown
  <2>2. KeysKnown'
    BY <1>5 DEF Evict, TypeOK, KeysKnown
  <2> QED
    BY <2>1, <2>2
<1>6. CASE Execute(q)
  <2>1. TypeOK'
    <3>1. want[q] \in Keys
      BY <1>6 DEF Execute, KeysKnown
    <3>2. [rows |-> Current(want[q]), since |-> Nothing] \in Payloads
      BY <3>1, CurrentSeen, NothingSeen, TaggedPayload DEF TypeOK
    <3> QED
      BY <1>6, <3>2, ResultCacheAssumption, NothingSeen, UnreadPayload DEF Execute, TypeOK
  <2>2. KeysKnown'
    BY <1>6 DEF Execute, TypeOK, KeysKnown
  <2> QED
    BY <2>1, <2>2
<1>7. CASE Write(q)
  <2>1. TypeOK'
    <3>1. [rows |-> result[q].rows, since |-> beat] \in Payloads
      BY PayloadSeen, TaggedPayload DEF TypeOK
    <3> QED
      BY <1>7, <3>1, ResultCacheAssumption, NothingSeen, UnreadPayload
      DEF Write, TypeOK, KeysKnown
  <2>2. KeysKnown'
    BY <1>7 DEF Write, TypeOK, KeysKnown
  <2> QED
    BY <2>1, <2>2
<1>8. CASE Commit(q)
  <2>1. TypeOK'
    <3>1. rows' \in [Keys -> {"none", "live", "expired"}]
      BY <1>8 DEF Commit, TypeOK
    <3>2. /\ pc' \in [Queries -> Steps] /\ result' \in [Queries -> Payloads]
          /\ asked' \in [Queries -> Seen]
      BY <1>8, NothingSeen, UnreadPayload DEF Commit, TypeOK
    <3>3. /\ want' \in [Queries -> Keys \cup {NoKey}]
          /\ path' \in [Queries -> Keys \cup {NoKey}]
      BY <1>8 DEF Commit, TypeOK
    <3> QED
      BY <1>8, <3>1, <3>2, <3>3 DEF Commit, TypeOK
  <2>2. KeysKnown'
    BY <1>8 DEF Commit, TypeOK, KeysKnown
  <2> QED
    BY <2>1, <2>2
<1>9. CASE Undo(q)
  <2>1. TypeOK'
    BY <1>9, ResultCacheAssumption, NothingSeen, UnreadPayload DEF Undo, TypeOK, KeysKnown
  <2>2. KeysKnown'
    BY <1>9 DEF Undo, TypeOK, KeysKnown
  <2> QED
    BY <2>1, <2>2
<1> QED
  BY <1>1, <1>2, <1>3, <1>4, <1>5, <1>6, <1>7, <1>8, <1>9 DEF QueryStep

LEMMA HeartbeatKeepsGeneral ==
    ASSUME GeneralInv, NEW t \in Tables, Heartbeat(t)
    PROVE  GeneralInv'
<1>1. TypeOK'
  <2>0. [beat EXCEPT ![t] = version[t]] \in Seen
    BY AnnounceSeen DEF GeneralInv, TypeOK
  <2>1. beat' \in Seen
    BY <2>0 DEF Heartbeat, GeneralInv, TypeOK
  <2> QED
    BY <2>1, ResultCacheAssumption, NothingSeen, UnreadPayload
    DEF GeneralInv, TypeOK, Heartbeat, DeleteRows, Present, queryVars
<1>2. KeysKnown'
  BY ResultCacheAssumption
  DEF GeneralInv, TypeOK, KeysKnown, Heartbeat, DeleteRows, queryVars
<1> QED
  BY <1>1, <1>2 DEF GeneralInv

LEMMA GeneralNext == GeneralInv /\ [Next]_vars => GeneralInv'
<1> SUFFICES ASSUME GeneralInv, [Next]_vars PROVE GeneralInv'
  OBVIOUS
<1>1. CASE \E q \in Queries : QueryStep(q)
  BY <1>1, QueryStepKeepsGeneral
<1>2. ASSUME NEW q \in Queries, NEW k \in Keys, Ask(q, k) PROVE GeneralInv'
  BY <1>2, ResultCacheAssumption, NothingSeen
  DEF GeneralInv, Ask, GoTo, TypeOK, KeysKnown, worldVars
<1>3. ASSUME NEW p \in Processes, NEW k \in Keys, Unlink(p, k) PROVE GeneralInv'
  <2>1. TypeOK'
    BY <1>3, ResultCacheAssumption, NothingSeen DEF GeneralInv, Unlink, TypeOK, worldVars
  <2>2. KeysKnown'
    BY <1>3 DEF GeneralInv, Unlink, TypeOK, KeysKnown
  <2> QED
    BY <2>1, <2>2 DEF GeneralInv
<1>4. ASSUME NEW k \in Keys, Expire(k) PROVE GeneralInv'
  BY <1>4 DEF GeneralInv, Expire, TypeOK, KeysKnown, worldVars, queryVars
<1>5. ASSUME NEW t \in Tables, Refresh(t) PROVE GeneralInv'
  <2>1. version' \in Seen
    BY <1>5, RefreshSeen DEF GeneralInv, Refresh, TypeOK
  <2> QED
    BY <1>5, <2>1 DEF GeneralInv, Refresh, TypeOK, KeysKnown,
                      cacheVars, queryVars
<1>6. ASSUME NEW t \in Tables, Heartbeat(t) PROVE GeneralInv'
  BY <1>6, HeartbeatKeepsGeneral
<1>7. CASE SweepTtl
  BY <1>7, DeleteKeepsGeneral DEF SweepTtl
<1>8. CASE DropSome
  BY <1>8, DeleteKeepsGeneral DEF DropSome, Present
<1>9. CASE UNCHANGED vars
  BY <1>9 DEF vars, cacheVars, worldVars, queryVars, GeneralInv, TypeOK,
              KeysKnown
<1> QED
  BY <1>1, <1>2, <1>3, <1>4, <1>5, <1>6, <1>7, <1>8, <1>9 DEF Next

(***************************************************************************)
(* Whatever loops the queries run on.                                      *)
(***************************************************************************)

\* Every reachable state has its declared types, whatever the loops.
THEOREM TypeCorrect == Spec => []TypeOK
<1>1. GeneralInv => TypeOK
  BY DEF GeneralInv
<1> QED
  BY <1>1, GeneralInit, GeneralNext, PTL DEF Spec

-----------------------------------------------------------------------------
(* Queries that share one event loop                                       *)

\* One coroutine is between two waits, and no files are left to unlink then.
LoopHeld ==
    \A q \in Queries : Holding(q) =>
        doomed[Maintainer] = {} /\ \A r \in Queries : Holding(r) => r = q

\* The pending row is the lookup's own, and so is the path it has found.
OwnRow ==
    \A q \in Queries :
        /\ pc[q] = "fetch" => cursor \in {want[q], NoKey}
        /\ pc[q] \in {"evict", "read", "gone", "hit"} => path[q] = want[q]

LoopInv == GeneralInv /\ LoopHeld /\ OwnRow /\ NoOrphanFiles

LEMMA LoopInit == Init => LoopInv
<1> SUFFICES ASSUME Init PROVE LoopInv
  OBVIOUS
<1>1. LoopHeld /\ OwnRow /\ NoOrphanFiles
  BY DEF Init, LoopHeld, Holding, OwnRow, NoOrphanFiles
<1> QED
  BY <1>1, GeneralInit DEF LoopInv

\* A query moves on: only its own place changes, and it takes the loop only
\* when it may run.
LEMMA MoveKeepsLoop ==
    ASSUME GeneralInv, LoopHeld, OnLoop = Queries, NEW q \in Queries,
           NEW step \in Steps, GoTo(q, step),
           doomed'[Maintainer] = doomed[Maintainer],
           \/ MayRun(q)
           \/ step \in {"idle", "gone", "hit", "execute", "write"}
    PROVE  LoopHeld'
BY DEF GeneralInv, TypeOK, LoopHeld, GoTo, MayRun, LoopFree, Holding

\* While a query holds the loop, no other is inside its lookup.
LEMMA AloneInLookup ==
    ASSUME LoopHeld, OnLoop = Queries, NEW q \in Queries, MayRun(q),
           NEW r \in Queries, r # q
    PROVE  pc[r] # "fetch"
BY DEF LoopHeld, MayRun, LoopFree, Holding

LEMMA QueryStepKeepsLoop ==
    ASSUME LoopInv, OnLoop = Queries, NEW q \in Queries, QueryStep(q)
    PROVE  LoopInv'
<1> USE DEF LoopInv
<1>1. GeneralInv'
  BY QueryStepKeepsGeneral
<1>2. CASE Select(q)
  <2>1. LoopHeld'
    BY <1>2, MoveKeepsLoop DEF Select
  <2>2. OwnRow'
    BY <1>2, AloneInLookup DEF Select, GoTo, OwnRow, GeneralInv, TypeOK
  <2>3. NoOrphanFiles'
    BY <1>2 DEF Select, GoTo, NoOrphanFiles, GeneralInv, TypeOK
  <2> QED
    BY <1>1, <2>1, <2>2, <2>3
<1>3. CASE Fetch(q)
  <2>1. LoopHeld'
    BY <1>3, MoveKeepsLoop DEF Fetch
  <2>2. OwnRow'
    BY <1>3, AloneInLookup DEF Fetch, GoTo, OwnRow, GeneralInv, TypeOK
  <2>3. NoOrphanFiles'
    BY <1>3 DEF Fetch, GoTo, NoOrphanFiles, GeneralInv, TypeOK
  <2> QED
    BY <1>1, <2>1, <2>2, <2>3
<1>4. CASE Read(q)
  <2>1. LoopHeld'
    BY <1>4, MoveKeepsLoop DEF Read
  <2>2. OwnRow'
    BY <1>4 DEF Read, GoTo, OwnRow, GeneralInv, TypeOK, cacheVars
  <2>3. NoOrphanFiles'
    BY <1>4 DEF Read, GoTo, NoOrphanFiles, GeneralInv, TypeOK, cacheVars
  <2> QED
    BY <1>1, <2>1, <2>2, <2>3
<1>5. CASE Hit(q)
  <2>1. LoopHeld'
    BY <1>5, MoveKeepsLoop DEF Hit, Return
  <2>2. OwnRow'
    BY <1>5, AloneInLookup DEF Hit, Return, GoTo, OwnRow, GeneralInv, TypeOK
  <2>3. NoOrphanFiles'
    BY <1>5 DEF Hit, Return, GoTo, NoOrphanFiles, GeneralInv, TypeOK
  <2> QED
    BY <1>1, <2>1, <2>2, <2>3
<1>6. CASE Evict(q)
  <2>1. doomed'[Maintainer] = doomed[Maintainer]
    BY <1>6, ResultCacheAssumption DEF Evict, GeneralInv, TypeOK
  <2>2. LoopHeld'
    BY <1>6, <2>1, MoveKeepsLoop DEF Evict
  <2>3. OwnRow'
    BY <1>6, AloneInLookup DEF Evict, GoTo, OwnRow, GeneralInv, TypeOK
  <2>4. NoOrphanFiles'
    BY <1>6 DEF Evict, GoTo, NoOrphanFiles, OwnRow, GeneralInv, TypeOK, KeysKnown
  <2> QED
    BY <1>1, <2>2, <2>3, <2>4
<1>7. CASE Execute(q)
  <2>1. LoopHeld'
    BY <1>7, MoveKeepsLoop DEF Execute, Return
  <2>2. OwnRow'
    BY <1>7 DEF Execute, Return, GoTo, OwnRow, GeneralInv, TypeOK, cacheVars
  <2>3. NoOrphanFiles'
    BY <1>7 DEF Execute, Return, GoTo, NoOrphanFiles, GeneralInv, TypeOK, cacheVars
  <2> QED
    BY <1>1, <2>1, <2>2, <2>3
<1>8. CASE Write(q)
  <2>1. LoopHeld'
    BY <1>8, MoveKeepsLoop DEF Write, Return
  <2>2. OwnRow'
    BY <1>8 DEF Write, Return, GoTo, OwnRow, GeneralInv, TypeOK
  <2>3. NoOrphanFiles'
    BY <1>8 DEF Write, Return, GoTo, NoOrphanFiles, GeneralInv, TypeOK, KeysKnown
  <2> QED
    BY <1>1, <2>1, <2>2, <2>3
<1>9. CASE Commit(q)
  <2>1. LoopHeld'
    BY <1>9, MoveKeepsLoop DEF Commit, Return
  <2>2. OwnRow'
    BY <1>9, AloneInLookup DEF Commit, Return, GoTo, OwnRow, GeneralInv, TypeOK
  <2>3. NoOrphanFiles'
    BY <1>9 DEF Commit, Return, GoTo, NoOrphanFiles, GeneralInv, TypeOK, KeysKnown
  <2> QED
    BY <1>1, <2>1, <2>2, <2>3
<1>10. CASE Undo(q)
  <2>1. LoopHeld'
    BY <1>10, MoveKeepsLoop DEF Undo, Return
  <2>2. OwnRow'
    BY <1>10 DEF Undo, Return, GoTo, OwnRow, GeneralInv, TypeOK
  <2>3. NoOrphanFiles'
    BY <1>10 DEF Undo, Return, GoTo, NoOrphanFiles, GeneralInv, TypeOK, KeysKnown
  <2> QED
    BY <1>1, <2>1, <2>2, <2>3
<1> QED
  BY <1>2, <1>3, <1>4, <1>5, <1>6, <1>7, <1>8, <1>9, <1>10 DEF QueryStep

\* A heartbeat, a sweep or a clear begins when no coroutine holds the loop.
LEMMA MaintainerKeepsLoop ==
    ASSUME LoopInv, OnLoop = Queries, LoopFree,
           NEW K \in SUBSET Keys, DeleteRows(Maintainer, K), UNCHANGED queryVars,
           GeneralInv'
    PROVE  LoopInv'
<1>1. \A q \in Queries : ~Holding(q)
  BY DEF LoopFree
<1>2. LoopHeld'
  BY <1>1 DEF LoopHeld, Holding, queryVars
<1>3. OwnRow'
  BY DEF LoopInv, OwnRow, DeleteRows, queryVars
<1>4. NoOrphanFiles'
  BY ResultCacheAssumption
  DEF LoopInv, LoopFree, NoOrphanFiles, DeleteRows, queryVars, GeneralInv, TypeOK
<1> QED
  BY <1>2, <1>3, <1>4 DEF LoopInv

LEMMA UnlinkKeepsLoop ==
    ASSUME LoopInv, OnLoop = Queries, NEW p \in Processes, NEW k \in Keys,
           Unlink(p, k)
    PROVE  LoopInv'
<1> USE DEF LoopInv
<1>1. GeneralInv'
  BY GeneralNext DEF Next
<1>2. LoopHeld'
  BY DEF Unlink, LoopHeld, Holding, GeneralInv, TypeOK
<1>3. OwnRow'
  BY DEF Unlink, OwnRow, GeneralInv, TypeOK
<1>4. NoOrphanFiles'
  <2> SUFFICES ASSUME NEW c \in Keys, files'[c] # NoFile, rows'[c] = "none"
               PROVE  \/ \E r \in Processes : c \in doomed'[r]
                      \/ \E q \in Queries : pc'[q] \in {"commit", "undo"} /\ want'[q] = c
    BY DEF NoOrphanFiles
  <2>1. c # k /\ files[c] # NoFile /\ rows[c] = "none"
    BY DEF Unlink, GeneralInv, TypeOK
  <2>2. CASE \E r \in Processes : c \in doomed[r]
    BY <2>1, <2>2 DEF Unlink, GeneralInv, TypeOK
  <2>3. ASSUME NEW q \in Queries, pc[q] \in {"commit", "undo"}, want[q] = c
        PROVE  pc'[q] = pc[q] /\ want'[q] = c
    BY <2>3 DEF Unlink, GeneralInv, TypeOK, KeysKnown
  <2> QED
    BY <2>1, <2>2, <2>3 DEF NoOrphanFiles
<1> QED
  BY <1>1, <1>2, <1>3, <1>4

LEMMA LoopNext == OnLoop = Queries /\ LoopInv /\ [Next]_vars => LoopInv'
<1> SUFFICES ASSUME OnLoop = Queries, LoopInv, [Next]_vars PROVE LoopInv'
  OBVIOUS
<1>0. GeneralInv'
  BY GeneralNext DEF LoopInv
<1>1. CASE \E q \in Queries : QueryStep(q)
  BY <1>1, QueryStepKeepsLoop
<1>2. ASSUME NEW q \in Queries, NEW k \in Keys, Ask(q, k) PROVE LoopInv'
  <2>1. LoopHeld'
    BY <1>2, MoveKeepsLoop DEF Ask, LoopInv
  <2>2. OwnRow'
    BY <1>2, AloneInLookup DEF Ask, GoTo, LoopInv, OwnRow, GeneralInv, TypeOK
  <2>3. NoOrphanFiles'
    BY <1>2 DEF Ask, GoTo, LoopInv, NoOrphanFiles, GeneralInv, TypeOK
  <2> QED
    BY <1>0, <2>1, <2>2, <2>3 DEF LoopInv
<1>3. CASE \E p \in Processes, k \in Keys : Unlink(p, k)
  BY <1>3, UnlinkKeepsLoop
<1>4. ASSUME NEW k \in Keys, Expire(k) PROVE LoopInv'
  BY <1>0, <1>4 DEF Expire, LoopInv, LoopHeld, Holding, OwnRow, NoOrphanFiles,
                    GeneralInv, TypeOK, queryVars
<1>5. ASSUME NEW t \in Tables, Refresh(t) PROVE LoopInv'
  BY <1>0, <1>5 DEF Refresh, LoopInv, LoopHeld, Holding, OwnRow, NoOrphanFiles,
                    cacheVars, queryVars
<1>6. ASSUME NEW t \in Tables, Heartbeat(t) PROVE LoopInv'
  <2> DEFINE Doomed == {k \in Present : t \in Reads[k]}
  <2>1. CASE DeleteRows(Maintainer, Doomed)
    <3>1. Doomed \in SUBSET Keys
      BY DEF Present
    <3> HIDE DEF Doomed
    <3> QED
      BY <1>0, <1>6, <2>1, <3>1, MaintainerKeepsLoop DEF Heartbeat
  <2>2. CASE cursor' = NoKey /\ UNCHANGED <<rows, files, beat, doomed>>
    BY <1>0, <1>6, <2>2 DEF Heartbeat, LoopInv, LoopHeld, Holding, OwnRow,
                            NoOrphanFiles, queryVars
  <2> QED
    BY <1>6, <2>1, <2>2 DEF Heartbeat
<1>7. CASE SweepTtl
  BY <1>0, <1>7, MaintainerKeepsLoop DEF SweepTtl
<1>8. CASE DropSome
  BY <1>0, <1>8, MaintainerKeepsLoop DEF DropSome, Present
<1>9. CASE UNCHANGED vars
  BY <1>0, <1>9 DEF vars, cacheVars, queryVars, LoopInv, LoopHeld, Holding,
                    OwnRow, NoOrphanFiles
<1> QED
  BY <1>1, <1>2, <1>3, <1>4, <1>5, <1>6, <1>7, <1>8, <1>9 DEF Next

\* On one event loop a hit is the payload of the key that was asked for.
THEOREM OwnHits ==
    ASSUME OnLoop = Queries
    PROVE  Spec => []HitIsOwnResult
<1>1. LoopInv => HitIsOwnResult
  BY DEF LoopInv, OwnRow, HitIsOwnResult
<1>2. LoopInv /\ [Next]_vars => LoopInv'
  BY LoopNext
<1> QED
  BY <1>1, <1>2, LoopInit, PTL DEF Spec

\* On one event loop no payload file outlives its row and its unlinking.
THEOREM NoFileLeftBehind ==
    ASSUME OnLoop = Queries
    PROVE  Spec => []NoOrphanFiles
<1>1. LoopInv => NoOrphanFiles
  BY DEF LoopInv
<1>2. LoopInv /\ [Next]_vars => LoopInv'
  BY LoopNext
<1> QED
  BY <1>1, <1>2, LoopInit, PTL DEF Spec

-----------------------------------------------------------------------------
(* What an invalidation promises                                           *)

\* The payload was written after these invalidations of what its query reads.
After(payload, k, seen) == \A t \in Reads[k] : payload.since[t] >= seen[t]

Ordered ==
    \A t \in Tables :
        /\ beat[t] <= version[t]
        /\ \A q \in Queries : asked[q][t] <= beat[t]

\* A file an invalidation has reached is about to be unlinked.
FilesPostdate ==
    \A k \in Keys : files[k] # NoFile /\ k \notin doomed[Maintainer] =>
        After(files[k], k, beat)

\* The file of a query's key, even one about to be unlinked, will do for it.
FilesServe ==
    \A q \in Queries : pc[q] # "idle" /\ files[want[q]] # NoFile =>
        After(files[want[q]], want[q], asked[q])

ServedParts == Ordered /\ FilesPostdate /\ FilesServe /\ InvalidatedNotServed

ServedInv == LoopInv /\ ServedParts

LEMMA ServedInit == Init => ServedInv
<1> SUFFICES ASSUME Init PROVE ServedInv
  OBVIOUS
<1>1. ServedParts
  BY DEF Init, ServedParts, Ordered, FilesPostdate, FilesServe,
         InvalidatedNotServed, Nothing
<1> QED
  BY <1>1, LoopInit DEF ServedInv

\* The cache, as an invalidation sees it, in a step that is not one: a file is
\* gone, or has been written since, or is as it was.
FilesKept ==
    \A k \in Keys :
        \/ files'[k] = NoFile
        \/ files'[k] \in Payloads /\ files'[k].since = beat
        \/ files'[k] = files[k] /\ (k \in doomed[Maintainer] => k \in doomed'[Maintainer])

\* A query that has not returned asks now, or goes on with what it had.
QueriesKept ==
    \A q \in Queries :
        \/ pc'[q] = "idle" /\ asked'[q] \in {asked[q], Nothing}
        \/ pc'[q] \notin {"idle", "hit"} /\ asked'[q] = beat /\ doomed[Maintainer] = {}
           /\ want'[q] \in Keys /\ files' = files
        \/ /\ pc[q] # "idle" /\ want'[q] = want[q] /\ asked'[q] = asked[q]
           /\ pc'[q] = "hit" =>
                \/ pc[q] = "hit" /\ result'[q] = result[q]
                \/ files[want[q]] # NoFile /\ result'[q] = files[want[q]]

LEMMA ServedStep ==
    ASSUME ServedInv, LoopInv', UNCHANGED beat,
           \A t \in Tables : version'[t] >= version[t],
           FilesKept, QueriesKept
    PROVE  ServedInv'
<1> USE DEF ServedInv, ServedParts, LoopInv, GeneralInv
<1>1. beat \in [Tables -> Nat] /\ version' \in [Tables -> Nat] /\ version \in [Tables -> Nat]
  BY DEF TypeOK, Seen
<1>2. \A q \in Queries : asked[q] \in [Tables -> Nat]
  BY DEF TypeOK, Seen
<1>3. Ordered'
  <2> SUFFICES ASSUME NEW t \in Tables
               PROVE  beat[t] <= version'[t] /\ \A q \in Queries : asked'[q][t] <= beat[t]
    BY DEF Ordered
  <2>1. beat[t] <= version'[t]
    BY <1>1 DEF Ordered
  <2>2. ASSUME NEW q \in Queries PROVE asked'[q][t] <= beat[t]
    BY <1>1, <1>2 DEF QueriesKept, Ordered, Nothing
  <2> QED
    BY <2>1, <2>2
<1>4. \A k \in Keys, seen \in [Tables -> Nat] :
        files'[k] # NoFile /\ (\A t \in Tables : seen[t] <= beat[t])
        /\ (files'[k] = files[k] => After(files[k], k, seen))
        => After(files'[k], k, seen)
  BY <1>1, ResultCacheAssumption DEF FilesKept, After
<1>5. FilesPostdate'
  <2> SUFFICES ASSUME NEW k \in Keys, files'[k] # NoFile, k \notin doomed'[Maintainer]
               PROVE  After(files'[k], k, beat)
    BY DEF FilesPostdate
  <2>1. CASE files'[k] \in Payloads /\ files'[k].since = beat
    BY <2>1, <1>1, ResultCacheAssumption DEF After
  <2>2. CASE files'[k] = files[k] /\ (k \in doomed[Maintainer] => k \in doomed'[Maintainer])
    BY <2>2 DEF FilesPostdate
  <2> QED
    BY <2>1, <2>2 DEF FilesKept
<1>6. FilesServe'
  <2> SUFFICES ASSUME NEW q \in Queries, pc'[q] # "idle", files'[want'[q]] # NoFile
               PROVE  After(files'[want'[q]], want'[q], asked'[q])
    BY DEF FilesServe
  <2>1. CASE /\ asked'[q] = beat /\ doomed[Maintainer] = {}
             /\ want'[q] \in Keys /\ files' = files
    BY <2>1 DEF FilesPostdate
  <2>2. CASE pc[q] # "idle" /\ want'[q] = want[q] /\ asked'[q] = asked[q]
    <3>1. want[q] \in Keys /\ asked[q] \in [Tables -> Nat]
      BY <2>2, <1>2 DEF KeysKnown
    <3>2. \A t \in Tables : asked[q][t] <= beat[t]
      BY DEF Ordered
    <3>3. files'[want[q]] = files[want[q]] => After(files[want[q]], want[q], asked[q])
      BY <2>2 DEF FilesServe
    <3> QED
      BY <2>2, <3>1, <3>2, <3>3, <1>4
  <2> QED
    BY <2>1, <2>2 DEF QueriesKept
<1>7. InvalidatedNotServed'
  <2> SUFFICES ASSUME NEW q \in Queries, pc'[q] = "hit"
               PROVE  \A t \in Reads[want'[q]] : result'[q].since[t] >= asked'[q][t]
    BY DEF InvalidatedNotServed
  <2>1. pc[q] # "idle" /\ want'[q] = want[q] /\ asked'[q] = asked[q]
    BY DEF QueriesKept
  <2>2. CASE pc[q] = "hit" /\ result'[q] = result[q]
    BY <2>1, <2>2 DEF InvalidatedNotServed
  <2>3. CASE files[want[q]] # NoFile /\ result'[q] = files[want[q]]
    BY <2>1, <2>3 DEF FilesServe, After
  <2> QED
    BY <2>2, <2>3 DEF QueriesKept
<1> QED
  BY <1>3, <1>5, <1>6, <1>7

\* The other queries stay where they are.
LEMMA OthersKept ==
    ASSUME GeneralInv, NEW q \in Queries,
           \A r \in Queries \ {q} :
               /\ pc'[r] = pc[r] /\ want'[r] = want[r]
               /\ asked'[r] = asked[r] /\ result'[r] = result[r],
           \/ pc'[q] = "idle" /\ asked'[q] \in {asked[q], Nothing}
           \/ pc[q] # "idle" /\ pc'[q] # "hit" /\ want'[q] = want[q] /\ asked'[q] = asked[q]
    PROVE  QueriesKept
BY DEF QueriesKept

LEMMA QueryStepKeepsServed ==
    ASSUME ServedInv, LoopInv', NEW q \in Queries, QueryStep(q)
    PROVE  ServedInv'
<1> USE DEF ServedInv, LoopInv, GeneralInv
<1>0. /\ UNCHANGED <<version, beat>>
      /\ \A t \in Tables : version'[t] >= version[t]
  <2>1. UNCHANGED <<version, beat>>
    BY DEF QueryStep, Select, Fetch, Read, Hit, Evict, Execute, Write, Commit, Undo,
           worldVars
  <2>2. \A t \in Tables : version[t] \in Nat
    BY DEF TypeOK, Seen
  <2> QED
    BY <2>1, <2>2
<1>1. CASE Select(q)
  <2>1. FilesKept
    BY <1>1 DEF Select, FilesKept
  <2>2. QueriesKept
    BY <1>1, OthersKept DEF Select, GoTo, TypeOK
  <2> QED
    BY <1>0, <2>1, <2>2, ServedStep
<1>2. CASE Fetch(q)
  <2>1. FilesKept
    BY <1>2 DEF Fetch, FilesKept
  <2>2. QueriesKept
    BY <1>2, OthersKept DEF Fetch, GoTo, TypeOK
  <2> QED
    BY <1>0, <2>1, <2>2, ServedStep
<1>3. CASE Read(q)
  <2>1. FilesKept
    BY <1>3 DEF Read, FilesKept, cacheVars
  <2>2. path[q] = want[q]
    BY <1>3 DEF Read, OwnRow
  <2>3. QueriesKept
    BY <1>3, <2>2 DEF Read, GoTo, QueriesKept, TypeOK
  <2> QED
    BY <1>0, <2>1, <2>3, ServedStep
<1>4. CASE Hit(q)
  <2>1. FilesKept
    BY <1>4 DEF Hit, FilesKept
  <2>2. QueriesKept
    BY <1>4, OthersKept DEF Hit, Return, GoTo, TypeOK
  <2> QED
    BY <1>0, <2>1, <2>2, ServedStep
<1>5. CASE Evict(q)
  <2>1. FilesKept
    BY <1>5, ResultCacheAssumption DEF Evict, FilesKept, TypeOK
  <2>2. QueriesKept
    BY <1>5, OthersKept DEF Evict, GoTo, TypeOK
  <2> QED
    BY <1>0, <2>1, <2>2, ServedStep
<1>6. CASE Execute(q)
  <2>1. FilesKept
    BY <1>6 DEF Execute, FilesKept, cacheVars
  <2>2. QueriesKept
    BY <1>6, OthersKept DEF Execute, Return, GoTo, TypeOK
  <2> QED
    BY <1>0, <2>1, <2>2, ServedStep
<1>7. CASE Write(q)
  <2>1. FilesKept
    <3>1. want[q] \in Keys
      BY <1>7 DEF Write, KeysKnown
    <3>2. [rows |-> result[q].rows, since |-> beat] \in Payloads
      BY PayloadSeen, TaggedPayload DEF TypeOK
    <3> QED
      BY <1>7, <3>1, <3>2 DEF Write, FilesKept, TypeOK
  <2>2. QueriesKept
    BY <1>7, OthersKept DEF Write, Return, GoTo, TypeOK
  <2> QED
    BY <1>0, <2>1, <2>2, ServedStep
<1>8. CASE Commit(q)
  <2>1. FilesKept
    BY <1>8 DEF Commit, FilesKept
  <2>2. QueriesKept
    BY <1>8, OthersKept DEF Commit, Return, GoTo, TypeOK
  <2> QED
    BY <1>0, <2>1, <2>2, ServedStep
<1>9. CASE Undo(q)
  <2>1. FilesKept
    BY <1>9 DEF Undo, FilesKept, TypeOK
  <2>2. QueriesKept
    BY <1>9, OthersKept DEF Undo, Return, GoTo, TypeOK
  <2> QED
    BY <1>0, <2>1, <2>2, ServedStep
<1> QED
  BY <1>1, <1>2, <1>3, <1>4, <1>5, <1>6, <1>7, <1>8, <1>9 DEF QueryStep

\* An invalidation: every file of a query that reads the table has its row, for
\* no coroutine holds the loop, and so is doomed with it.
LEMMA InvalidateKeepsServed ==
    ASSUME ServedInv, LoopInv', NEW t \in Tables, LoopFree, OnLoop = Queries,
           beat' = [beat EXCEPT ![t] = version[t]],
           DeleteRows(Maintainer, {k \in Present : t \in Reads[k]}),
           UNCHANGED <<version, queryVars>>
    PROVE  ServedInv'
<1> USE DEF ServedInv, ServedParts, LoopInv, GeneralInv
<1>1. /\ beat \in [Tables -> Nat] /\ version \in [Tables -> Nat]
      /\ \A q \in Queries : asked[q] \in [Tables -> Nat]
  BY DEF TypeOK, Seen
<1>2. beat[t] <= version[t]
  BY DEF Ordered
<1>3. \A u \in Tables : beat'[u] >= beat[u] /\ (u # t => beat'[u] = beat[u])
  BY <1>1, <1>2
<1>4. Ordered'
  <2> SUFFICES ASSUME NEW u \in Tables
               PROVE  beat'[u] <= version[u] /\ \A q \in Queries : asked[q][u] <= beat'[u]
    BY DEF Ordered, queryVars
  <2>1. beat'[u] <= version[u]
    BY <1>1 DEF Ordered
  <2>2. \A q \in Queries : asked[q][u] <= beat'[u]
    BY <1>1, <1>3 DEF Ordered
  <2> QED
    BY <2>1, <2>2
<1>5. FilesPostdate'
  <2> SUFFICES ASSUME NEW k \in Keys, files[k] # NoFile, k \notin doomed'[Maintainer]
               PROVE  After(files[k], k, beat')
    BY DEF FilesPostdate, DeleteRows
  <2>1. rows[k] # "none"
    <3>1. \A q \in Queries : pc[q] \notin {"commit", "undo", "unlink"}
      BY DEF LoopFree, Holding
    <3>2. \A p \in Processes : k \notin doomed[p]
      BY <3>1 DEF LoopFree, KeysKnown
    <3> QED
      BY <3>1, <3>2 DEF NoOrphanFiles
  <2>2. t \notin Reads[k]
    BY <2>1 DEF DeleteRows, Present, TypeOK
  <2>3. After(files[k], k, beat)
    BY DEF LoopFree, FilesPostdate
  <2> QED
    BY <1>3, <2>2, <2>3, ResultCacheAssumption DEF After
<1>6. FilesServe' /\ InvalidatedNotServed'
  BY DEF FilesServe, InvalidatedNotServed, After, DeleteRows, queryVars
<1> QED
  BY <1>4, <1>5, <1>6

LEMMA ServedNext == OnLoop = Queries /\ ServedInv /\ [Next]_vars => ServedInv'
<1> SUFFICES ASSUME OnLoop = Queries, ServedInv, [Next]_vars PROVE ServedInv'
  OBVIOUS
<1> USE DEF ServedInv, LoopInv, GeneralInv
<1>0. LoopInv'
  BY LoopNext
<1>1. \A t \in Tables : version[t] \in Nat
  BY DEF TypeOK, Seen
<1>2. CASE \E q \in Queries : QueryStep(q)
  BY <1>0, <1>2, QueryStepKeepsServed
<1>3. ASSUME NEW q \in Queries, NEW k \in Keys, Ask(q, k) PROVE ServedInv'
  <2>1. doomed[Maintainer] = {}
    BY <1>3 DEF Ask, MayRun, LoopFree, Holding
  <2>2. FilesKept
    BY <1>3 DEF Ask, FilesKept
  <2>3. QueriesKept
    BY <1>3, <2>1 DEF Ask, GoTo, QueriesKept, TypeOK
  <2> QED
    BY <1>0, <1>1, <1>3, <2>2, <2>3, ServedStep DEF Ask, worldVars
<1>4. ASSUME NEW p \in Processes, NEW k \in Keys, Unlink(p, k) PROVE ServedInv'
  <2>1. FilesKept
    BY <1>4 DEF Unlink, FilesKept, TypeOK
  <2>2. \A q \in Queries : doomed[q] # {} => pc[q] = "unlink"
    BY DEF KeysKnown
  <2>3. QueriesKept
    BY <1>4, <2>2 DEF Unlink, QueriesKept, TypeOK
  <2> QED
    BY <1>0, <1>1, <1>4, <2>1, <2>3, ServedStep DEF Unlink, worldVars
<1>5. ASSUME UNCHANGED <<files, beat, queryVars>>,
             \A t \in Tables : version'[t] >= version[t],
             doomed[Maintainer] \subseteq doomed'[Maintainer]
      PROVE  ServedInv'
  <2>1. FilesKept
    BY <1>5 DEF FilesKept
  <2>2. QueriesKept
    BY <1>5 DEF QueriesKept, queryVars
  <2> QED
    BY <1>0, <1>5, <2>1, <2>2, ServedStep
<1>6. ASSUME NEW k \in Keys, Expire(k) PROVE ServedInv'
  BY <1>1, <1>5, <1>6 DEF Expire, worldVars
<1>7. ASSUME NEW t \in Tables, Refresh(t) PROVE ServedInv'
  BY <1>1, <1>5, <1>7 DEF Refresh, TypeOK, Seen, cacheVars
<1>8. ASSUME NEW t \in Tables, Heartbeat(t) PROVE ServedInv'
  <2>1. CASE UNCHANGED <<rows, files, beat, doomed>>
    BY <1>1, <1>5, <1>8, <2>1 DEF Heartbeat
  <2>2. CASE /\ beat' = [beat EXCEPT ![t] = version[t]]
             /\ DeleteRows(Maintainer, {k \in Present : t \in Reads[k]})
    BY <1>0, <1>8, <2>2, InvalidateKeepsServed DEF Heartbeat
  <2> QED
    BY <1>8, <2>1, <2>2 DEF Heartbeat
<1>9. CASE SweepTtl \/ DropSome
  BY <1>1, <1>5, <1>9 DEF SweepTtl, DropSome, LoopFree, DeleteRows, worldVars
<1>10. CASE UNCHANGED vars
  BY <1>1, <1>5, <1>10 DEF vars, cacheVars, worldVars
<1> QED
  BY <1>2, <1>3, <1>4, <1>6, <1>7, <1>8, <1>9, <1>10 DEF Next

\* On one event loop, a query asked after a heartbeat has invalidated a table
\* it reads is served no payload stored before, however fetches, stores,
\* evictions and sweeps run between.
THEOREM InvalidatedPayloadsNotServed ==
    ASSUME OnLoop = Queries
    PROVE  Spec => []InvalidatedNotServed
<1>1. ServedInv => InvalidatedNotServed
  BY DEF ServedInv, ServedParts
<1>2. ServedInv /\ [Next]_vars => ServedInv'
  BY ServedNext
<1> QED
  BY <1>1, <1>2, ServedInit, PTL DEF Spec
=============================================================================
