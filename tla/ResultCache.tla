----------------------------- MODULE ResultCache -----------------------------
(***************************************************************************)
(* The result cache: cache/file.py (FileCache), execute_query_with_cache   *)
(* of api/query_cache.py, which every surface goes through (Flight has its *)
(* own copy of the sequence), and the heartbeat of api/routers.            *)
(*                                                                         *)
(* A cached result is a metadata row in DuckDB and a payload file.  REST   *)
(* and pgwire queries, heartbeats and sweeps run on the API's event loop,  *)
(* where only an await that waits lets another run; a Flight query has a   *)
(* thread and an event loop of its own.  A step is one critical section of *)
(* the cache's lock, one fetch, one file operation, or one wait.           *)
(*                                                                         *)
(* How long a result lives is freshness arithmetic (cache/ttl.py): here a  *)
(* row may expire at any time.  An unlink the disk refuses is left out.    *)
(***************************************************************************)
EXTENDS Naturals, FiniteSets

CONSTANTS
    Queries,     \* callers of execute_query_with_cache
    OnLoop,      \* those of them on the API's event loop
    Maintainer,  \* heartbeats, sweeps and clears: on that loop, never awaiting
    Keys,        \* cache keys: data source, model, dialect and SQL
    Tables,
    Reads,       \* physical_tables of each key's query
    MaxVersion,  \* bound on the refreshes of a table
    NoKey,
    NoFile

ASSUME ResultCacheAssumption ==
    /\ OnLoop \subseteq Queries /\ Maintainer \notin Queries
    /\ Reads \in [Keys -> SUBSET Tables]
    /\ MaxVersion \in Nat
    /\ NoKey \notin Keys

Processes == Queries \cup {Maintainer}

\* A version of each table.
Seen == [Tables -> Nat]
Nothing == [t \in Tables |-> 0]

\* A payload: the versions its rows were read from, and the invalidations its
\* file was written after (history).
Payloads == [rows : Seen, since : Seen]
Unread == [rows |-> Nothing, since |-> Nothing]

ASSUME NoFileAssumption == NoFile \notin Payloads

VARIABLES
    rows,     \* cache_entries: no row, a live one or one past expires_at
    files,    \* the payload under each key's file path
    cursor,   \* the row pending on the shared connection: its key, or none
    version,  \* the warehouse: how often each table was refreshed
    beat,     \* the version for which a heartbeat last invalidated (history)
    pc,       \* how far each query is
    want,     \* its key
    path,     \* the key whose file path its lookup found
    result,   \* the rows it has read
    asked,    \* the invalidations its lookup came after (history)
    doomed    \* file paths each process has still to unlink

cacheVars == <<rows, files, cursor>>
worldVars == <<version, beat>>
queryVars == <<pc, want, path, result, asked>>
vars == <<cacheVars, worldVars, queryVars, doomed>>

Steps == {"idle", "select", "fetch", "read", "gone", "hit", "evict", "unlink",
          "execute", "write", "commit", "undo"}

TypeOK ==
    /\ rows \in [Keys -> {"none", "live", "expired"}]
    /\ files \in [Keys -> Payloads \cup {NoFile}]
    /\ cursor \in Keys \cup {NoKey}
    /\ version \in Seen /\ beat \in Seen
    /\ pc \in [Queries -> Steps]
    /\ want \in [Queries -> Keys \cup {NoKey}]
    /\ path \in [Queries -> Keys \cup {NoKey}]
    /\ result \in [Queries -> Payloads]
    /\ asked \in [Queries -> Seen]
    /\ doomed \in [Processes -> SUBSET Keys]

Init ==
    /\ rows = [k \in Keys |-> "none"]
    /\ files = [k \in Keys |-> NoFile]
    /\ cursor = NoKey
    /\ version = Nothing /\ beat = Nothing
    /\ pc = [q \in Queries |-> "idle"]
    /\ want = [q \in Queries |-> NoKey]
    /\ path = [q \in Queries |-> NoKey]
    /\ result = [q \in Queries |-> Unread]
    /\ asked = [q \in Queries |-> Nothing]
    /\ doomed = [p \in Processes |-> {}]

-----------------------------------------------------------------------------
(* The event loop                                                          *)

\* Mutant: the metadata lookup is awaited too.
HoldingNotInLookup(q) == pc[q] \in {"evict", "unlink", "commit", "undo"}

\* Mutant: set awaits something between its file and its row.
HoldingNotInStore(q) == pc[q] \in {"select", "fetch", "evict", "unlink", "undo"}

\* Between two awaits that wait, a coroutine has its loop to itself.
Holding(q) == pc[q] \in {"select", "fetch", "evict", "unlink", "commit", "undo"}
LoopFree == doomed[Maintainer] = {} /\ \A q \in OnLoop : ~Holding(q)
MayRun(q) == q \in OnLoop => Holding(q) \/ LoopFree

GoTo(q, step) == pc' = [pc EXCEPT ![q] = step]

Return(q) ==
    /\ GoTo(q, "idle")
    /\ want' = [want EXCEPT ![q] = NoKey]
    /\ path' = [path EXCEPT ![q] = NoKey]
    /\ result' = [result EXCEPT ![q] = Unread]
    /\ asked' = [asked EXCEPT ![q] = Nothing]

Present == {k \in Keys : rows[k] # "none"}

\* Mutant: the rows go, their files stay.
DeleteRowsOnly(p, K) ==
    /\ rows' = [k \in Keys |-> IF k \in K THEN "none" ELSE rows[k]]
    /\ cursor' = NoKey
    /\ UNCHANGED <<files, doomed>>

\* One transaction: rows go, and their file paths are unlinked after it.
DeleteRows(p, K) ==
    /\ rows' = [k \in Keys |-> IF k \in K THEN "none" ELSE rows[k]]
    /\ doomed' = [doomed EXCEPT ![p] = K]
    /\ cursor' = NoKey
    /\ UNCHANGED files

-----------------------------------------------------------------------------
(* FileCache.get                                                           *)

\* The key and the freshness are decided, and the query is cacheable.
Ask(q, k) ==
    /\ pc[q] = "idle" /\ MayRun(q)
    /\ GoTo(q, "select")
    /\ want' = [want EXCEPT ![q] = k]
    /\ asked' = [asked EXCEPT ![q] = beat]
    /\ cursor' = NoKey
    /\ UNCHANGED <<rows, files, worldVars, path, result, doomed>>

\* _exec runs the SELECT under the lock.  What comes back is the connection
\* itself, whose pending result is the last statement's.
Select(q) ==
    /\ pc[q] = "select" /\ MayRun(q)
    /\ GoTo(q, "fetch")
    /\ cursor' = IF rows[want[q]] # "none" THEN want[q] ELSE NoKey
    /\ UNCHANGED <<rows, files, worldVars, want, path, result, asked, doomed>>

\* Mutant: a lookup that finds no row evicts as one that finds an old row.
FetchEvictsAlways(q) ==
    /\ pc[q] = "fetch" /\ MayRun(q)
    /\ path' = [path EXCEPT ![q] = cursor]
    /\ cursor' = NoKey
    /\ GoTo(q, IF cursor # NoKey /\ rows[cursor] = "live" THEN "read" ELSE "evict")
    /\ UNCHANGED <<rows, files, worldVars, want, result, asked, doomed>>

\* fetchone, without the lock: the row that is pending, whoever selected it.
\* (What another statement left is no row here; the code then fails the get.)
Fetch(q) ==
    /\ pc[q] = "fetch" /\ MayRun(q)
    /\ path' = [path EXCEPT ![q] = cursor]
    /\ cursor' = NoKey
    /\ \/ cursor = NoKey /\ GoTo(q, "execute")
       \/ cursor # NoKey /\ rows[cursor] = "live" /\ GoTo(q, "read")
       \/ cursor # NoKey /\ rows[cursor] # "live" /\ GoTo(q, "evict")
    /\ UNCHANGED <<rows, files, worldVars, want, result, asked, doomed>>

\* The payload file is read in a worker thread: it may have gone, or fail.
Read(q) ==
    /\ pc[q] = "read"
    /\ \/ /\ files[path[q]] # NoFile
          /\ result' = [result EXCEPT ![q] = files[path[q]]]
          /\ GoTo(q, "hit")
       \/ files[path[q]] = NoFile /\ GoTo(q, "gone") /\ UNCHANGED result
       \/ GoTo(q, "execute") /\ UNCHANGED result
    /\ UNCHANGED <<cacheVars, worldVars, want, path, asked, doomed>>

\* Back on the loop with a payload: a last SELECT, and the caller has its hit.
Hit(q) ==
    /\ pc[q] = "hit" /\ MayRun(q)
    /\ Return(q)
    /\ cursor' = NoKey
    /\ UNCHANGED <<rows, files, worldVars, doomed>>

\* _evict, of a row that has expired or has no file: the row by its key, and
\* then the file by its path.  If the transaction fails, nothing goes.
Evict(q) ==
    /\ pc[q] \in {"evict", "gone"} /\ MayRun(q)
    /\ cursor' = NoKey
    /\ \/ /\ rows' = [rows EXCEPT ![want[q]] = "none"]
          /\ doomed' = [doomed EXCEPT ![q] = {path[q]}]
          /\ GoTo(q, "unlink")
       \/ GoTo(q, "execute") /\ UNCHANGED <<rows, doomed>>
    /\ UNCHANGED <<files, worldVars, want, path, result, asked>>

Unlink(p, k) ==
    /\ k \in doomed[p]
    /\ doomed' = [doomed EXCEPT ![p] = @ \ {k}]
    /\ files' = [files EXCEPT ![k] = NoFile]
    /\ pc' = IF p \in Queries THEN [pc EXCEPT ![p] = "execute"] ELSE pc
    /\ UNCHANGED <<rows, cursor, worldVars, want, path, result, asked>>

-----------------------------------------------------------------------------
(* The miss, and FileCache.set                                             *)

\* What a key's query returns now.
Current(k) == [t \in Tables |-> IF t \in Reads[k] THEN version[t] ELSE 0]

\* The query runs in a thread, or in the warehouse, and may fail.
Execute(q) ==
    /\ pc[q] = "execute"
    /\ \/ /\ result' = [result EXCEPT ![q] = [rows |-> Current(want[q]), since |-> Nothing]]
          /\ GoTo(q, "write")
          /\ UNCHANGED <<want, path, asked>>
       \/ Return(q)
    /\ UNCHANGED <<cacheVars, worldVars, doomed>>

\* A temporary file, renamed over the key's path; or the value is too large
\* or the disk refuses it, and nothing is stored; or its inputs have expired
\* meanwhile, and the new file goes again.
Write(q) ==
    /\ pc[q] = "write" /\ MayRun(q)
    /\ \/ /\ files' = [files EXCEPT ![want[q]] = [rows |-> result[q].rows, since |-> beat]]
          /\ GoTo(q, "commit")
          /\ UNCHANGED <<want, path, result, asked>>
       \/ /\ files' \in {files, [files EXCEPT ![want[q]] = NoFile]}
          /\ Return(q)
    /\ UNCHANGED <<rows, cursor, worldVars, doomed>>

\* The row and its dependencies, in one transaction; if it fails, a row that
\* was there stays.
Commit(q) ==
    /\ pc[q] = "commit" /\ MayRun(q)
    /\ cursor' = NoKey
    /\ \/ /\ rows' = [rows EXCEPT ![want[q]] = "live"]
          /\ Return(q)
       \/ GoTo(q, "undo") /\ UNCHANGED <<rows, want, path, result, asked>>
    /\ UNCHANGED <<files, worldVars, doomed>>

\* And the file it was for goes.
Undo(q) ==
    /\ pc[q] = "undo" /\ MayRun(q)
    /\ files' = [files EXCEPT ![want[q]] = NoFile]
    /\ Return(q)
    /\ UNCHANGED <<rows, cursor, worldVars, doomed>>

-----------------------------------------------------------------------------
(* Time, the warehouse and maintenance                                     *)

Expire(k) ==
    /\ rows[k] = "live"
    /\ rows' = [rows EXCEPT ![k] = "expired"]
    /\ UNCHANGED <<files, cursor, worldVars, queryVars, doomed>>

\* Bound: MaxVersion refreshes.
Refresh(t) ==
    /\ version[t] < MaxVersion
    /\ version' = [version EXCEPT ![t] = @ + 1]
    /\ UNCHANGED <<cacheVars, beat, queryVars, doomed>>

\* post_heartbeat, after a refresh.  invalidate_table drops every entry that
\* depends on the table; or its transaction fails, it says that there were
\* none, and the heartbeat is recorded and answered like any other.
Heartbeat(t) ==
    /\ LoopFree
    /\ \/ /\ beat' = [beat EXCEPT ![t] = version[t]]
          /\ DeleteRows(Maintainer, {k \in Present : t \in Reads[k]})
       \/ /\ cursor' = NoKey
          /\ UNCHANGED <<rows, files, beat, doomed>>
    /\ UNCHANGED <<version, queryVars>>

\* _sweep_ttl
SweepTtl ==
    /\ LoopFree
    /\ DeleteRows(Maintainer, {k \in Keys : rows[k] = "expired"})
    /\ UNCHANGED <<worldVars, queryVars>>

\* _sweep_capacity, one batch: which rows go is a matter of sizes and age.
\* clear and delete_datasource: all rows, or those of one data source.  None,
\* if the transaction of one of these, or of _sweep_ttl, fails.
DropSome ==
    /\ LoopFree
    /\ \E K \in SUBSET Present : DeleteRows(Maintainer, K)
    /\ UNCHANGED <<worldVars, queryVars>>

-----------------------------------------------------------------------------
QueryStep(q) ==
    \/ Select(q) \/ Fetch(q) \/ Read(q) \/ Hit(q) \/ Evict(q)
    \/ Execute(q) \/ Write(q) \/ Commit(q) \/ Undo(q)

Next ==
    \/ \E q \in Queries : QueryStep(q) \/ \E k \in Keys : Ask(q, k)
    \/ \E p \in Processes, k \in Keys : Unlink(p, k)
    \/ \E k \in Keys : Expire(k)
    \/ \E t \in Tables : Refresh(t) \/ Heartbeat(t)
    \/ SweepTtl \/ DropSome

Spec == Init /\ [][Next]_vars

-----------------------------------------------------------------------------
(* A hit serves the payload of the key it asked for: a lookup never takes  *)
(* the row of another lookup that shares the connection.                   *)
HitIsOwnResult == \A q \in Queries : pc[q] = "hit" => path[q] = want[q]

(* No payload file is left behind: a file without a row is about to be     *)
(* unlinked, or its row is about to be written.  Sweeps find files through *)
(* rows only, so an orphan would stay until the server restarts.           *)
NoOrphanFiles ==
    \A k \in Keys : files[k] # NoFile /\ rows[k] = "none" =>
        \/ \E p \in Processes : k \in doomed[p]
        \/ \E q \in Queries : pc[q] \in {"commit", "undo"} /\ want[q] = k

(* A query asked after a heartbeat has invalidated a table it reads is not *)
(* served a payload stored before: not from an entry the invalidation has  *)
(* missed, nor from a file whose row was not there yet, or is written over *)
(* again.  (A heartbeat whose transaction fails promises nothing.)         *)
InvalidatedNotServed ==
    \A q \in Queries : pc[q] = "hit" =>
        \A t \in Reads[want[q]] : result[q].since[t] >= asked[q][t]

(* "A heartbeat from the warehouse invalidates every cached query that     *)
(* depends on that table" (docs/guide/result-cache.md): a query asked      *)
(* after a heartbeat, one that did invalidate, is not answered from the    *)
(* cache with older rows.                                                  *)
AfterHeartbeatFresh ==
    \A q \in Queries : pc[q] = "hit" =>
        \A t \in Reads[want[q]] : result[q].rows[t] >= asked[q][t]
=============================================================================
