# TLA+ specifications of OrionBelt Semantic Layer

OrionBelt takes a YAML model of facts, dimensions and measures (OBML), compiles
queries against it to SQL and, when asked, runs them.  It is a long-lived
server: one process holds the sessions and their models for every client of the
REST API, Arrow Flight SQL and the PostgreSQL wire protocol.  Two things in it
are hard.  One is what the clients share - sessions, caches of models, of
compiled queries and of results, connections, slots and leg threads of federated
queries - and the state of a wire connection.  The other is sequential: the joins
a query is planned over decide whether its sums count every row once.

Paths below are relative to `src/src/orionbelt/`, unless they start with
`drivers/`, which stands for `src/drivers/`.

## How to read and run it

    tlc -workers 2 -config SharedModels.cfg MCSharedModels      # model checking
    tlapm SharedModelsProofs.tla                                # proofs

| Module | Models | Checked by | Proved in |
|---|---|---|---|
| `ModelCache` | `service/model_cache.py` | runs of `SharedModels` | `SharedModelsProofs` |
| `SharedModels` | `service/model_store.py` with the locks of `service/session_manager.py` | `SharedModels.cfg` (through `MCSharedModels`) | `SharedModelsProofs` |
| `SessionManager` | expiry in `service/session_manager.py` | `SessionManager.cfg` | `SessionManagerProofs` |
| `FifoSlots` | nothing: the abstract limiter | as a property of `AdmissionGate`, `ConnectionPool` and `FederatedRun` | its refinements, in the proofs of the three |
| `AdmissionGate` | `AdmissionGate` in `service/federated_executor.py`, `run_legs` in `api/query_cache.py` | `AdmissionGate.cfg` | `AdmissionGateProofs` |
| `ConnectionSlots`, `ConnectionPool` | `drivers/ob-flight-extension/src/ob_flight/db_router.py` | `ConnectionPool.cfg` | `ConnectionPoolProofs` |
| `ResultCache` | `cache/file.py`, `execute_query_with_cache` in `api/query_cache.py`, `api/routers/heartbeat.py` | `ResultCache.cfg`, `ResultCacheThreads.cfg`, `ResultCacheHeartbeat.cfg` (through `MCResultCache`) | `ResultCacheProofs` |
| `CompilationCache` | `service/compilation_cache.py`, the time-zone probes of `service/db_executor.py` | `CompilationCache.cfg` (through `MCCompilationCache`) | `CompilerProofs` |
| `FederatedRun` | an admitted query: `run_legs` in `api/query_cache.py`, leg threads, `LegSink` and `QuerySpill` in `service/federated_executor.py` | `FederatedRun.cfg` (through `MCFederatedRun`) | `FederatedRunProofs` |
| `PgExtended` | `pgwire/extended.py` under the message loop of `pgwire/server.py` | `PgExtended.cfg` (through `MCPgExtended`) | `PgExtendedProofs` |
| `JoinPlan` | the joins of a query in `compiler/`: `resolution.py`, `graph.py`, `filter_resolution.py`, `fanout.py`, `grain_dedup.py`, `cfl.py`, `star.py`; the join checks of `parser/validator.py` | `JoinPlan.cfg`, `JoinPlanLegs.cfg` (through `MCJoinPlan`) | `CompilerProofs` |

`ModelCache` is extended by `SharedModels`, `ConnectionSlots` by
`ConnectionPool`.  `AdmissionGate`, `ConnectionPool` and `FederatedRun` each
instantiate `FifoSlots` under a refinement mapping; `FederatedRun` composes the
two limiters as `FifoSlots` describes them and shows that it uses the gate as
that specification expects of its clients.  The definitions commented as mutants
are used by no specification: each is a plausible bug in the definition it
stands above, and `PROJECT.json` names the property that catches it.

## Inventory

What each part of the system keeps, who changes it, and what makes it correct.

### Model cache - `service/model_cache.py`
State: content hash -> (compiled model, reference count), and id -> hash.
Operations: `acquire`, `insert_or_acquire`, `release`, each under one lock.
Shared by every session's store.  Correct when a count equals the references
out, and the two dictionaries agree.

### Model store - `service/model_store.py`
State: per session, the loaded models by id, the ids backed by the cache, and a
dedup index from content hash to id.  Operations: `load_model`, `remove_model`,
`close`, getters.  A load is one method but not one critical section: dedup
lookup (store lock), `acquire` (cache lock), capacity check (store lock), parse
and validate (no lock), `insert_or_acquire` (cache lock), adopt (store lock),
`release` of what could not be adopted (cache lock).  Correct when every
reference taken is registered or given back whatever runs in between, the index
answers with the content asked for, and the model cap holds although it is
checked before the parse.

### Session manager - `service/session_manager.py`
State: sessions with two monotonic clocks (last access, creation), a lock, a
cleanup thread.  Operations: create, get, get-or-create (default, named), close,
purge.  Closing a session closes its store while the manager's lock is held.
Correct when sessions expire for a reason, protected ones never do, and the
others end.

### Federated admission gate - `service/federated_executor.py`, `api/query_cache.py`
State: number of active federated queries and a deque of tickets
(`concurrent.futures.Future`).  Operations: `request`, `withdraw`, `release`.
Waiters live on several event loops (the API's, which also serves pgwire, and
one per Flight or CLI thread in `execute_federated`).  The caller waits with a timeout, then runs
legs in threads inside a task that outlives its caller.  Correct when slots are
counted exactly, a cancelled caller's work keeps its slot until it ends, no slot
is idle while somebody waits, and waiters are served in order.

### Connection slots and pool - `drivers/ob-flight-extension/src/ob_flight/db_router.py`
State: `in_use`, a deque of events, a queue of idle connections.  Threads of
Flight, pgwire and federated legs take a slot, then a connection.  Correct when
slots are exact in the face of timeouts, the line is FIFO, and the pool's
connections never outnumber the limit.

### Result cache - `cache/file.py`, `cache/key.py`, `api/query_cache.py`, `api/routers/heartbeat.py`
State: payload files (gzipped Arrow) and a DuckDB database of metadata rows, the
tables each depends on, and heartbeats; both are wiped when the server starts.
Operations: `get`, `set`, `invalidate_table`, `clear`, TTL and capacity sweeps,
each one or two short transactions under a lock and then file operations.
Queries, heartbeats and sweeps interleave at every await that waits, and Flight
threads run `get` and `set` on event loops of their own.  Correct when a hit is
the caller's own result, no file is left that no row names, and a heartbeat
that invalidates leaves nothing older to be served.

### Freshness TTL - `cache/ttl.py`, `cache/contracts.py`
Pure: composes the contracts of all tables of a query into one TTL.  Correct
when the result is the least of the tables' and every zero, short or unknown
case means no caching.  Not modelled yet.

### Compilation cache - `service/compilation_cache.py`
State: compiled queries keyed by tokens of live models and a time-zone epoch,
with a budget of entries and bytes.  Weak-reference callbacks queue tokens for
removal.  The zones of the data sources become known while queries compile
(`service/db_executor.py`).  Correct when a hit is what compiling now would give,
although ids of models are reused and compiles run without the lock, entries of
collected models leave, and the byte count is exact.

### Federated execution - `service/federated_executor.py`, `api/query_cache.py`
State: per query the legs under way, per leg the batches held, per process the
bytes spilled and the queue of a thread pool all queries share.  An admitted
query sends its legs to threads, which wait there for connections of their
sources, spill what is over a threshold against two budgets, and are combined by
a thread of the same pool.  A fact leg may wait for the others' keys.  Correct
when nothing waits for ever, no work outlives the slot of its query, and every
byte reserved is given back whatever fails.

### pgwire extended protocol - `pgwire/extended.py`, `pgwire/server.py`
State: per connection, prepared statements and portals with rows already
fetched, an error-skip flag.  Correct when rows match the description the client
holds, no rows follow an error, and a client that holds a description from Describe gets
no second with the rows.

### Compiler - `compiler/`
State: one query under compilation, a record the phases pass on.  Resolution
chooses the base object and the join path, filters add to it, then either a star
is planned, with a check that no join multiplies a measure's rows and a pass
that deduplicates the replicated ones, or a union of one leg per fact, each with
joins of its own.  Correct when every sum counts a row once or the query is
refused, everything read is joined, and nothing answerable is refused.

### Flight SQL server - `drivers/ob-flight-extension/src/ob_flight/server.py`, `server_execution.py`
State: pending tickets (popped once, expiring) and prepared statements.  Not
modelled yet.

### Parts with no state machine to speak of
pgwire catalog and encoding, the SQL execution layer, the rest of the compiler
and of the parser, dialects, the REST routers and middleware, data-source
settings, authentication, CLI, UI, ontology export and the database drivers
transform data or call out.  `PROJECT.json` gives the reason for each.  They
appear in the models as steps that return or fail.

### Which of these really run concurrently
The API runs handlers on one event loop; the session manager, stores and model
cache are nevertheless called from the session-cleanup thread, Flight's
threads and worker threads at once, which is why each has a lock.  Federated
legs run in a thread pool.  The admission gate is entered from several event
loops.  The messages of one pgwire connection are handled one at a time, and a
compile runs in one thread.  In the models each thread, query or caller is an element of a constant
set, and a step is what runs under one lock, or between two.

## The models

### SharedModels and ModelCache

`refcount` is `_by_hash` (0 for no entry) and `byId` is `_by_id`.  Per store,
`models`, `sharedIds` and `index` are `_models` (with its parallel dictionaries),
`_shared_ids` and `_content_hash_index`.  A compiled model is immutable and
stands as its content hash; `ContentId` is the 16-digit prefix that serves as
id.  `pc[t]` is the place in `load_model`, `remove_model` or `close` where
thread `t` is between two locks, and `todo[t]` the references it has yet to
release.

| Action | Code |
|---|---|
| `LoadByHash` / `LoadPrivately` | the first critical section of `load_model`, and the test whether it is eligible for sharing |
| `AcquireShared` | `ModelCache.acquire`; a hit may be refused for its data source |
| `CheckCapacity`, `Parse` | the check before the expensive parse, and the parse, which may fail |
| `Insert`, `AdoptShared` | `insert_or_acquire`, then `_adopt_shared` with `_register_shared` |
| `KeepPrivate` | the private path, with the second capacity check |
| `RemoveModel`, `CloseSession`, `ReleaseOne` | `remove_model` and `close`, then one `release` per step |
| `CreateSession`, `GetStore` | the manager hands out a store, which its caller uses without the manager's lock |

`mgrLock` is explicit because `close` takes several steps while the manager's
lock is held.  A purge that closes several sessions under one hold of that lock
is modelled as closes one by one with the lock free between them; this allows
more interleavings than the code.  When a session closes is left open here:
`SessionManager` says when it expires.

### SessionManager

`create_session`, `get_store`, `get_session` and `_purge_expired` read the clock
*before* taking the lock, so a caller has a reading that is `waited[t]` old when
it gets in.  Time is relative (`idle`, `age`: how long ago), so no clock grows
without bound; past `IdleCap` and `AgeCap` all values compare alike for every
reading that can still be in flight.  `unused` is a history variable: the time
since the most recent reading with which anybody accessed the session.
`GetOrCreate` is `get_or_create_default` and `get_or_create_named`, which read
the clock under the lock and do not look at expiry.  `stop` and the thread's
start are left out.

### FifoSlots

At most `Limit` holders, the rest waiting, the first of them served when a
holder leaves; a client that waits may give up.  Who is first is told by the
clients before each one (`before`), not by a sequence: a queue that still has
clients in it that have given up, as the gate's deque of tickets has, maps to it
without being filtered.  Both limiters and `FederatedRun`'s gate are shown to
implement `FifoSlots!FairSpec` by TLC, and `FifoSlots!Spec` by proof.

### AdmissionGate

A ticket is named by its query.  Giving up takes two steps, as in the code:
`wait_for` first cancels the wrapped future in the event loop, without the
gate's lock (`StopWaiting`), and only then does the handler call `withdraw`
(`Withdraw`).  A release in between meets a cancelled ticket; one before them
meets a live ticket and grants it.  `CancelCaller` leaves the work running under
`asyncio.shield`; `AdmittedDone` is the done callback that releases the slot.
Legs and combine are one piece of work that ends.

### ConnectionSlots and ConnectionPool

`turn[t]` is whether thread `t`'s event is set.  A timeout takes two steps:
`Event.wait` returns (`TimeOut`), then the lock is taken and the event looked at
again (`GiveUp`).  `TakeIdle`, `GoOutside`, `Connect`, `ReturnConnection` and
`DiscardConnection` are the bodies of `get_connection` and `connection_slot`;
any of them may meet a failing driver.  Idle connections are alike, so the queue
is a number.  One data source is modelled; pools of different sources share
nothing.  `close_all_pools`, which runs at shutdown, is left out.

`OpenBounded` is about the pool's own connections, where an idle connection
holds no slot.  A `connection_slot` block opens one more outside the pool, so
connections open *including idle ones and outside ones* can exceed
`MAX_CONNECTIONS`; the documentation bounds only connections in use, and
`SlotsExact` checks that.

### ResultCache

A row of `cache_entries` is live, expired or absent; `files[k]` is the payload
under the path of key `k`, as the versions of the tables it was read from.
`cursor` is the result pending on the one DuckDB connection: `_exec` runs a
SELECT under the lock (`Select`) and the caller fetches after the lock is let go
(`Fetch`).  `doomed[p]` holds the files that process `p` has yet to unlink after
the transaction that deleted their rows.

Which steps may interleave depends on the event loop.  A coroutine has its loop
to itself between two awaits that wait (`Holding`): the lookup up to the read of
the payload in a worker thread, an eviction with its unlink, and `set` from the
file to the row, which awaits nothing.  Queries in `OnLoop` and all maintenance
share the API's loop; any other query stands for a Flight thread, which runs
`get` and `set` on a loop of its own (`drivers/.../server_execution.py`).

| Action | Code |
|---|---|
| `Ask` | `execute_query_with_cache` up to `cache.get`, for a query that may be cached |
| `Select`, `Fetch`, `Read`, `Hit` | `get`: metadata row, payload in a worker thread, dependencies |
| `Evict`, `Unlink` | `_evict` of an expired row or one whose file is gone |
| `Execute` | the query runs, in a thread, and may fail |
| `Write`, `Commit`, `Undo` | `set`: file, then row, either of which may fail |
| `Heartbeat`, `SweepTtl`, `DropSome` | `post_heartbeat` with `invalidate_table`; `_sweep_ttl`; `_sweep_capacity`, `clear` and `delete_datasource` |

Left out: when an entry expires (any time, here), hit counters, `warmup`, an
unlink that the disk refuses (the code logs it and leaves the file).  Any
transaction may fail.  One of a sweep or clear that does is `DropSome` of no row; in
`Heartbeat` it is a disjunct of its own, for the endpoint then goes on, records the
heartbeat and answers as usual, with the rows where they were.

`set` writes a temporary file and renames it in one step, and a transaction is one
step.  Both are right on one loop.  Two loops that store one key share the
temporary file's name, and a failed transaction is rolled back after the lock is
let go, so that it can end another loop's; both are listed as hazards.  For the
same reason `NoOrphanFiles`, run and proved on one loop, says nothing of a Flight
thread that stores between a row's deletion and the unlink of its file.

`beat[t]` is the refresh of `t` that a heartbeat last invalidated for; a payload's
`since` is `beat` when its file was written, and `asked[q]` what it was when `q`
asked.  All three are history, for `InvalidatedNotServed`.  That property does
not follow from the transaction's being atomic: an invalidation finds files through
rows, so it would miss what a store with an await between its file and its row is
about to name, and that would be served afterwards.

### CompilationCache

A step is one section under the cache's lock (`Lookup`, `Store`, `Clear`,
`Stats`), one reading of a zone (`Consult`, `ReadZone`), one probe of a source
(`StartProbe`, `EndProbe`, `ProbeFails`) or one of the two assignments with which
`_remember_timezone` makes a zone known and counts the epoch (`RememberZone`,
`AnnounceZone`).  `Load` and `Collect` stand for CPython: a model gets an id that
may have belonged to one that is gone, and its weak reference queues its token
when it goes.  A callback that runs inside a locked section commutes with the
rest of it, since the model collected takes no part in it; `_tz_epoch += 1` calls
nothing and is one step.  The size of a plan is its query's, one more for each
source it converts from, so that entries of one query differ in size; the bytes
of several plans are the number of elements of `BytesOf`.  `older[k]` is the
order of the dictionary `_entries`, as the keys before each key.  `_evict_to_budget`
pops from the old end while a budget is exceeded; so a key goes if, with all
before it gone, one still is (`Fit`).  A plan is
the model, the query and the zones it was compiled with: `HitIsCurrent` compares
that with what the looking-up thread would get.

### FederatedRun

`gate` and each `conn[s]` are a set of holders and a line, as in `FifoSlots`;
`AdmissionGate` and `ConnectionPool` show that the code's limiters are that.
`pool` is the queue of the executor, whose threads take legs and combine steps in
order.  `stage[q]` follows `run_legs` and `run_admitted`; a query whose fact leg
is injected with keys runs the other legs first.  `at[t]` is how far a leg or a
combine step is: `queued`, `running` on a thread (with or without its
connection), `spilling`, and how it ended.

| Action | Code |
|---|---|
| `Request`, `GiveUp`, `Start` | the gate's ticket, its timeout, the choice between memory and a `QuerySpill` |
| `Hit`, `HitRefused`, `Submit` | a leg answered from the result cache, or given to the pool |
| `TakeLeg`, `TimeOut`, `DriverFails` | a thread takes the leg and asks its source for a connection |
| `HoldBatch`, `TooLarge`, `StartSpill`, `Reserve`, `WriteBatch`, `DiskFull`, `NoRoom` | `LegSink` and `QuerySpill.reserve` for each batch |
| `EndStream`, `ResultRefused` | the end of the stream; normalizing what was read may refuse it |
| `Inject`, `Fail`, `SubmitCombine`, `TakeCombine`, `EndCombine`, `Close` | after a gather: keys, the first failure once all legs have ended, the combine step, and the spill given back |
| `AdmittedDone` | the done callback that releases the slot |
| `OtherEnters`, `OtherLeaves` | any other user of a source |

A caller that is cancelled after admission changes nothing (`asyncio.shield`).
With two queries and two slots the gate's line stays empty in the run: the line
is the subject of `AdmissionGate`, and `SlotsComeBack` is the other half, that
every holder gives its slot up under the fairness of threads alone.  The proof of
`GateIsFifoSlots` is for any number of queries and slots, so with a line.
`OnDisk` is the set of batches the queries have written, one by one.

### PgExtended

A statement is an object with an identity: a portal keeps the one it was bound
to when Parse gives the name to another.  A reply is an error, a command's
completion or rows with one column description (type and format).  Queries are
answered with any reply at any run, so what Parse, Bind and Describe fetch may
differ.  `told` and `reads` are the client's: what it was last told of a
statement, and what it reads a portal's rows by, which is the description it got
with them or for the portal, else the one it held of the statement when it bound
it.  `Refuse` is any message that ends in an error, `Ready` a Sync or a simple
query, `Disconnect` a new connection.  Statements of other kinds than
queries are those that are not run early and have no description.

### JoinPlan

A compile goes through the phases in order: `Ask` (the objects a query's
measures, dimensions and WHERE read), `SelectBase` (`_choose_base_object`,
`_reanchor_if_unreachable`, detection of independent facts), `JoinRequired`
(`find_join_path` over all objects read, ambiguous roles and unreachable objects),
`ResolveFilter` (`resolve_filter_object`), and then `DetectReplication` for a star
or `PlanUnion` for a union of legs.  Errors of resolution are collected and
raised together, as in the code.  Distances, descendants, roots and role
candidates are operators over the edges, translated from `JoinGraph`; names are
numbers, so ties break as in the code.  Only models the validator lets through
are considered (`Acyclic`, no `Multipath`).

`StarJoins` and `LegJoins` are the joins the SQL of a plan has in the end: a star
joins the side of each step that is not joined yet, a leg the declared target.
What a plan does to rows is defined from these joins alone (`Repeated`): a row is
repeated if some emitted join has a many side away from it.  `SumsWhole` then says
that every sum over repeated rows is deduplicated or announced, or that the query
was refused, *except*

* over a many-to-many join that a leg crosses, or that a star crosses beyond the
  measure's own object: there the code has no check;
* where joins are walked backwards.  A one-to-one join may be, and replication is
  not handed on by such a step.  In a star this is told by `LosesReplication`
  (a repeated object is left backwards, or a backward step is missing from the
  plan), in a leg by any backward step.

`ReadsAreJoined` names what lies behind a backward step too
(`BehindBackwardStep`), and lets a union leave its filter out where resolution
walked a join backwards.  All of these are described below.  `walked` is a history
variable: the steps of all paths resolution found, planned or not.

A measure is a SUM over one object.  Left out: measures over several objects,
objects nested in others, secondary joins and `via`, anchored measures, raw and
dimension-only queries, static filters, ROLLUP / CUBE, and the extra leg for
parents without children.

## The runs

| Run | Instance | What it shows |
|---|---|---|
| `shared_models` | 3 threads, 2 stores, 2 contents, 1 private id, cap 2 | Counts exact (`RefcountExact`), dictionaries agree (`LabelsAgree`), dedup index sound, cap respected |
| `admission_gate` | 4 queries, 2 slots | Slots exact, work under a slot, no idle slot, refinement of `FifoSlots` with fairness, every waiter served |
| `connection_pool` | 4 threads, 2 slots, pool of 1 | Slots exact, pool within the limit, refinement with fairness, every waiter served |
| `sessions` | 1 user, 1 named and the default session, 1 caller and the cleaner, TTL 1, maximum age 2, wait 1 | Sessions dropped only when unused or too old, protected ones never, all others end |
| `result_cache` | 2 queries on the loop, 2 keys, 2 tables, one refresh of each | A hit is the caller's own, no orphaned file, no payload stored before an invalidation is served to a query asked after it (`InvalidatedNotServed`) |
| `compilation_cache` | 2 threads, 2 models, 2 ids, 3 queries, 2 sources, 2 entries, 4 bytes, 3 per entry | A hit is current, entries of collected models leave, the byte count and both budgets are exact |
| `federated_run` | 2 queries of 2 legs, 2 sources with one connection each, another user of one, 2 leg threads, spilling from the second batch | Spill counted exactly, no work without its query's slot, connections exact, every slot comes back |
| `pg_extended` | 1 name, 2 portals, 2 statements, 2 column types in 2 formats | Rows fit what the client holds, no description with them for one that holds one, no rows behind an error |
| `join_plan` | all models of 3 objects, squares of 4 and a detour of 6 (530 after validation), every query of one or two measures, at most one dimension and one filter on objects 1 to 4 | Sums whole, reads joined, a common root suffices |
| `join_plan_legs` | as `join_plan` | violated: see below |
| `result_cache_threads` | one query on the API's loop, one on a Flight thread's | violated: see below |
| `result_cache_heartbeat` | as `result_cache` | violated: see below |

**Why the bounds are enough.**  `shared_models`: a race on one entry needs two
parties and a third to release under them; two stores give a reference that
survives another's removal; two contents with cap 2 and one private id fill a
store in the middle of a parse.  The view `LiveState` drops only locals that are
written again before they are read, and the symmetry sets are those of
constants that no property names.  (Neither is used with a liveness property.)
`admission_gate` and `connection_pool`: two slots and four clients give a line
of two, so that a cancelled or late client can stand in front of a live one,
with a holder left to release.  A pool of one is smaller than the limit, so
returned connections overflow it.  `sessions`: with `TTL < MaxAge` a session can
end by either clock; a wait of one unit is enough for a reading to go stale
across a boundary, and a caller and the cleaner are two parties with such
readings.  `MaxWait` bounds what callers do: nobody waits longer than that for
the lock, and `DroppedOnlyWhenUnused` is stated up to it.  `result_cache`: two
keys, one of which joins a second table, tell an invalidation by one table from
one by both; two queries race on one key or on two.  `MaxVersion` bounds the
refreshes: one per table makes rows old or new, and no property tells more.
`compilation_cache`: a stale entry needs a thread that compiles while another
makes a zone known or a model goes and its id returns, so two of each; four bytes
hold two plans but not two large ones, and one plan is over the entry limit.
`federated_run`: two queries of two legs are four tasks for two threads and two
connections, so tasks of one query stand before those of the other in the pool
while they wait for each other's connections; a budget of four for the process
and three for a query makes either run out first.  `pg_extended`: portals and
statements meet only where a name is bound, and two of each have every case of
that.  `join_plan`: three objects have every pattern of two joins in a row and of
two facts with a shared dimension; the square is the smallest model in which two
routes of one length compete without the validator refusing it, and has its
many-to-many join on one side only.  Queries of two measures, one dimension and
one filter name every object of a square.  The detour of six objects is the
smallest model found in which a walk through a one-to-one join backwards is
shorter than the forward joins to the same object, so that a repeated object is
left backwards: without it `LosesReplication` would not be needed.

**Deadlock** is checked in every run but `shared_models`, where it is off
because the system may really stop: each store is created once, used and closed,
and when all are closed and the threads idle nothing is left to do.

**Fairness.**  A thread that is not blocked goes on, a driver call returns or
fails, the event loop runs callbacks that are ready: weak fairness on those
steps.  No fairness is put on anything a client chooses: arriving, timing out,
giving up, being cancelled.  Liveness therefore does not rest on timeouts.  In
`FederatedRun` a leg that has its connection ends or fails, the event loop goes
on with a query whose legs have ended, and other users of a source leave it; no
fairness is put on timeouts, and none chooses between outcomes.  In
`SessionManager`, `Tick` has strong fairness: a caller at its longest wait stops
time until it returns, so a steady stream of callers can disable `Tick` again
and again without real time ever stopping.

### Where the code and its words part

* `result_cache_threads` - a comment in `file.py` rests on the metadata connection
  being "touched only on the event loop".  Flight threads use the same cache on
  their own loops, and `_exec` lets the lock go before the row is fetched, so a
  lookup may fetch the row another one selected, and serve its rows.
* `result_cache_heartbeat` - "a heartbeat from the warehouse invalidates every
  cached query that depends on that table".  One whose transaction succeeds sees to
  what is stored so far (`InvalidatedNotServed`, proved for one event loop); a query
  that ran before it and ends after it stores old rows, which are served until the
  TTL computed before it ran.
* `join_plan_legs` - fanout is not checked in a multi-fact query, because "the
  per-leg equivalent lives in the CFL planner" (`compiler/pipeline.py:321`).  There
  is none: `_validate_fanout` (`compiler/cfl.py:284`) looks at nothing but unknown
  objects, and a leg's own joins are only searched for what they replicate
  forwards.  A sum on an object with a filter or dimension on one joined to it
  many-to-many is refused alone; beside a measure of an unrelated object it is
  planned, and counts each row once per match.

### Also seen

Disagreements met while modelling that no run states.

* *Sessions.*  `model_cache.py:13` promises that the cache "only ever holds models
  that at least one live session is using".  `close` leaves no mark on the store
  (`model_store.py:991`): a thread that got the store before may load into it
  afterwards, and the reference is held by a store nobody will close again.
  `RefcountExact` holds: the count is right, its holder is dead.  And in
  single-model mode the default session, "kept alive and excluded from purge"
  (`session_manager.py:89`), is dropped by an access past its TTL or maximum age.
* *Heartbeats.*  `invalidate_table` may fail: it logs, rolls back and returns 0
  (`cache/file.py:422`), and `post_heartbeat` (`api/routers/heartbeat.py:109`)
  records the heartbeat and answers 200 with no entry invalidated, as for a table
  nothing depends on.  The entries stay until their TTL ends, where
  `docs/api/endpoints.md:1630` says "The cache invalidates every entry whose dependency
  set includes that table" and names no such answer.
* *Flight threads in the result cache.*  Besides `result_cache_threads`: a `set` on a
  loop of its own has a moment between file and row in which an invalidation on the
  API's loop finds no row.  The row then comes after it, over a file from before: the
  trace with which the mutant `HoldingNotInStore` breaks `InvalidatedNotServed`.  And
  the ROLLBACK of a failed transaction runs outside the lock (`cache/file.py:343`, `:425`).
* *Model ids.*  `_adopt_shared` decides by id, a 64-bit prefix of the content hash,
  so that a second content with the same prefix would be answered with the first.
  Of no practical weight; it is why the proofs assume `LabelsDistinct`.
* *Stars.*  A many-to-many join two hops out (Orders to Customers many-to-one,
  Customers to Topics many-to-many) is neither refused, since the check looks only
  at joins that leave the measure's own object, nor deduplicated; "many-to-many
  always causes fanout" (`tests/unit/test_fanout.py:301`).  `SumsWhole` names this.
* *Joins walked backwards.*  A step keeps its declared sides, and three places take
  the declared target for the side it brings.  `resolution.py:1701` counts only
  `to_object` as joined, so a query that needs a one-to-one join backwards is
  refused as unreachable although `find_join_path` joined it.
  `filter_resolution.py:307` skips such a step to a filter's object, and a leg
  (`cfl.py:769`) skips it on its way to anything: the SQL then reads an object its
  FROM does not have.  The squares reach both; `ReadsAreJoined` and
  `CommonRootSuffices` name them.
* *Replication behind a join walked backwards.*  `replicated_objects` skips reversed
  steps, as "those are the classic fanout that `detect_fanout` already rejects"
  (`grain_dedup.py:180` ff.).  A one-to-one join walked backwards is no fanout and is
  not rejected, and it hands replication on: "anything joined beyond an
  already-replicated object is replicated too".  With 1 to 2 many-to-one, 3 to 2 and
  3 to 4 one-to-one, and 1 to 5 to 6 to 3 many-to-one, a sum on 4 by a dimension of 1
  goes 1, 2, 3, 4 and counts each row of 4 once per row of 1, with neither
  deduplication nor warning.  `SumsWhole` names this (`LosesReplication`); without
  that exception the run `join_plan` finds this model.
* *A union's filter behind a join walked backwards.*  Resolution may reach the
  object of a filter through a one-to-one join backwards, which the families of
  the legs do not count.  Then no leg has the filter, and the union runs unfiltered
  with a warning (`cfl.py:372`, `cfl.py:824`), where resolution refuses a filter it
  cannot reach because "applying the query without it would return rows the filter
  excludes".  With 5 to 4 and 4 to 3 many-to-one and 5 to 1 one-to-one: measures on 1,
  2 and 3, a dimension on 2 and a filter on 4.  `ReadsAreJoined` names this.
* *Two joins between two objects.*  `validate_deterministic` (`graph.py:711`) is
  called by nothing, and the undirected graph keeps one edge for a pair, the last.
  The model has at most one join between two objects (`JoinPlanAssumption`).
* *Re-anchoring.*  With measures on several objects and a filter the chosen base
  cannot reach, the query is re-based on a root that reaches all, also where the
  legs of a union would have applied the filter.
* *Time zones.*  A source is marked as detected before its probe is answered
  (`db_executor.py:608`), so a query compiled meanwhile goes without conversion,
  although the docstring says that later calls return the cached result.  The
  epoch keeps such a plan from being served later (`HitIsCurrent`).
* *Prepared statements.*  One without parameters is run at Parse, and every later
  Bind and Execute replays those rows.  A portal bound before another portal's
  Describe changed what the statement is described as keeps what its own Bind
  found: `PgExtended` has the client read by what it held at Bind.  A portal that was
  never described and is executed twice sends its RowDescription twice, since
  `execute` does not note that it has described it (`pgwire/extended.py:462`).  The
  model has the client read by descriptions it asked for, so `DescribedOnce` does not
  count the first as held.  A timeout in an extended message drops the connection,
  where a simple query gets an error.
* *TTL anchors* (`cache/ttl.py`).  The seconds to an anchor are counted in
  wall-clock time: across a change of the clocks they are an hour off, and an
  interval that does not divide the day may pass an anchor, against
  `docs/guide/freshness-contracts.md:45`.

## The proofs

All hold for every value of the constants that satisfies the modules'
assumptions (finite sets, natural limits, distinct sentinels).

**SharedModelsProofs.**  `TypeCorrect` is inductive by itself.  The count of an
entry changes in one place and the holders in others, so `RefcountExact` is not:
`RefInv` adds `TodoShape` (a thread owes releases only while it is at its release
step) and `LabelsAgree` (`release` goes by id, so an id must lead to the
entry it was taken from).  Every step then does one of four things, each a
lemma: nothing to references (`QuietKeeps`), takes one (`TakeKeeps`), moves one
between a thread and a store (`HandOverKeeps`, `TakeOverKeeps`), or gives one
back (`ReleaseKeeps`).  `RefcountsAreExact` and `LabelsAlwaysAgree` follow, under the hypothesis `LabelsDistinct`.
`CapacityIsRespected` and `IndexIsSound` rest on `StoreSteps`, which classifies
what a step can do to a store, and need no hypothesis on labels.

**ConnectionPoolProofs.**  `TypeOK`, `SlotsExact` and `LineSound` are inductive
together: a hand-over removes a thread from the line, sets its event and leaves
`in_use` alone, and only with the line being exactly the threads whose event is
not set does the number of holders stay the same.  `OpenBounded` follows from
`SlotsExact`.  `ImplementsFifoSlots` is the safety part of the refinement,
`Spec => Slots!Spec`: a step of the slots is a step of `FifoSlots` by the client
it is about, or none.

**AdmissionGateProofs.**  `TypeOK`, `SlotsExact`, `WorkHoldsSlot` and
`NoIdleSlot`, strengthened by `TicketFits`, which ties a query's ticket to its
place in `run_legs`.  `ImplementsFifoSlots` is the refinement again.  Here
the abstract client gives up when its ticket is cancelled in the event loop, with
the ticket still in the deque.  `Withdraw`, and a release that drops cancelled
tickets (`Behind`: those in front of the first live one), then change nothing the
abstract limiter sees; and a release serves the first that waits there,
although it is not the first in the deque.

**SessionManagerProofs.**  `TypeCorrect`, `OnlyTheUnusedGo` and `TheProtectedStay`,
the latter two about steps.  A session is dropped by its own clock, which a
caller with an old reading may set back; the inductive invariant `IdleBounded`
says by how much: `idle[s] <= unused[s] + MaxWait`.  With an expiry read at most
`MaxWait` ago, that is the bound of `DroppedOnlyWhenUnused`.

**ResultCacheProofs.**  `TypeCorrect` holds for queries on any loops; `KeysKnown` adds that a query under way has a key and that only a
query at its unlink has a file to unlink.  The other three are for `OnLoop = Queries`, the hypothesis `result_cache_threads` shows to be needed:
`LoopHeld` says that one coroutine at a time is between two waits, with no
maintenance half done, so that (`OwnRow`) the pending row is that of the one
lookup under way.  `InvalidatedPayloadsNotServed` adds what a payload owes to the
invalidations: a file not about to be unlinked was written after all of those of
its tables (`FilesPostdate`), the file of a query's key after those before the query,
also if it is about to go (`FilesServe`), and no query was asked after an
invalidation yet to come (`Ordered`).  It needs `NoOrphanFiles`: an invalidation finds
files through rows, and does its work because no store is between the two then.

**CompilerProofs**, the cache.  `TypesHold`, `RetiredEntriesLeave` and
`HitsAreCurrent`.  The invariant follows a token through its life: a live model
has at most one, no two ever share one although ids are reused (`TokensInv`,
`RefsInv`), an entry's token is its model's (`EntriesOwn`), the tokens threads
hold while they compile are their models' (`ThreadTokens`), and the
epoch counts a zone only once it is known (`ProbesInv`, `ZonesInv`).  Then a
key that is looked up at the present epoch leads to a plan with every zone a
compile would find.  `BudgetIsExact` is apart from that, by `Budgets`: bytes are
added and taken as parts of a set (`BytesAdd`); and what an eviction leaves is
within both budgets, for its least recently used key (`LeastRecent`, which exists
as the strict subsets of a finite set are well founded) was not due to go with
only older ones gone, and fewer entries have fewer bytes (`FewerBytes`).

**CompilerProofs**, the joins.  `PlanTypesHold`, `SumsAreWhole`,
`ReadsAreAlwaysJoined` and `CommonRootAlwaysSuffices` state the four invariants of
`join_plan` for any number of objects, any set of models with at most one join
between two objects, and any queries with at most one filter object.  The argument
has four layers.

1. *Folds.*  The model computes layers of a graph, paths, marks and emitted joins by
   recursive functions on `0..n`.  `Recursion` shows that there is a function on `0..n`
   whose value at `k` follows from the one at `k - 1` (`Computed`), by a
   least counterexample; `WithinIs`, `MarkedIs`, `StarJoinsIs` and the like show that
   each of the model's folds is one; and `UpTo` carries a fact along `0..n`.  The set a
   fact holds on is a bound variable there, not an operator parameter, so that no
   theorem of the library with such a parameter is needed.
2. *Graphs.*  `Family(E, a)` is the least set with `a` that is closed under `E`
   (`FamilyIs`), since each of its `N` layers adds an object or is the last one
   needed; shortest paths are walks of `Hops` joins (`ShortestPathIs`); a common root
   reaches everything if any object does (`CommonRootIs`).
3. *Paths.*  `JoinPathIs`: what `find_join_path` returns grows from the sources, each
   step from an object already touched over a join of the model that is never a
   many-to-one join backwards, and touches every target that can be reached.  So each
   object touched is the declared target of a step, or lies behind a step walked
   backwards (`TouchedIsReached`), and without such steps it is in the directed family
   of a source (`ForwardReach`).  The filter's path keeps the plan growing unless a
   step walked backwards is left out (`FilterGrows`).
4. *Plans.*  A plan that grows is emitted as a tree (`StarEmits`, `LegEmits`).
   `BeyondIsReplicated` is the heart of `SumsAreWhole`: cut a many-to-one join out of
   the tree; the part with its one side is, at every stage of emission, joined and
   marked, because the mark is handed on by each join that leaves it forwards.  So an
   object there is in `Replicated`, and its measures are deduplicated.

`PlanInv` (`PlanInvariance`) ties these to the phases.  Resolution leaves a plan that
grows from the base, or has lost a step walked backwards (`PathKept`), what it takes
for joined is the base and the declared targets, and what is required is among it
in a star; the filter's object is joined, or in the family of some measure
(`FilterKept`); one fact that some object covers is based on an object that covers it,
so that it is neither a union nor, but for backward steps, refused as unreachable
(`OneFactKept`); a leg grows from its lead and touches all it reads (`SoundLeg`).
Each phase keeps it by a lemma of its own (`AskKeeps` to `ReturnPlanKeeps`).  It was
first checked by TLC as an invariant of `join_plan`'s instance.

**FederatedRunProofs.**  `TypesHold`, `SlotsCoverWork` and
`ConnectionsHeldExactly`, inductive together: tasks are queued or at work only in
the stages of their query that wait for them (`WorkInv`), the pool's queue names
each queued task once (`PoolInv`), lines and holders of a source are the legs on
threads that have or await a connection (`ConnInv`), and those are no more than
the threads (`ThreadInv`).  `SpillIsExact` is inductive beside them: a batch is
reserved with room in both budgets and adds one to `OnDisk` (`Reserved`), and a
query that closes takes out what it wrote (`Closed`).  `GateIsFifoSlots` maps the
gate to `FifoSlots`, whose clients the queries are.

**PgExtendedProofs.**  `TypesHold`, `RowsAreNeverMisread`, `RowsAreDescribedOnce`
and `ErrorsHoldRowsBack`, from what each portal's flags say of the description its
client holds (`DescribedInv`, `PortalInv`).

The three modules with waiting lines start with the same lemmas about them:
appending, taking the head and removing one place keep a line free of duplicates,
change its members by one, and leave the order of the rest alone.

Every invariant and every safety property of steps that a passing run checks is
proved.  Some listed theorems are about facts the runs leave to the proofs:
`TypeCorrect` of `SharedModelsProofs` and of `ConnectionPoolProofs`,
`LineIsSound`, `PlanInvariance` and the safety halves of the refinements.

**Only model-checked**, as the provers cannot reach it: liveness, and the fair half
of the refinements (`EveryQueryServed`, `EveryThreadServed`, `EverySessionEnds`,
`ServesInOrder` and `SlotsComeBack` beyond the safety that `ImplementsFifoSlots` and
`GateIsFifoSlots` prove), which need `ENABLED`.

The theorems on `JoinPlan` do not say that its shortest path, common root or tie
breaks are the code's: that is the translation's to get right, and its runs show
what follows from the choices on every model of three objects.  The proofs
need of a choice only that it is among the candidates.

## Not modelled, and the plan

1. `EffectiveTtl`: the TTL of a query from the contracts of its tables, as an
   operator over a clock that changes, against a reference definition.
2. `FlightTickets`: pending tickets and prepared statements, with retries.
3. The pgwire catalog's shared connection: probes that rebuild its schemas and
   execute in a second step.
4. `ResultCache`, further: the temporary file, its rename and the statements of a
   transaction for several loops, and what still holds with Flight threads.
5. `JoinPlan`, further: measures over several objects, `via` and secondary joins,
   static filters, the leg for parents without children, the split of a plan over
   data sources (`compiler/federation.py`).
6. Proofs: what `FifoSlots` itself promises of its order, to carry over to the
   three that implement it.

Dialects, the REST routers, CLI, UI, ontology export, authentication and the
drivers have no state machine to model; `PROJECT.json` gives the reason for each.
