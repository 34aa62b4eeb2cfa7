---------------------------- MODULE FederatedRun ----------------------------
(***************************************************************************)
(* One process's federated queries from request to release:                *)
(* execute_federated_with_cache (api/query_cache.py) with the leg threads, *)
(* LegSink and QuerySpill of service/federated_executor.py.                *)
(*                                                                         *)
(* It composes the two limiters, each as FifoSlots describes it: the       *)
(* admission gate, held by a query for its whole run, and the connection   *)
(* slots of each source, held by a leg while it streams.  In between lies  *)
(* the thread pool that legs and combine steps of all queries share, and   *)
(* beside them the process-wide budget of spilled bytes.                   *)
(*                                                                         *)
(* A caller that is cancelled once its query is admitted changes nothing   *)
(* here: asyncio.shield keeps the work going.  Batches are of one size,    *)
(* the unit of every limit.                                                *)
(***************************************************************************)
EXTENDS Integers, Sequences, FiniteSets, SequencesExt

CONSTANTS
    Queries,
    Legs,
    Fact,            \* the leg that may read the others' keys
    Sources,
    Source,          \* the data source of each leg
    Others,          \* users of the sources outside federated queries
    Uses,            \* the data source of each of them
    MaxConcurrent,   \* FEDERATION_MAX_CONCURRENT
    LegThreads,      \* FEDERATION_LEG_THREADS
    MaxConnections,  \* MAX_CONNECTIONS of each source, 0 for none
    Threshold,       \* spill_threshold_bytes
    MaxLeg,          \* max_leg_bytes
    SpillMax,        \* spill_max_bytes, of one query
    SpillBudget,     \* spill_budget_bytes, of the process
    Combine          \* the combine step, a task of the pool like a leg

ASSUME FederatedRunAssumption ==
    /\ IsFiniteSet(Queries) /\ IsFiniteSet(Legs)
    /\ Fact \in Legs /\ Combine \notin Legs
    /\ Source \in [Legs -> Sources]
    /\ MaxConcurrent \in Nat /\ LegThreads \in Nat
    /\ MaxConnections \in [Sources -> Nat]
    /\ Threshold \in Nat /\ MaxLeg \in Nat
    /\ SpillMax \in Nat /\ SpillBudget \in Nat
    /\ Others \cap (Queries \X Legs) = {} /\ Uses \in [Others -> Sources]

LegTasks == Queries \X Legs
Tasks == Queries \X (Legs \cup {Combine})

VARIABLES
    gate,      \* the admission gate: its holders and its line
    conn,      \* the same for each source's connection slots
    pool,      \* the thread pool's queue
    stage,     \* how far each query's run_legs is
    keyed,     \* the legs whose keys its fact leg waits for
    at,        \* how far each leg and combine step is
    held,      \* batches a leg holds that are not on disk
    written,   \* _written of each query's QuerySpill
    spilled,   \* _spilled_bytes
    spillDir   \* FEDERATION_SPILL_DIR is set

spillVars == <<held, written, spilled>>
vars == <<gate, conn, pool, stage, keyed, at, spillVars, spillDir>>

Slots(clients) == [holders : SUBSET clients, line : Seq(clients)]

TypeOK ==
    /\ gate \in Slots(Queries)
    /\ conn \in [Sources -> Slots(LegTasks \cup Others)]
    /\ pool \in Seq(Tasks)
    /\ stage \in [Queries -> {"idle", "waiting", "first", "rest",
                              "combine", "closing", "ended"}]
    /\ keyed \in [Queries -> SUBSET (Legs \ {Fact})]
    /\ at \in [Tasks -> {"none", "asked", "queued", "running", "spilling",
                         "done", "failed"}]
    /\ held \in [LegTasks -> Nat]
    /\ written \in [Queries -> Nat]
    /\ spilled \in Int
    /\ spillDir \in BOOLEAN

NoSlots == [holders |-> {}, line |-> <<>>]

Init ==
    /\ gate = NoSlots
    /\ conn = [s \in Sources |-> NoSlots]
    /\ pool = <<>>
    /\ stage = [q \in Queries |-> "idle"]
    /\ keyed = [q \in Queries |-> {}]
    /\ at = [t \in Tasks |-> "none"]
    /\ held = [t \in LegTasks |-> 0]
    /\ written = [q \in Queries |-> 0]
    /\ spilled = 0
    /\ spillDir \in BOOLEAN

-----------------------------------------------------------------------------
(* A limiter, as FifoSlots: entered by c, left by c, given up by c         *)

Entered(slots, c, limit) ==
    IF limit = 0 \/ (Cardinality(slots.holders) < limit /\ slots.line = <<>>)
    THEN [slots EXCEPT !.holders = @ \cup {c}]
    ELSE [slots EXCEPT !.line = Append(@, c)]

Left(slots, c) ==
    IF slots.line = <<>>
    THEN [slots EXCEPT !.holders = @ \ {c}]
    ELSE [holders |-> (slots.holders \ {c}) \cup {Head(slots.line)},
          line |-> Tail(slots.line)]

GaveUp(slots, c) ==
    [slots EXCEPT !.line = RemoveAt(@, CHOOSE k \in 1..Len(@) : @[k] = c)]

InLine(slots, c) == \E k \in 1..Len(slots.line) : slots.line[k] = c

GateLimit == IF MaxConcurrent > 1 THEN MaxConcurrent ELSE 1
Threads == IF LegThreads > 1 THEN LegThreads ELSE 1

SourceOf(t) == Source[t[2]]
Holding(t) == t \in conn[SourceOf(t)].holders

\* A leg's thread gives its connection back.
Disconnect(t) == conn' = [conn EXCEPT ![SourceOf(t)] = Left(@, t)]

GoTo(q, step) == stage' = [stage EXCEPT ![q] = step]
Move(t, step) == at' = [at EXCEPT ![t] = step]
LetGo(t) == held' = [held EXCEPT ![t] = 0]
Ask(q, legs) ==
    at' = [t \in Tasks |-> IF t \in {q} \X legs THEN "asked" ELSE at[t]]

-----------------------------------------------------------------------------
(* The query's task, on the event loop                                     *)

Request(q) ==
    /\ stage[q] = "idle"
    /\ GoTo(q, "waiting")
    /\ gate' = Entered(gate, q, GateLimit)
    /\ UNCHANGED <<conn, pool, keyed, at, spillVars, spillDir>>

\* The wait times out or the caller is cancelled; AdmissionGate has the race
\* with a grant in detail.
GiveUp(q) ==
    /\ stage[q] = "waiting"
    /\ GoTo(q, "idle")
    /\ gate' = IF q \in gate.holders THEN Left(gate, q) ELSE GaveUp(gate, q)
    /\ UNCHANGED <<conn, pool, keyed, at, spillVars, spillDir>>

\* Mutant: the fact leg may be one of those it waits for.
StartWithAny(q) ==
    /\ stage[q] = "waiting" /\ q \in gate.holders
    /\ \E legs \in SUBSET Legs :
          /\ keyed' = [keyed EXCEPT ![q] = legs]
          /\ GoTo(q, IF legs = {} THEN "rest" ELSE "first")
          /\ Ask(q, IF legs = {} THEN Legs ELSE legs)
    /\ UNCHANGED <<gate, conn, pool, spillVars, spillDir>>

\* run_admitted and run_spilling up to the first gather: the fact leg may
\* have to wait for legs whose keys it reads.
Start(q) ==
    /\ stage[q] = "waiting" /\ q \in gate.holders
    /\ \E legs \in SUBSET (Legs \ {Fact}) :
          /\ keyed' = [keyed EXCEPT ![q] = legs]
          /\ GoTo(q, IF legs = {} THEN "rest" ELSE "first")
          /\ Ask(q, IF legs = {} THEN Legs ELSE legs)
    /\ UNCHANGED <<gate, conn, pool, spillVars, spillDir>>

\* The query's spill directory cannot be made.
SpillDirFails(q) ==
    /\ stage[q] = "waiting" /\ q \in gate.holders
    /\ spillDir
    /\ GoTo(q, "ended")
    /\ UNCHANGED <<gate, conn, pool, keyed, at, spillVars, spillDir>>

\* run_leg: the leg is in the cache.
Hit(t) ==
    /\ at[t] = "asked"
    /\ Move(t, "done")
    /\ UNCHANGED <<gate, conn, pool, stage, keyed, spillVars, spillDir>>

\* It is, and is too large or of a type the combine step does not hold.
HitRefused(t) ==
    /\ at[t] = "asked"
    /\ Move(t, "failed")
    /\ UNCHANGED <<gate, conn, pool, stage, keyed, spillVars, spillDir>>

\* It is not: execute_sql is handed to the pool.
Submit(t) ==
    /\ at[t] = "asked"
    /\ Move(t, "queued")
    /\ pool' = Append(pool, t)
    /\ UNCHANGED <<gate, conn, stage, keyed, spillVars, spillDir>>

\* The legs of the gather the query waits for.
Gathered(q) == {q} \X (IF stage[q] = "first" THEN keyed[q] ELSE Legs \ keyed[q])

Ended(t) == at[t] \in {"done", "failed"}

\* Mutant: gather without return_exceptions raises at the first failure.
FailAtOnce(q) ==
    /\ stage[q] \in {"first", "rest"}
    /\ \E t \in Gathered(q) : at[t] = "failed"
    /\ GoTo(q, "closing")
    /\ UNCHANGED <<gate, conn, pool, keyed, at, spillVars, spillDir>>

\* run_at_once: every leg has run to its end before an error is raised.
Fail(q) ==
    /\ stage[q] \in {"first", "rest"}
    /\ \A t \in Gathered(q) : Ended(t)
    /\ \E t \in Gathered(q) : at[t] = "failed"
    /\ GoTo(q, "closing")
    /\ UNCHANGED <<gate, conn, pool, keyed, at, spillVars, spillDir>>

\* injected_fact_leg, and the fact leg with the others that are left.
Inject(q) ==
    /\ stage[q] = "first"
    /\ \A t \in Gathered(q) : at[t] = "done"
    /\ GoTo(q, "rest")
    /\ Ask(q, Legs \ keyed[q])
    /\ UNCHANGED <<gate, conn, pool, keyed, spillVars, spillDir>>

SubmitCombine(q) ==
    /\ stage[q] = "rest"
    /\ \A t \in Gathered(q) : at[t] = "done"
    /\ GoTo(q, "combine")
    /\ Move(<<q, Combine>>, "queued")
    /\ pool' = Append(pool, <<q, Combine>>)
    /\ UNCHANGED <<gate, conn, keyed, spillVars, spillDir>>

\* run_admitted's finally, QuerySpill.close: the files go, and with them the
\* query's share.
Close(q) ==
    /\ stage[q] = "closing"
    /\ GoTo(q, "ended")
    /\ spilled' = spilled - written[q]
    /\ written' = [written EXCEPT ![q] = 0]
    /\ UNCHANGED <<gate, conn, pool, keyed, at, held, spillDir>>

\* _admitted_done.  What the run held is let go.
AdmittedDone(q) ==
    /\ stage[q] = "ended"
    /\ GoTo(q, "idle")
    /\ gate' = Left(gate, q)
    /\ keyed' = [keyed EXCEPT ![q] = {}]
    /\ at' = [t \in Tasks |-> IF t[1] = q THEN "none" ELSE at[t]]
    /\ held' = [t \in LegTasks |-> IF t[1] = q THEN 0 ELSE held[t]]
    /\ UNCHANGED <<conn, pool, written, spilled, spillDir>>

-----------------------------------------------------------------------------
(* The pool's threads                                                      *)

OnThreads == {t \in Tasks : at[t] \in {"running", "spilling"}}
NextTask(t) == pool # <<>> /\ Head(pool) = t /\ Cardinality(OnThreads) < Threads

\* A leg's thread gets a connection slot of its source, or lines up.
TakeLeg(t) ==
    /\ NextTask(t)
    /\ pool' = Tail(pool)
    /\ Move(t, "running")
    /\ conn' = [conn EXCEPT ![SourceOf(t)] = Entered(@, t, MaxConnections[SourceOf(t)])]
    /\ UNCHANGED <<gate, stage, keyed, spillVars, spillDir>>

\* Mutant: the thread goes, its place in the line stays.
TimeOutInLine(t) ==
    /\ at[t] = "running" /\ InLine(conn[SourceOf(t)], t)
    /\ Move(t, "failed")
    /\ UNCHANGED <<gate, conn, pool, stage, keyed, spillVars, spillDir>>

TimeOut(t) ==
    /\ at[t] = "running" /\ InLine(conn[SourceOf(t)], t)
    /\ Move(t, "failed")
    /\ conn' = [conn EXCEPT ![SourceOf(t)] = GaveUp(@, t)]
    /\ UNCHANGED <<gate, pool, stage, keyed, spillVars, spillDir>>

\* The connection cannot be opened, or the driver raises while it streams.
DriverFails(t) ==
    /\ at[t] \in {"running", "spilling"} /\ Holding(t)
    /\ Move(t, "failed")
    /\ Disconnect(t)
    /\ LetGo(t)
    /\ UNCHANGED <<gate, pool, stage, keyed, written, spilled, spillDir>>

SpillsAt(n) == spillDir /\ n > Threshold

\* LegSink: one more batch is held in memory.
HoldBatch(t) ==
    /\ at[t] = "running" /\ Holding(t)
    /\ ~SpillsAt(held[t] + 1) /\ held[t] + 1 <= MaxLeg
    /\ held' = [held EXCEPT ![t] = @ + 1]
    /\ UNCHANGED <<gate, conn, pool, stage, keyed, at, written, spilled, spillDir>>

\* check_leg_bytes.
TooLarge(t) ==
    /\ at[t] = "running" /\ Holding(t)
    /\ ~SpillsAt(held[t] + 1) /\ held[t] + 1 > MaxLeg
    /\ Move(t, "failed")
    /\ Disconnect(t)
    /\ LetGo(t)
    /\ UNCHANGED <<gate, pool, stage, keyed, written, spilled, spillDir>>

\* Past the threshold, what is held and the rest of the stream go to disk.
StartSpill(t) ==
    /\ at[t] = "running" /\ Holding(t)
    /\ SpillsAt(held[t] + 1)
    /\ Move(t, "spilling")
    /\ held' = [held EXCEPT ![t] = @ + 1]
    /\ UNCHANGED <<gate, conn, pool, stage, keyed, written, spilled, spillDir>>

\* reserve, under the query's lock and then the process's.  The batch is one
\* that is held or, once these are written, the next of the stream.
QueryHasRoom(q) == written[q] + 1 <= SpillMax
ProcessHasRoom == spilled + 1 <= SpillBudget
Reserve(q) ==
    /\ written' = [written EXCEPT ![q] = @ + 1]
    /\ spilled' = spilled + 1

WriteBatch(t) ==
    /\ at[t] = "spilling" /\ QueryHasRoom(t[1]) /\ ProcessHasRoom
    /\ Reserve(t[1])
    /\ held' = [held EXCEPT ![t] = IF @ > 0 THEN @ - 1 ELSE 0]
    /\ UNCHANGED <<gate, conn, pool, stage, keyed, at, spillDir>>

\* The batch is reserved, and the disk does not take it.
DiskFull(t) ==
    /\ at[t] = "spilling" /\ QueryHasRoom(t[1]) /\ ProcessHasRoom
    /\ Reserve(t[1])
    /\ Move(t, "failed")
    /\ Disconnect(t)
    /\ LetGo(t)
    /\ UNCHANGED <<gate, pool, stage, keyed, spillDir>>

\* Mutant: the process is charged before the query's own limit is read.
NoRoomButCharged(t) ==
    /\ at[t] = "spilling" /\ ~(QueryHasRoom(t[1]) /\ ProcessHasRoom)
    /\ spilled' = IF ProcessHasRoom THEN spilled + 1 ELSE spilled
    /\ Move(t, "failed")
    /\ Disconnect(t)
    /\ LetGo(t)
    /\ UNCHANGED <<gate, pool, stage, keyed, written, spillDir>>

NoRoom(t) ==
    /\ at[t] = "spilling" /\ ~(QueryHasRoom(t[1]) /\ ProcessHasRoom)
    /\ Move(t, "failed")
    /\ Disconnect(t)
    /\ LetGo(t)
    /\ UNCHANGED <<gate, pool, stage, keyed, written, spilled, spillDir>>

Streamed(t) == at[t] = "running" \/ (at[t] = "spilling" /\ held[t] = 0)

\* Mutant: the connection stays open until the table is read.
StreamStaysOpen(t) ==
    /\ Streamed(t) /\ Holding(t)
    /\ Move(t, "done")
    /\ UNCHANGED <<gate, conn, pool, stage, keyed, spillVars, spillDir>>

\* The stream ends, its table in memory or mapped from the file, and the
\* event loop has it normalized for the combine step.
EndStream(t) ==
    /\ Streamed(t) /\ Holding(t)
    /\ Move(t, "done")
    /\ Disconnect(t)
    /\ UNCHANGED <<gate, pool, stage, keyed, spillVars, spillDir>>

\* check_leg_rows and hold_leg refuse what the leg returned.
ResultRefused(t) ==
    /\ Streamed(t) /\ Holding(t)
    /\ Move(t, "failed")
    /\ Disconnect(t)
    /\ UNCHANGED <<gate, pool, stage, keyed, spillVars, spillDir>>

TakeCombine(q) ==
    /\ NextTask(<<q, Combine>>)
    /\ pool' = Tail(pool)
    /\ Move(<<q, Combine>>, "running")
    /\ UNCHANGED <<gate, conn, stage, keyed, spillVars, spillDir>>

\* combine, well or not.
EndCombine(q) ==
    /\ at[<<q, Combine>>] = "running"
    /\ Move(<<q, Combine>>, "done")
    /\ GoTo(q, "closing")
    /\ UNCHANGED <<gate, conn, pool, keyed, spillVars, spillDir>>

-----------------------------------------------------------------------------
(* The sources' other users                                                *)

OtherEnters(u) ==
    LET s == Uses[u] IN
    /\ u \notin conn[s].holders /\ ~InLine(conn[s], u)
    /\ conn' = [conn EXCEPT ![s] = Entered(@, u, MaxConnections[s])]
    /\ UNCHANGED <<gate, pool, stage, keyed, at, spillVars, spillDir>>

OtherLeaves(u) ==
    LET s == Uses[u] IN
    /\ u \in conn[s].holders
    /\ conn' = [conn EXCEPT ![s] = Left(@, u)]
    /\ UNCHANGED <<gate, pool, stage, keyed, at, spillVars, spillDir>>

-----------------------------------------------------------------------------
OnLoop(q) ==
    \/ Start(q) \/ SpillDirFails(q) \/ Fail(q) \/ Inject(q) \/ SubmitCombine(q)
    \/ Close(q) \/ AdmittedDone(q)

OfLeg(t) ==
    \/ Hit(t) \/ HitRefused(t) \/ Submit(t) \/ TakeLeg(t)
    \/ DriverFails(t) \/ HoldBatch(t) \/ TooLarge(t)
    \/ EndStream(t) \/ ResultRefused(t)
    \/ StartSpill(t) \/ WriteBatch(t) \/ DiskFull(t) \/ NoRoom(t)

OfCombine(q) == TakeCombine(q) \/ EndCombine(q)

Next ==
    \/ \E q \in Queries : Request(q) \/ GiveUp(q) \/ OnLoop(q) \/ OfCombine(q)
    \/ \E t \in LegTasks : OfLeg(t) \/ TimeOut(t)
    \/ \E u \in Others : OtherEnters(u) \/ OtherLeaves(u)

Spec == Init /\ [][Next]_vars

\* The event loop runs what is ready, the pool's threads run, a driver, a
\* disk or DuckDB returns or fails, and a connection taken by others comes
\* back.  Nobody has to time out.
Fairness ==
    /\ \A q \in Queries : WF_vars(OnLoop(q)) /\ WF_vars(OfCombine(q))
    /\ \A t \in LegTasks : WF_vars(OfLeg(t))
    /\ \A u \in Others : WF_vars(OtherLeaves(u))

FairSpec == Spec /\ Fairness

-----------------------------------------------------------------------------
(* Properties                                                              *)

\* The batches on disk, one by one: the n-th that a query wrote.
OnDisk == {batch \in Queries \X (1..SpillMax) : batch[2] <= written[batch[1]]}

\* What the process counts as spilled is what its queries wrote, within
\* their limits and its budget, and a query that has ended has given its
\* share back, whichever leg failed at which batch.  A share that is not
\* given back is lost to every later query until the process restarts.
SpillExact ==
    /\ spilled = Cardinality(OnDisk)
    /\ spilled <= SpillBudget
    /\ \A q \in Queries :
          /\ written[q] <= SpillMax
          /\ stage[q] \in {"idle", "waiting", "ended"} => written[q] = 0

\* Whatever the pool has in its queue or on a thread belongs to a query that
\* still has its slot and whose spill directory is still there: a failed
\* query does not give up its slot while its other legs run.
SlotCoversWork ==
    \A t \in Tasks :
        at[t] \in {"queued", "running", "spilling"} =>
            /\ t[1] \in gate.holders
            /\ stage[t[1]] \in {"first", "rest", "combine"}

\* A leg has a connection slot of its source, or a place in its line, while
\* its thread is at work on it and at no other time, however it ends; and no
\* more legs and combine steps run than there are threads.
ConnectionsExact ==
    /\ \A s \in Sources, t \in LegTasks :
          t \in conn[s].holders \cup ToSet(conn[s].line) <=>
              s = SourceOf(t) /\ at[t] \in {"running", "spilling"}
    /\ Cardinality(OnThreads) <= Threads

\* The gate is the FifoSlots limiter, and what FifoSlots (and AdmissionGate,
\* of the work it admits) assumes of its clients is true of these: each one
\* that has a slot gives it back.  So legs that wait on threads for
\* connections, while legs of other queries hold those and wait for others,
\* never block each other for good, even if no wait ever times out.
Before(q) ==
    {r \in Queries : \E k \in 1..Len(gate.line) : \E j \in 1..(k - 1) :
                        gate.line[j] = r /\ gate.line[k] = q}
Admission ==
    INSTANCE FifoSlots WITH
        Clients <- Queries, Limit <- GateLimit,
        holders <- gate.holders, waiting <- ToSet(gate.line),
        before <- [q \in Queries |-> Before(q)]
SlotsComeBack == Admission!FairSpec
=============================================================================
