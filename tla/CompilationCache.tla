-------------------------- MODULE CompilationCache --------------------------
(***************************************************************************)
(* The compilation cache (service/compilation_cache.py) and what it has to *)
(* watch: the models, which come and go and whose ids are reused, and the  *)
(* session time zones of the data sources (service/db_executor.py), which  *)
(* become known while queries compile.                                     *)
(*                                                                         *)
(* A compilation runs without the cache's lock.  It looks up the zone of   *)
(* each source it reads, and the first to ask probes the source.  A step   *)
(* is one locked section, one zone read, one probe, or one of the two      *)
(* assignments that make a zone known.  A weak-reference callback, which   *)
(* only queues a token, commutes with the rest of a locked section that    *)
(* the collected model takes no part in, so sections are single steps.     *)
(*                                                                         *)
(* The counters of the statistics are left out.  The interpreter does not  *)
(* switch threads inside `_tz_epoch += 1`, which calls nothing.            *)
(***************************************************************************)
EXTENDS Integers, FiniteSets, Functions

CONSTANTS
    Threads,     \* callers of ModelStore.compile_query, and of the sources
    Models,      \* model instances, each loaded once
    Ids,         \* what id() may return, reused once its model is gone
    Queries,     \* queries by their digest, each with its dialect
    Keyless,     \* those with a value that has no typed encoding
    Sources,     \* data sources with no declared zone
    Reads,       \* those whose zone each query's plan converts from
    Length,      \* bytes of each query's plan, one more per converted source
    MaxEntries,  \* 0 disables the cache
    MaxBytes,
    MaxEntryBytes,
    NoModel,
    NoId,
    NoSource

ASSUME CompilationCacheAssumption ==
    /\ Queries # {} /\ Keyless \subseteq Queries
    /\ Reads \in [Queries -> SUBSET Sources]
    /\ Length \in [Queries -> Nat]
    /\ IsFiniteSet(Sources)
    /\ MaxEntries \in Nat /\ MaxBytes \in Nat /\ MaxEntryBytes \in Nat
    /\ NoModel \notin Models /\ NoId \notin Ids /\ NoSource \notin Sources

Keys == [token : Nat, epoch : Nat, query : Queries]
Plans == [model : Models, query : Queries, zones : SUBSET Sources]
Absent == [ref |-> NoModel, token |-> 0]

VARIABLES
    entries,    \* _entries: plans by key
    older,      \* of each key, those used less recently: the dictionary's order
    bytes,      \* _bytes
    tokens,     \* _tokens: a weak reference and a token per id
    nextToken,  \* _next_token
    retired,    \* _retired: ids and tokens of collected models
    address,    \* the id of each live model
    collected,  \* models that are gone
    detected,   \* _DB_TZ_DETECTED
    known,      \* the sources in _DB_SESSION_TZ
    epoch,      \* _tz_epoch
    announced,  \* sources whose zone the epoch has counted (history)
    pc,         \* how far each thread is
    model,      \* the model it holds
    key,        \* the key it looked up; token 0 when it bypasses the cache
    looked,     \* the sources whose zone its compilation has asked for
    zones,      \* those it got an answer for
    probe       \* the source it is probing

cacheVars == <<entries, older, bytes, tokens, nextToken, retired>>
modelVars == <<address, collected>>
zoneVars == <<detected, known, epoch, announced>>
threadVars == <<pc, model, key, looked, zones, probe>>
vars == <<cacheVars, modelVars, zoneVars, threadVars>>

TypeOK ==
    /\ DOMAIN entries \subseteq Keys
    /\ \A k \in DOMAIN entries : entries[k] \in Plans
    /\ tokens \in [Ids -> [ref : Models \cup {NoModel}, token : Nat]]
    /\ nextToken \in Nat \ {0}
    /\ retired \subseteq [id : Ids, token : Nat]
    /\ address \in [Models -> Ids \cup {NoId}]
    /\ collected \subseteq Models
    /\ detected \subseteq Sources /\ known \subseteq detected
    /\ epoch \in Nat
    /\ announced \subseteq known
    /\ pc \in [Threads -> {"idle", "compile", "probe", "announce", "store"}]
    /\ model \in [Threads -> Models \cup {NoModel}]
    /\ key \in [Threads -> Keys]
    /\ looked \in [Threads -> SUBSET Sources]
    /\ zones \in [Threads -> SUBSET Sources]
    /\ probe \in [Threads -> Sources \cup {NoSource}]

\* What a thread's key holds while it has none.
NoKey == [token |-> 0, epoch |-> 0, query |-> CHOOSE q \in Queries : TRUE]

Init ==
    /\ entries = [k \in {} |-> NoModel] /\ older = [k \in {} |-> {}] /\ bytes = 0
    /\ tokens = [i \in Ids |-> Absent]
    /\ nextToken = 1
    /\ retired = {}
    /\ address = [m \in Models |-> NoId] /\ collected = {}
    /\ detected = {} /\ known = {} /\ epoch = 0 /\ announced = {}
    /\ pc = [t \in Threads |-> "idle"]
    /\ model = [t \in Threads |-> NoModel]
    /\ key = [t \in Threads |-> NoKey]
    /\ looked = [t \in Threads |-> {}]
    /\ zones = [t \in Threads |-> {}]
    /\ probe = [t \in Threads |-> NoSource]

-----------------------------------------------------------------------------
(* The entries.  c is a cache: [entries, older, bytes]                     *)

PlanSize(plan) == Length[plan.query] + Cardinality(plan.zones)

\* The bytes of the entries es has under the keys K: each one, and their number.
BytesOf(es, K) == UNION {{k} \X (1 .. PlanSize(es[k])) : k \in K}
SizeSum(es, K) == Cardinality(BytesOf(es, K))

Cached == [entries |-> entries, older |-> older, bytes |-> bytes]

Drop(c, K) ==
    LET stay == DOMAIN c.entries \ K
    IN  [entries |-> Restrict(c.entries, stay),
         older |-> [k \in stay |-> c.older[k] \ K],
         bytes |-> c.bytes - SizeSum(c.entries, K \cap DOMAIN c.entries)]

\* move_to_end, and where a new key goes.
UsedLast(o, k) ==
    [j \in DOMAIN o \cup {k} |-> IF j = k THEN DOMAIN o \ {k} ELSE o[j] \ {k}]

\* Mutant: the entry that is replaced keeps its bytes.
PutOnTop(c, k, plan) ==
    [entries |-> [j \in DOMAIN c.entries \cup {k} |->
                      IF j = k THEN plan ELSE c.entries[j]],
     older |-> UsedLast(c.older, k),
     bytes |-> c.bytes + PlanSize(plan)]

\* A key is popped first, so that it comes back as the last used.
Put(c, k, plan) ==
    [entries |-> [j \in DOMAIN c.entries \cup {k} |->
                      IF j = k THEN plan ELSE c.entries[j]],
     older |-> UsedLast(c.older, k),
     bytes |-> Drop(c, {k}).bytes + PlanSize(plan)]

OverBudget(c, K) ==
    Cardinality(K) > MaxEntries \/ Drop(c, DOMAIN c.entries \ K).bytes > MaxBytes

\* _evict_to_budget: the least recently used go until both budgets hold.  A key
\* goes if, with all that are older gone, they do not.
Fit(c) == Drop(c, {k \in DOMAIN c.entries :
                       OverBudget(c, DOMAIN c.entries \ c.older[k])})

Became(c) == entries' = c.entries /\ older' = c.older /\ bytes' = c.bytes

-----------------------------------------------------------------------------
(* Models and their tokens                                                 *)

Live(m) == address[m] # NoId

\* _drain_retired, its tokens: the current token of an id may be another's.
DrainedTokens ==
    [i \in Ids |-> IF [id |-> i, token |-> tokens[i].token] \in retired
                   THEN Absent ELSE tokens[i]]

\* Mutant: the retired tokens go, their entries stay.
DrainedTokensOnly == Cached

\* _drain_retired, its entries.
Drained == Drop(Cached, {k \in DOMAIN entries : \E r \in retired : r.token = k.token})

\* A model is loaded, where no live model is.
Load(m, i) ==
    /\ ~Live(m) /\ m \notin collected
    /\ \A n \in Models : address[n] # i
    /\ address' = [address EXCEPT ![m] = i]
    /\ UNCHANGED <<cacheVars, collected, zoneVars, threadVars>>

\* The last reference goes.  The callback queues the token, under no lock.
Collect(m) ==
    /\ Live(m)
    /\ \A t \in Threads : model[t] # m
    /\ collected' = collected \cup {m}
    /\ address' = [address EXCEPT ![m] = NoId]
    /\ LET i == address[m] IN
       retired' = IF tokens[i].ref = m
                  THEN retired \cup {[id |-> i, token |-> tokens[i].token]}
                  ELSE retired
    /\ UNCHANGED <<entries, older, bytes, tokens, nextToken, zoneVars, threadVars>>

-----------------------------------------------------------------------------
(* CompilationCache.compile                                                *)

GoTo(t, step) == pc' = [pc EXCEPT ![t] = step]

\* The thread gives up its model and is done.
Return(t) ==
    /\ GoTo(t, "idle")
    /\ model' = [model EXCEPT ![t] = NoModel]
    /\ key' = [key EXCEPT ![t] = NoKey]
    /\ looked' = [looked EXCEPT ![t] = {}]
    /\ zones' = [zones EXCEPT ![t] = {}]
    /\ UNCHANGED probe

StartCompiling(t, m, k) ==
    /\ GoTo(t, "compile")
    /\ model' = [model EXCEPT ![t] = m]
    /\ key' = [key EXCEPT ![t] = k]
    /\ UNCHANGED <<looked, zones, probe>>

Bypasses(q) == MaxEntries = 0 \/ q \in Keyless

CompileUncached(t, m, q) ==
    /\ pc[t] = "idle" /\ Live(m) /\ Bypasses(q)
    /\ StartCompiling(t, m, [token |-> 0, epoch |-> epoch, query |-> q])
    /\ UNCHANGED <<cacheVars, modelVars, zoneVars>>

\* The first locked section: drain, token, lookup.  A hit returns at once.
Lookup(t, m, q) ==
    /\ pc[t] = "idle" /\ Live(m) /\ ~Bypasses(q)
    /\ LET i == address[m]
           isKnown == DrainedTokens[i].ref = m
           token == IF isKnown THEN DrainedTokens[i].token ELSE nextToken
           k == [token |-> token, epoch |-> epoch, query |-> q]
       IN  /\ tokens' = [DrainedTokens EXCEPT ![i] = [ref |-> m, token |-> token]]
           /\ nextToken' = IF isKnown THEN nextToken ELSE nextToken + 1
           /\ \/ /\ k \in DOMAIN Drained.entries
                 /\ Became([Drained EXCEPT !.older = UsedLast(@, k)])
                 /\ UNCHANGED threadVars
              \/ /\ k \notin DOMAIN Drained.entries
                 /\ Became(Drained)
                 /\ StartCompiling(t, m, k)
    /\ retired' = {}
    /\ UNCHANGED <<modelVars, zoneVars>>

\* pipeline.compile raises: nothing is stored.
CompileFails(t) ==
    /\ pc[t] = "compile"
    /\ Return(t)
    /\ UNCHANGED <<cacheVars, modelVars, zoneVars>>

Plan(t) == [model |-> model[t], query |-> key[t].query, zones |-> zones[t]]

\* The plan is complete.  It is offered to the cache if it was looked up there,
\* no zone became known meanwhile, and it is not too large.
CompileEnds(t) ==
    /\ pc[t] = "compile"
    /\ looked[t] = Reads[key[t].query]
    /\ IF /\ key[t].token # 0
          /\ epoch = key[t].epoch
          /\ PlanSize(Plan(t)) <= MaxEntryBytes
       THEN GoTo(t, "store") /\ UNCHANGED <<model, key, looked, zones, probe>>
       ELSE Return(t)
    /\ UNCHANGED <<cacheVars, modelVars, zoneVars>>

\* Mutant: the key takes the epoch it is stored at.
StoreAtCurrentEpoch(t) ==
    /\ pc[t] = "store"
    /\ tokens' = DrainedTokens /\ retired' = {}
    /\ IF DrainedTokens[address[model[t]]] = [ref |-> model[t], token |-> key[t].token]
       THEN Became(Fit(Put(Drained, [key[t] EXCEPT !.epoch = epoch], Plan(t))))
       ELSE Became(Drained)
    /\ Return(t)
    /\ UNCHANGED <<nextToken, modelVars, zoneVars>>

\* The second locked section: drain, check the token, store and evict.  The
\* thread holds its model, so the check never fails.
Store(t) ==
    /\ pc[t] = "store"
    /\ tokens' = DrainedTokens /\ retired' = {}
    /\ IF DrainedTokens[address[model[t]]] = [ref |-> model[t], token |-> key[t].token]
       THEN Became(Fit(Put(Drained, key[t], Plan(t))))
       ELSE Became(Drained)
    /\ Return(t)
    /\ UNCHANGED <<nextToken, modelVars, zoneVars>>

\* POST /cache/compilation/clear.
Clear ==
    /\ entries' = [k \in {} |-> NoModel] /\ older' = [k \in {} |-> {}] /\ bytes' = 0
    /\ UNCHANGED <<tokens, nextToken, retired, modelVars, zoneVars, threadVars>>

\* GET /cache/compilation.
Stats ==
    /\ Became(Drained)
    /\ tokens' = DrainedTokens /\ retired' = {}
    /\ UNCHANGED <<nextToken, modelVars, zoneVars, threadVars>>

-----------------------------------------------------------------------------
(* Session time zones                                                      *)

\* The answer a compiling thread gets for a source's zone.
Consult(t, s, isKnown) ==
    /\ looked' = [looked EXCEPT ![t] = @ \cup {s}]
    /\ zones' = [zones EXCEPT ![t] = IF isKnown THEN @ \cup {s} ELSE @]

\* A plan needs the zone of a source that some thread has marked detected,
\* be it before the probe's answer or after.
ReadZone(t, s) ==
    /\ pc[t] = "compile" /\ s \in Reads[key[t].query] \ looked[t]
    /\ s \in detected
    /\ Consult(t, s, s \in known)
    /\ UNCHANGED <<cacheVars, modelVars, zoneVars, pc, model, key, probe>>

\* No connection: the plan goes without, and a later one asks again.
SourceUnreachable(t, s) ==
    /\ pc[t] = "compile" /\ s \in Reads[key[t].query] \ looked[t]
    /\ s \notin detected
    /\ Consult(t, s, FALSE)
    /\ UNCHANGED <<cacheVars, modelVars, zoneVars, pc, model, key, probe>>

\* _detect_db_timezone, by a plan or by a thread that runs a query on the
\* source: marked first, then asked.
StartProbe(t, s) ==
    /\ \/ pc[t] = "compile" /\ s \in Reads[key[t].query] \ looked[t]
       \/ pc[t] = "idle"
    /\ s \notin detected
    /\ detected' = detected \cup {s}
    /\ probe' = [probe EXCEPT ![t] = s]
    /\ GoTo(t, "probe")
    /\ UNCHANGED <<cacheVars, modelVars, known, epoch, announced, model, key, looked, zones>>

\* The probe is over, with or without an answer.
EndProbe(t, isKnown) ==
    /\ probe' = [probe EXCEPT ![t] = NoSource]
    /\ IF model[t] = NoModel
       THEN GoTo(t, "idle") /\ UNCHANGED <<looked, zones>>
       ELSE GoTo(t, "compile") /\ Consult(t, probe[t], isKnown)

ProbeFails(t) ==
    /\ pc[t] = "probe"
    /\ EndProbe(t, FALSE)
    /\ UNCHANGED <<cacheVars, modelVars, zoneVars, model, key>>

\* Mutant: the epoch counts the zone, and it is never stored.
CountZone(t) ==
    /\ pc[t] = "probe"
    /\ GoTo(t, "announce")
    /\ UNCHANGED <<cacheVars, modelVars, zoneVars, model, key, looked, zones, probe>>

\* _remember_timezone, first the zone ...
RememberZone(t) ==
    /\ pc[t] = "probe"
    /\ known' = known \cup {probe[t]}
    /\ GoTo(t, "announce")
    /\ UNCHANGED <<cacheVars, modelVars, detected, epoch, announced, model, key, looked,
                   zones, probe>>

\* ... then the epoch.
AnnounceZone(t) ==
    /\ pc[t] = "announce"
    /\ epoch' = epoch + 1
    /\ announced' = announced \cup {probe[t]}
    /\ EndProbe(t, TRUE)
    /\ UNCHANGED <<cacheVars, modelVars, detected, known, model, key>>

Next ==
    \/ \E m \in Models, i \in Ids : Load(m, i)
    \/ \E m \in Models : Collect(m)
    \/ \E t \in Threads, m \in Models, q \in Queries :
          CompileUncached(t, m, q) \/ Lookup(t, m, q)
    \/ \E t \in Threads : CompileFails(t) \/ CompileEnds(t) \/ Store(t)
    \/ \E t \in Threads, s \in Sources :
          ReadZone(t, s) \/ SourceUnreachable(t, s) \/ StartProbe(t, s)
    \/ \E t \in Threads : ProbeFails(t) \/ RememberZone(t) \/ AnnounceZone(t)
    \/ Clear \/ Stats

Spec == Init /\ [][Next]_vars

-----------------------------------------------------------------------------
(* Properties                                                              *)

\* The entry that a lookup for a live model would return, if there is one.
HitKey(m, q) == [token |-> tokens[address[m]].token, epoch |-> epoch, query |-> q]
Hits(m, q) ==
    /\ Live(m) /\ tokens[address[m]].ref = m
    /\ HitKey(m, q) \in DOMAIN entries

\* Whatever a lookup may return now was compiled from the very model it is for,
\* though another had its id before, and converts from every zone that has
\* become known: a plan compiled, or being compiled, when a zone was not known
\* is not served once it is (module docstring; test_a_session_zone_becoming_
\* known_compiles_again tries it with one thread).
HitIsCurrent ==
    \A m \in Models, q \in Queries :
        Hits(m, q) => LET plan == entries[HitKey(m, q)] IN
                      /\ plan.model = m /\ plan.query = q
                      /\ Reads[q] \cap announced \subseteq plan.zones

\* Entries of a collected model do not stay: as long as one is there, its token
\* is either that of a live model or queued to be drained by the next call, even
\* when the model went, and its id was taken, while others compiled.
RetiredLeave ==
    \A k \in DOMAIN entries :
        \/ \E m \in Models : Live(m) /\ tokens[address[m]] = [ref |-> m, token |-> k.token]
        \/ \E r \in retired : r.token = k.token

\* The keys are in one order, which is that of no key that is gone.
Ordered(o, K) ==
    /\ o \in [K -> SUBSET K]
    /\ \A k \in K : k \notin o[k]
    /\ \A j, k \in K : j = k \/ j \in o[k] \/ k \in o[j]
    /\ \A j, k \in K : j \in o[k] => o[j] \subseteq o[k]

\* Through hits, replacements by a second compilation of another size, drains,
\* evictions and clears, the entries and no others are in order of use, the
\* count of bytes is that of the entries, and both budgets hold.
BudgetExact ==
    /\ Ordered(older, DOMAIN entries)
    /\ Cardinality(DOMAIN entries) <= MaxEntries
    /\ bytes = SizeSum(entries, DOMAIN entries)
    /\ bytes <= MaxBytes
=============================================================================
