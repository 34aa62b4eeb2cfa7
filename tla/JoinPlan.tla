------------------------------- MODULE JoinPlan -------------------------------
(***************************************************************************)
(* How the compiler joins the data objects of one aggregate query: the     *)
(* base object (resolution.py), the join path from it (graph.py), the      *)
(* filter's object (filter_resolution.py), and what keeps a sum from being *)
(* counted twice - the fanout check (fanout.py), the deduplication of      *)
(* replicated objects (grain_dedup.py) and the legs of a union of facts    *)
(* (cfl.py).                                                               *)
(*                                                                         *)
(* A measure here is a SUM over the columns of one data object, so a query *)
(* is told by the objects its measures, its dimensions and its WHERE read. *)
(* Objects are numbers: the code breaks ties by name, here by number.      *)
(* At most one join lies between two objects.                              *)
(* Left out: objects nested in others, secondary joins and via waypoints,  *)
(* anchored measures and measures over several objects, queries without    *)
(* measures, static filters, ROLLUP / CUBE, and the extra leg for parents  *)
(* without children (its rows are none of the rows planned here).          *)
(***************************************************************************)
EXTENDS Naturals, FiniteSets, FiniteSetsExt, SequencesExt

CONSTANTS
    N,            \* how many data objects there are
    Schemas,      \* the semantic models considered, each a set of joins
    QueryObjects  \* the queries asked

Objects == 1..N

Cards == {"many-to-one", "one-to-one", "many-to-many"}
Join == [from : Objects, to : Objects, card : Cards]
Step == [from : Objects, to : Objects, card : Cards, reversed : BOOLEAN]
Query == {q \in [measures : SUBSET Objects, dims : SUBSET Objects, where : SUBSET Objects] :
            q.measures # {} /\ Cardinality(q.where) <= 1}
NoQuery == [measures |-> {}, dims |-> {}, where |-> {}]

ASSUME JoinPlanAssumption ==
    /\ N \in Nat \ {0}
    /\ \A model \in Schemas :
          /\ model \subseteq Join /\ IsFiniteSet(model)
          /\ \A j, k \in model : {j.from, j.to} = {k.from, k.to} => j = k
    /\ QueryObjects \subseteq Query

VARIABLES
    joins,      \* the joins of the model
    query,      \* the query being compiled
    phase,      \* how far its compilation is
    base,       \* base_object, the FROM of a star
    required,   \* required_objects
    union,      \* requires_cfl: independent facts, planned as legs of a union
    steps,      \* join_steps
    reached,    \* joined_objects, the objects resolution takes for joined
    walked,     \* the joins of all paths found, planned or not (history)
    refusals,   \* why the query is refused
    deduped,    \* the measures aggregated over deduplicated rows
    warned,     \* the measures whose totals the user is warned about
    legs        \* the legs of a union, by the object of their measures

planVars == <<joins, query, phase, base, required, union, steps, reached, walked,
              refusals, deduped, warned, legs>>

-----------------------------------------------------------------------------
(* The three graphs of JoinGraph and the distances in them. *)

Directed == {<<j.from, j.to>> : j \in joins}
Traversable ==
    Directed \cup {<<j.to, j.from>> : j \in {k \in joins : k.card # "many-to-one"}}
Undirected == Directed \cup {<<e[2], e[1]>> : e \in Directed}
Preserving == {<<j.from, j.to>> : j \in {k \in joins : k.card # "many-to-many"}}

Around(E, near) == near \cup {e[2] : e \in {f \in E : f[1] \in near}}

\* What k joins of E lead to, from a.
Within(E, a) ==
    LET W[k \in 0..N] == IF k = 0 THEN {a} ELSE Around(E, W[k - 1])
    IN  W

Family(E, a) == Within(E, a)[N]
Descendants(E, a) == Family(E, a) \ {a}

Far == N + 1
Hops(E, a, b) ==
    LET W == Within(E, a)
    IN  IF b \notin W[N] THEN Far
        ELSE CHOOSE k \in 0..N : b \in W[k] /\ \A i \in 0..(k - 1) : b \notin W[i]

\* A shortest path; networkx does not say which, and in the models run here
\* a prefix of a candidate below has no choice.
ShortestPath(E, a, b) ==
    LET last == Hops(E, a, b) + 1
    IN  CHOOSE p \in [1..last -> Objects] :
            p[1] = a /\ p[last] = b /\ \A i \in 2..last : <<p[i - 1], p[i]>> \in E

\* The first of S by a numeric rank, then by name.
FirstBy(S, rank) ==
    Min({n \in S : \A m \in S : rank[n] <= rank[m]})

(* find_common_root: the deepest object that reaches all of them, and *)
(* without one the centre of what connects them.                       *)
Centre(objects) ==
    LET connecting == UNION {ToSet(ShortestPath(Undirected, p[1], p[2])) :
                        p \in {r \in objects \X objects :
                                 r[1] < r[2] /\ Hops(Undirected, r[1], r[2]) # Far}}
        eccentricity == [n \in connecting |-> Max({Hops(Undirected, n, t) : t \in objects})]
    IN  IF connecting = {} THEN Min(objects) ELSE FirstBy(connecting, eccentricity)

CommonRoot(objects) ==
    LET covering == {n \in Objects : objects \subseteq Family(Directed, n)}
        breadth == [n \in covering |-> Cardinality(Family(Directed, n))]
    IN  IF Cardinality(objects) = 1 THEN CHOOSE o \in objects : TRUE
        ELSE IF covering = {} THEN Centre(objects)
        ELSE FirstBy(covering, breadth)

-----------------------------------------------------------------------------
(* find_join_path *)

\* The routes to target that tie: shortest, then from the source nearest to
\* the object the query is anchored on.
Roles(sources, target, anchor) ==
    LET ranked == {[source |-> p[1], path |-> Append(ShortestPath(Traversable, p[1], p[2]), target)] :
                     p \in {r \in sources \X Objects :
                              /\ <<r[2], target>> \in Traversable
                              /\ Hops(Traversable, r[1], r[2]) + 1 = Hops(Traversable, r[1], target)}}
        shortest == {r \in ranked : \A s \in ranked : Len(r.path) <= Len(s.path)}
        Away(r) == Hops(Traversable, anchor, r.source)
    IN  {r \in shortest : \A s \in shortest : Away(r) <= Away(s)}

\* Two routes that arrive over one join are one role.
Entries(roles) == {r.path[Len(r.path) - 1] : r \in roles}

PathBefore(p, q) ==
    \/ p = q
    \/ \E i \in DOMAIN p : p[i] < q[i] /\ \A k \in 1..(i - 1) : p[k] = q[k]

ChosenPath(roles) ==
    (CHOOSE r \in roles : \A s \in roles :
        r.source < s.source \/ (r.source = s.source /\ PathBefore(r.path, s.path))).path

\* A step keeps the sides as the join declares them; reversed says that it
\* is walked from the target.
StepOf(a, b) ==
    LET j == CHOOSE k \in joins : {k.from, k.to} = {a, b}
    IN  [from |-> j.from, to |-> j.to, card |-> j.card, reversed |-> j.from # a]

SameJoin(s, t) == s.from = t.from /\ s.to = t.to

\* The joins of the path, but for those walked already.
WithPath(walk, path) ==
    LET Add(found, s) ==
          IF \E t \in ToSet(found) : SameJoin(s, t) THEN found ELSE Append(found, s)
        Walk[i \in 0..(Len(path) - 1)] ==
          IF i = 0 THEN walk ELSE Add(Walk[i - 1], StepOf(path[i], path[i + 1]))
    IN  Walk[Len(path) - 1]

WithTarget(found, target, anchor) ==
    LET roles == Roles(found.sources, target, anchor)
    IN  IF roles = {} THEN found
        ELSE [sources |-> found.sources \cup {target},
              steps |-> WithPath(found.steps, ChosenPath(roles)),
              ambiguous |-> found.ambiguous \/ Cardinality(Entries(roles)) > 1]

\* The targets are looked for in the order of their names.
JoinPath(sources, targets, anchor) ==
    LET Found[t \in 0..N] ==
          IF t = 0 THEN [sources |-> sources, steps |-> <<>>, ambiguous |-> FALSE]
          ELSE IF t \in targets \ sources THEN WithTarget(Found[t - 1], t, anchor)
          ELSE Found[t - 1]
    IN  Found[N]

Sides(joined) == UNION {{s.from, s.to} : s \in joined}

-----------------------------------------------------------------------------
(* The checks of the model's joins by the validator. *)

Acyclic == \A o \in Objects : \A e \in Directed : ~(e[1] = o /\ o \in Family(Directed, e[2]))

\* Two routes to an object that is not joined directly.
Multipath ==
    \E start, o \in Objects :
        /\ o # start
        /\ <<start, o>> \notin Directed
        /\ Cardinality({n \in Descendants(Directed, start) : <<n, o>> \in Directed}) > 1

PlanInit ==
    /\ joins \in Schemas
    /\ Acyclic
    /\ ~Multipath
    /\ query = NoQuery
    /\ phase = "idle"
    /\ base = 1
    /\ required = {}
    /\ union = FALSE
    /\ steps = <<>>
    /\ reached = {}
    /\ walked = {}
    /\ refusals = {}
    /\ deduped = {}
    /\ warned = {}
    /\ legs = <<>>

Ask ==
    /\ phase = "idle"
    /\ query' \in QueryObjects
    /\ phase' = "asked"
    /\ required' = query'.measures \cup query'.dims
    /\ UNCHANGED <<joins, base, union, steps, reached, walked, refusals, deduped, warned, legs>>

-----------------------------------------------------------------------------
(* The base object. *)

Wanted == required \cup query.measures \cup query.where

\* Among the measures' objects, the one with most joins; between equals, the
\* one reaching more of the query without multiplying its rows, provided it
\* reaches every other measure so.
BusiestSource ==
    LET safe == [o \in query.measures |-> Family(Preserving, o)]
        rank == [o \in query.measures |->
                   Cardinality({j \in joins : j.from = o}) * Far
                   + IF query.measures \subseteq safe[o] THEN Cardinality(Wanted \cap safe[o]) ELSE 0]
    IN  Min({o \in query.measures : \A p \in query.measures : rank[p] <= rank[o]})

\* Mutant: a measure's object is the base whatever it reaches.
NeverReanchored(best) == best

\* A single fact seen from its dimension end, or several facts with a filter
\* the chosen one cannot reach, are based on the common root instead.
Reanchored(best) ==
    LET oneFact == query.measures \subseteq Family(Preserving, best)
        root == CommonRoot(Wanted \cup {best})
    IN  IF /\ oneFact \/ ~(query.where \subseteq Family(Directed, best))
           /\ ~(Wanted \subseteq Family(Directed, best))
           /\ Wanted \subseteq Family(Directed, root)
        THEN root ELSE best

SelectBase ==
    /\ phase = "asked"
    /\ phase' = "based"
    /\ base' = Reanchored(BusiestSource)
    /\ required' = required \cup {base'}
    /\ union' = ~(query.measures \subseteq Family(Directed, base'))
    /\ UNCHANGED <<joins, query, steps, reached, walked, refusals, deduped, warned, legs>>

-----------------------------------------------------------------------------
(* The join path, and the object of the filter. *)

\* Mutant: objects the path does not join are not refused.
JoinRequiredBlindly ==
    /\ phase = "based"
    /\ \E path \in {JoinPath({base}, required, base)} :
          /\ steps' = path.steps
          /\ walked' = ToSet(path.steps)
          /\ reached' = {base} \cup {s.to : s \in ToSet(path.steps)}
          /\ refusals' = IF path.ambiguous THEN {"ambiguous"} ELSE {}
    /\ phase' = "joined"
    /\ UNCHANGED <<joins, query, base, required, union, deduped, warned, legs>>

JoinRequired ==
    /\ phase = "based"
    /\ \E path \in {JoinPath({base}, required, base)} :
          /\ steps' = path.steps
          /\ walked' = ToSet(path.steps)
          /\ reached' = {base} \cup {s.to : s \in ToSet(path.steps)}
          /\ refusals' = {r \in {"ambiguous", "unreachable"} :
                            CASE r = "ambiguous" -> path.ambiguous
                              [] r = "unreachable" -> ~union /\ ~(required \subseteq reached')}
    /\ phase' = "joined"
    /\ UNCHANGED <<joins, query, base, required, union, deduped, warned, legs>>

NoFilterToJoin ==
    /\ query.where \subseteq reached
    /\ UNCHANGED <<required, steps, reached, walked, refusals>>

\* The steps of the filter's path are planned that bring a new object on
\* their declared target side.
WithFilter(path) ==
    LET Add(found, s) ==
          IF s.to \in found.reached THEN found
          ELSE [steps |-> Append(found.steps, s), reached |-> found.reached \cup {s.to}]
        Found[i \in 0..Len(path)] ==
          IF i = 0 THEN [steps |-> steps, reached |-> reached] ELSE Add(Found[i - 1], path[i])
    IN  Found[Len(path)]

\* Reached from what is joined.
JoinFilter(o) ==
    /\ \E r \in reached : o \in Descendants(Directed, r)
    /\ IF Cardinality(Entries(Roles(reached, o, base))) > 1
       THEN /\ refusals' = refusals \cup {"ambiguous"}
            /\ UNCHANGED <<required, steps, reached, walked>>
       ELSE /\ \E path \in {JoinPath(reached, {o}, base).steps} :
                  /\ walked' = walked \cup ToSet(path)
                  /\ \E joined \in {WithFilter(path)} :
                        /\ steps' = joined.steps
                        /\ reached' = joined.reached
            /\ required' = required \cup (reached' \ reached)
            /\ UNCHANGED refusals

\* Not reached: a union leaves it to the legs that reach it.
LeaveFilterToLegs(o) ==
    LET roots == {m \in query.measures : o \in Family(Directed, m)}
    IN  /\ ~ \E r \in reached : o \in Descendants(Directed, r)
        /\ IF union /\ roots # {}
           THEN /\ required' = required \cup roots \cup
                     UNION {Sides(ToSet(JoinPath({m}, {m, o}, m).steps)) : m \in roots}
                /\ UNCHANGED <<steps, reached, walked, refusals>>
           ELSE /\ refusals' = refusals \cup {"unreachable filter"}
                /\ UNCHANGED <<required, steps, reached, walked>>

ResolveFilter ==
    /\ phase = "joined"
    /\ \/ NoFilterToJoin
       \/ \E o \in query.where \ reached : JoinFilter(o) \/ LeaveFilterToLegs(o)
    /\ phase' = IF refusals' = {} THEN "resolved" ELSE "refused"
    /\ UNCHANGED <<joins, query, base, union, deduped, warned, legs>>

-----------------------------------------------------------------------------
(* What keeps a star's sums whole. *)

CausesFanout(s) == s.card = "many-to-many" \/ (s.card = "many-to-one" /\ s.reversed)
Origin(s) == IF s.reversed THEN s.to ELSE s.from
Brought(s) == IF s.reversed THEN s.from ELSE s.to

\* The steps that multiply the rows of the object they leave.
FanoutOf(m) == {s \in ToSet(steps) : CausesFanout(s) /\ Origin(s) = m}

\* A bridge: a dimension of the query lies beyond the object it brings.
ResolvedByGroupBy(s) ==
    (Descendants(Directed, Brought(s)) \ {Origin(s)}) \cap query.dims # {}

\* Mutant: what lies beyond a one-to-one join is taken for single.
ReplicatedNextDoor(path) == {s.to : s \in {t \in ToSet(path) : ~t.reversed /\ t.card # "one-to-one"}}

\* The objects on the one side of a step walked forward, and all beyond.
Marked(path) ==
    LET Mark(found, s) ==
          IF ~s.reversed /\ (s.card # "one-to-one" \/ s.from \in found)
          THEN found \cup {s.to} ELSE found
        M[i \in 0..Len(path)] == IF i = 0 THEN {} ELSE Mark(M[i - 1], path[i])
    IN  M

Replicated(path) == Marked(path)[Len(path)]

DetectReplication ==
    LET refused == {m \in query.measures : \E s \in FanoutOf(m) : ~ResolvedByGroupBy(s)}
    IN  /\ phase = "resolved"
        /\ ~union
        /\ \/ /\ refused # {}
              /\ phase' = "refused"
              /\ refusals' = {"fanout"}
              /\ UNCHANGED <<deduped, warned>>
           \/ /\ refused = {}
              /\ phase' = "planned"
              /\ warned' = {m \in query.measures : FanoutOf(m) # {}}
              /\ deduped' = query.measures \cap Replicated(steps)
              /\ UNCHANGED refusals
        /\ UNCHANGED <<joins, query, base, required, union, steps, reached, walked, legs>>

-----------------------------------------------------------------------------
(* The union of facts: one leg for each object measures are read from. *)

\* What a leg on m can read: through the common root of all it wants, where
\* that reaches m, else by itself.
LegReach(m) ==
    LET wide == Family(Directed, CommonRoot({m} \cup query.dims \cup query.where))
    IN  IF m \in wide THEN wide ELSE Family(Directed, m)

Leg(m) ==
    LET reads == {m} \cup (LegReach(m) \cap (query.dims \cup query.where))
        lead == CommonRoot(reads)
        path == JoinPath({lead}, reads, lead).steps
    IN  [reads |-> reads, lead |-> lead, path |-> path, deduped |-> m \in Replicated(path)]

PlanUnion ==
    /\ phase = "resolved"
    /\ union
    /\ \/ /\ ~(query.dims \subseteq UNION {Family(Directed, m) : m \in query.measures})
          /\ phase' = "refused"
          /\ refusals' = {"unreachable"}
          /\ UNCHANGED legs
       \/ /\ query.dims \subseteq UNION {Family(Directed, m) : m \in query.measures}
          /\ phase' = "planned"
          /\ legs' = [m \in query.measures |-> Leg(m)]
          /\ UNCHANGED refusals
    /\ UNCHANGED <<joins, query, base, required, union, steps, reached, walked, deduped, warned>>

\* Mutant: the measures deduplicated stay for the next query.
ReturnPlanUnreset ==
    /\ phase \in {"planned", "refused"}
    /\ query' = NoQuery
    /\ phase' = "idle"
    /\ base' = 1
    /\ required' = {}
    /\ union' = FALSE
    /\ steps' = <<>>
    /\ reached' = {}
    /\ walked' = {}
    /\ refusals' = {}
    /\ legs' = <<>>
    /\ UNCHANGED <<joins, deduped, warned>>

\* The result is returned; the next query starts anew.
ReturnPlan ==
    /\ phase \in {"planned", "refused"}
    /\ query' = NoQuery
    /\ phase' = "idle"
    /\ base' = 1
    /\ required' = {}
    /\ union' = FALSE
    /\ steps' = <<>>
    /\ reached' = {}
    /\ walked' = {}
    /\ refusals' = {}
    /\ deduped' = {}
    /\ warned' = {}
    /\ legs' = <<>>
    /\ UNCHANGED joins

PlanNext ==
    \/ Ask
    \/ SelectBase
    \/ JoinRequired
    \/ ResolveFilter
    \/ DetectReplication
    \/ PlanUnion
    \/ ReturnPlan

PlanSpec == PlanInit /\ [][PlanNext]_planVars

-----------------------------------------------------------------------------
(* What the planned SQL joins, and whose rows it repeats. *)

\* A star joins the side of each step that is not joined yet.
StarJoins ==
    LET Emit(found, s) ==
          IF {s.from, s.to} \subseteq found.joined THEN found
          ELSE [joined |-> found.joined \cup
                             {IF s.to \notin found.joined THEN s.to ELSE s.from},
                emitted |-> found.emitted \cup {s}]
        From[i \in 0..Len(steps)] ==
          IF i = 0 THEN [joined |-> {base}, emitted |-> {}] ELSE Emit(From[i - 1], steps[i])
    IN  From[Len(steps)]

\* A leg joins the declared target of each step, once.
LegJoins(leg) ==
    LET Emit(found, s) ==
          IF s.to \in found.joined THEN found
          ELSE [joined |-> found.joined \cup {s.to}, emitted |-> found.emitted \cup {s}]
        From[i \in 0..Len(leg.path)] ==
          IF i = 0 THEN [joined |-> {leg.lead}, emitted |-> {}] ELSE Emit(From[i - 1], leg.path[i])
    IN  From[Len(leg.path)]

\* A row of m is repeated if some join, seen from m, has many rows beyond it.
Repeated(m, emitted) ==
    \E s \in emitted :
        LET rest == {<<t.from, t.to>> : t \in emitted \ {s}}
            both == rest \cup {<<e[2], e[1]>> : e \in rest}
        IN  \/ s.card = "many-to-many"
            \/ s.card = "many-to-one" /\ s.to \in Family(both, m)

Planned == phase = "planned"

\* The measures whose sums count a row more than once without a word.
Inflated ==
    IF union
    THEN {m \in query.measures : ~legs[m].deduped /\ Repeated(m, LegJoins(legs[m]).emitted)}
    ELSE {m \in query.measures \ (deduped \cup warned) : Repeated(m, StarJoins.emitted)}

PlanTypeOK ==
    /\ joins \in Schemas
    /\ query \in QueryObjects \cup {NoQuery}
    /\ phase \in {"idle", "asked", "based", "joined", "resolved", "planned", "refused"}
    /\ base \in Objects
    /\ required \subseteq Objects
    /\ union \in BOOLEAN
    /\ steps \in Seq(Step)
    /\ reached \subseteq Objects
    /\ walked \subseteq Step
    /\ refusals \subseteq {"ambiguous", "unreachable", "unreachable filter", "fanout"}
    /\ deduped \subseteq query.measures
    /\ warned \subseteq query.measures
    /\ legs = <<>> \/ legs \in [query.measures ->
                                    [reads : SUBSET Objects, lead : Objects,
                                     path : Seq(Step), deduped : BOOLEAN]]

\* A one-to-one join walked backwards leaves a repeated object, or is left
\* out of the plan: nothing beyond it is taken for repeated.
LosesReplication ==
    \E s \in walked :
        s.reversed /\ (s \notin ToSet(steps) \/ Origin(s) \in Replicated(steps))

(* A sum counts each row once: no plan walks a many-to-one join backwards,  *)
(* what one repeats forwards is deduplicated, and a star that leaves a      *)
(* measure's own object by a many-to-many join is refused (graph.py:175,    *)
(* grain_dedup.py:180, fanout.py:185).  Excepted are a many-to-many join in *)
(* a leg, or one further out in a star, and joins walked backwards, where   *)
(* "replication is inherited" (grain_dedup.py:187) is not so.               *)
SumsWhole ==
    Planned =>
        \A m \in Inflated :
            IF union
            THEN \/ \E s \in LegJoins(legs[m]).emitted : s.card = "many-to-many"
                 \/ \E s \in ToSet(legs[m].path) : s.reversed
            ELSE \/ \E s \in StarJoins.emitted : s.card = "many-to-many" /\ Origin(s) # m
                 \/ LosesReplication

\* o declares a join that may be walked backwards from an object joined: the
\* filter's path and the legs take its target for the side it brings.
BehindBackwardStep(o, joined) ==
    \E j \in joins : j.from = o /\ j.to \in joined /\ j.card # "many-to-one"

JoinsHold(reads, from) ==
    \A o \in (reads \cup Sides(from.emitted)) \ from.joined :
        BehindBackwardStep(o, from.joined)

(* What the SQL of a plan reads, its FROM joins, on objects it has joined:  *)
(* each object in the SELECT, the aggregates and the WHERE, in a star and   *)
(* in every leg, and the filter reaches at least one leg, unless resolution *)
(* reached it backwards, where no leg follows (star.py:192, cfl.py:757).    *)
(* Not so behind a join walked backwards to the filter or in a leg          *)
(* (filter_resolution.py:306, cfl.py:770); those of a star's required       *)
(* objects hold without exception (resolution.py:1700).                     *)
ReadsAreJoined ==
    Planned =>
        IF union
        THEN LET read == UNION {legs[m].reads : m \in query.measures}
             IN  /\ \A m \in query.measures : JoinsHold(legs[m].reads, LegJoins(legs[m]))
                 /\ query.dims \subseteq read
                 /\ query.where \subseteq read \/ \E s \in walked : s.reversed
        ELSE /\ JoinsHold(query.where, StarJoins)
             /\ query.measures \cup query.dims \subseteq StarJoins.joined

(* A query on one fact is refused as unreachable only where no object       *)
(* reaches all it names - measures of a dimension table are re-anchored on  *)
(* the root that joins it to the rest (resolution.py:3080) - or where its   *)
(* path walks a join backwards, whose new side resolution does not count as *)
(* joined (resolution.py:1700).                                             *)
CommonRootSuffices ==
    phase = "refused" /\ Cardinality(query.measures) = 1 /\ "ambiguous" \notin refusals =>
        \A n \in Objects :
            query.measures \cup query.dims \cup query.where \subseteq Family(Directed, n) =>
                \/ refusals = {"fanout"}
                \/ \E s \in ToSet(steps) : s.reversed

(* "The per-leg equivalent" of the fanout check "lives in the CFL planner"  *)
(* (pipeline.py:321): no leg of a union sums a row more than once.          *)
LegsWithoutFanout == Planned /\ union => Inflated = {}
=============================================================================
