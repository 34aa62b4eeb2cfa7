--------------------------- MODULE CompilerProofs ---------------------------
(***************************************************************************)
(* Proofs about the compiler: CompilationCache, for every number of        *)
(* threads, models, queries and sources, and every budget; and JoinPlan, for *)
(* every number of objects, every model and every query.                   *)
(*                                                                         *)
(* The cache.  An entry is right because of two facts that meet in its key. *)
(* Its token is one model's only: tokens are fresh, and a thread that      *)
(* compiles holds its model, whose token then is not retired (TokensInv,   *)
(* ThreadTokens).  Its epoch counts the zones: a plan asks for each zone   *)
(* after it read the epoch, so while the epoch stands it has every zone the *)
(* epoch has counted (ZonesInv); a zone that is counted later raises the   *)
(* epoch.  For that, it does not matter which entries an eviction takes:   *)
(* what remains was there.  The budgets are the other half.  Bytes are     *)
(* counted as the elements of a set (BytesOf), so that what goes or comes is *)
(* a part of it, and an eviction ends within the budgets because the least *)
(* recently used of what it left was not due to go (FitFits).              *)
(*                                                                         *)
(* The joins.  The folds of the model (the layers of a graph, the steps of *)
(* a path, the marks of replication, the joins of a plan) are first shown to *)
(* be what their recursion says, as functions from 0..n whose value at k   *)
(* follows from the one at k - 1; what holds of them all is then shown along *)
(* 0..n (UpTo).  find_join_path returns steps that grow, each from an object *)
(* touched before (JoinPathIs); a step adds a declared target to what      *)
(* resolution takes for joined, or is walked backwards (TouchedIsReached); *)
(* and a filter's path leaves that so, unless a step walked backwards is   *)
(* left out of the plan (FilterGrows).  A plan that grows is emitted as a  *)
(* tree: take from it a many-to-one join, and all that hangs on its one side *)
(* has been marked as replicated, because a mark is handed on by each join *)
(* walked forward (BeyondIsReplicated).  PlanInv says what each phase of a *)
(* compilation leaves of this to the next.                                 *)
(***************************************************************************)
EXTENDS CompilationCache, JoinPlan, FiniteSetTheorems, SequenceTheorems, WellFoundedInduction,
        TLAPS

-----------------------------------------------------------------------------
(* CompilationCache: the inductive invariant                               *)

\* Ids tell live models apart, and threads hold theirs.
ModelsInv ==
    /\ \A m, n \in Models : Live(m) /\ address[m] = address[n] => m = n
    /\ \A m \in collected : ~Live(m)
    /\ \A t \in Threads : model[t] # NoModel => Live(model[t])
    /\ \A t \in Threads : pc[t] \in {"compile", "store"} => model[t] # NoModel
    /\ \A t \in Threads : pc[t] = "idle" => model[t] = NoModel

\* The model whose token this is, is live.
Current(m, token) == Live(m) /\ tokens[address[m]] = [ref |-> m, token |-> token]

TokensInv ==
    /\ \A i \in Ids : tokens[i].token < nextToken
    /\ \A i \in Ids : tokens[i].ref # NoModel => tokens[i].token # 0
    /\ \A i, j \in Ids : tokens[i].token = tokens[j].token /\ tokens[i].token # 0 => i = j
    /\ \A k \in DOMAIN entries : k.token < nextToken
    /\ \A r \in retired : r.token < nextToken
    /\ \A m \in Models, r \in retired : ~Current(m, r.token)

\* A weak reference is to a model that lives there, or is gone.
RefsInv ==
    \A i \in Ids, m \in Models :
        tokens[i].ref = m => address[m] = i \/ m \in collected

ThreadTokens ==
    \A t \in Threads : /\ key[t].token < nextToken
                       /\ model[t] # NoModel /\ key[t].token # 0 =>
                             Current(model[t], key[t].token)

\* An entry is for the model whose token its key has.
EntriesOwn ==
    \A k \in DOMAIN entries :
        /\ entries[k].query = k.query
        /\ \A m \in Models : Current(m, k.token) => entries[k].model = m

\* Each source is probed once, and not known before the answer.
ProbesInv ==
    /\ \A t \in Threads : pc[t] \in {"probe", "announce"} <=> probe[t] # NoSource
    /\ \A t, u \in Threads : probe[t] # NoSource /\ probe[t] = probe[u] => t = u
    /\ \A t \in Threads : probe[t] # NoSource => probe[t] \in detected
    /\ \A t \in Threads : pc[t] = "probe" => probe[t] \notin known
    /\ \A t \in Threads : pc[t] = "announce" => probe[t] \in known

\* While the epoch of a key stands, the plan has the zones it has counted.
ZonesInv ==
    /\ \A k \in DOMAIN entries :
          /\ k.epoch <= epoch
          /\ k.epoch = epoch => Reads[k.query] \cap announced \subseteq entries[k].zones
    /\ \A t \in Threads :
          /\ key[t].epoch <= epoch
          /\ key[t].epoch = epoch => looked[t] \cap announced \subseteq zones[t]
          /\ pc[t] = "store" => looked[t] = Reads[key[t].query]
          /\ model[t] = NoModel => looked[t] = {}

Inv == /\ TypeOK /\ ModelsInv /\ TokensInv /\ RefsInv /\ ThreadTokens
       /\ EntriesOwn /\ ProbesInv /\ ZonesInv /\ RetiredLeave

-----------------------------------------------------------------------------
(* What the operations on the entries keep                                 *)

LEMMA DropKeeps ==
    ASSUME NEW c, NEW K
    PROVE  LET es == Drop(c, K).entries IN
           /\ DOMAIN es = DOMAIN c.entries \ K
           /\ \A k \in DOMAIN es : es[k] = c.entries[k]
BY DEF Drop, Restrict

LEMMA FitKeeps ==
    ASSUME NEW c
    PROVE  LET es == Fit(c).entries IN
           /\ DOMAIN es \subseteq DOMAIN c.entries
           /\ \A k \in DOMAIN es : es[k] = c.entries[k]
BY DropKeeps DEF Fit

LEMMA PutAdds ==
    ASSUME NEW c, NEW k, NEW plan
    PROVE  LET es == Put(c, k, plan).entries IN
           /\ DOMAIN es = DOMAIN c.entries \cup {k}
           /\ \A j \in DOMAIN es : es[j] = IF j = k THEN plan ELSE c.entries[j]
BY DEF Put

LEMMA DrainKeeps ==
    /\ DOMAIN Drained.entries = {k \in DOMAIN entries : \A r \in retired : r.token # k.token}
    /\ \A k \in DOMAIN Drained.entries : Drained.entries[k] = entries[k]
BY DropKeeps DEF Drained, Cached

\* A drain leaves the token of a live model alone.
LEMMA DrainTokens ==
    ASSUME TypeOK, TokensInv, NEW m \in Models, Live(m), NEW token
    PROVE  DrainedTokens[address[m]] = [ref |-> m, token |-> token] <=> Current(m, token)
<1>1. address[m] \in Ids
  BY DEF TypeOK, Live
<1>2. /\ tokens[address[m]] \in [ref : Models \cup {NoModel}, token : Nat]
      /\ Absent.ref # m
  BY <1>1, CompilationCacheAssumption DEF TypeOK, Absent
<1>3. ASSUME Current(m, token)
      PROVE  DrainedTokens[address[m]] = tokens[address[m]]
  BY <1>1, <1>2, <1>3 DEF DrainedTokens, Current, TokensInv
<1> QED BY <1>1, <1>2, <1>3 DEF DrainedTokens, Current

\* What a drain leaves in the table of tokens was there.
LEMMA DrainType ==
    ASSUME TypeOK
    PROVE  /\ DrainedTokens \in [Ids -> [ref : Models \cup {NoModel}, token : Nat]]
           /\ \A i \in Ids : DrainedTokens[i] = tokens[i] \/ DrainedTokens[i] = Absent
BY DEF DrainedTokens, TypeOK, Absent

\* Drained entries are entries, and none has a retired token.
LEMMA DrainEntries ==
    /\ \A k \in DOMAIN Drained.entries :
          /\ k \in DOMAIN entries /\ Drained.entries[k] = entries[k]
          /\ \A r \in retired : r.token # k.token
BY DrainKeeps

-----------------------------------------------------------------------------
(* Steps that drain: the lookup, the store and the statistics              *)


LEMMA StatsKeeps ==
    ASSUME Inv, Stats
    PROVE  Inv'
<1> USE DEF Inv
<1>1. /\ entries' = Drained.entries /\ tokens' = DrainedTokens /\ retired' = {}
      /\ nextToken' = nextToken /\ address' = address
  BY DEF Stats, Became, modelVars
<1>2. \A m \in Models : \A token : Current(m, token)' <=> Current(m, token)
  BY <1>1, DrainTokens DEF Current, Live
<1>3. \A m \in Models : Live(m)' <=> Live(m)
  BY <1>1 DEF Live
<1>4. TypeOK'
  BY <1>1, DrainType, DrainEntries DEF TypeOK, Stats, modelVars, zoneVars, threadVars
<1>5. ModelsInv'
  BY <1>1, <1>3 DEF ModelsInv, Stats, modelVars, threadVars, TypeOK
<1>6. TokensInv'
  <2>1. \A i \in Ids : tokens'[i] = tokens[i] \/ tokens'[i] = Absent
    BY <1>1, DrainType
  <2>2. \A i \in Ids : tokens[i].token \in Nat
    BY DEF TypeOK
  <2>3. nextToken \in Nat \ {0}
    BY DEF TypeOK
  <2> QED BY <1>1, <2>1, <2>2, <2>3, DrainEntries DEF TokensInv, Absent
<1>7. ThreadTokens'
  BY <1>1, <1>2 DEF ThreadTokens, Stats, threadVars, TypeOK
<1>8. EntriesOwn'
  BY <1>1, <1>2, DrainEntries DEF EntriesOwn
<1>9. ProbesInv'
  BY DEF ProbesInv, Stats, zoneVars, threadVars
<1>10. ZonesInv'
  BY <1>1, DrainEntries DEF ZonesInv, Stats, zoneVars, threadVars
<1>11. RetiredLeave'
  <2> SUFFICES ASSUME NEW k \in DOMAIN entries'
               PROVE  \E m \in Models : Current(m, k.token)'
    BY DEF RetiredLeave, Current
  <2>1. k \in DOMAIN entries /\ \A r \in retired : r.token # k.token
    BY <1>1, DrainEntries
  <2>2. \E m \in Models : Current(m, k.token)
    BY <2>1 DEF RetiredLeave, Current
  <2> QED BY <1>2, <2>2
<1>12. RefsInv'
  BY <1>1, DrainType, CompilationCacheAssumption DEF RefsInv, Absent, Stats, modelVars
<1> QED BY <1>4, <1>5, <1>6, <1>7, <1>8, <1>9, <1>10, <1>11, <1>12

\* A token is current for one model.
LEMMA CurrentIsUnique ==
    ASSUME TypeOK, TokensInv, NEW m \in Models, NEW n \in Models, NEW token,
           Current(m, token), Current(n, token)
    PROVE  m = n
<1>1. address[m] \in Ids /\ address[n] \in Ids
  BY DEF TypeOK, Current, Live
<1>2. m # NoModel
  BY CompilationCacheAssumption
<1>3. token # 0
  BY <1>1, <1>2 DEF TokensInv, Current
<1>4. address[m] = address[n]
  BY <1>1, <1>3 DEF TokensInv, Current
<1> QED BY <1>4 DEF Current

\* A store, like the statistics, but for the entry it adds: its token is that of
\* the model the thread holds, and its plan is as current as its key.
LEMMA StoreKeeps ==
    ASSUME Inv, NEW t \in Threads, Store(t)
    PROVE  Inv'
<1> USE DEF Inv
<1> DEFINE m0 == model[t]
<1>0. /\ tokens' = DrainedTokens /\ retired' = {}
      /\ nextToken' = nextToken /\ address' = address /\ collected' = collected
      /\ UNCHANGED zoneVars
  BY DEF Store, modelVars
<1>1. /\ pc[t] = "store"
      /\ probe' = probe
      /\ \A u \in Threads : /\ pc'[u] = IF u = t THEN "idle" ELSE pc[u]
                            /\ model'[u] = IF u = t THEN NoModel ELSE model[u]
                            /\ key'[u] = IF u = t THEN NoKey ELSE key[u]
                            /\ looked'[u] = IF u = t THEN {} ELSE looked[u]
                            /\ zones'[u] = IF u = t THEN {} ELSE zones[u]
  BY DEF Store, Return, GoTo, TypeOK
<1>2. \A m \in Models : \A token : Current(m, token)' <=> Current(m, token)
  BY <1>0, DrainTokens DEF Current, Live
<1>3. \A m \in Models : Live(m)' <=> Live(m)
  BY <1>0 DEF Live
<1>4. m0 \in Models /\ Live(m0)
  BY <1>1 DEF ModelsInv, TypeOK
<1>5. /\ DOMAIN entries' \subseteq DOMAIN Drained.entries \cup {key[t]}
      /\ \A k \in DOMAIN entries' :
            \/ k \in DOMAIN Drained.entries /\ entries'[k] = Drained.entries[k]
            \/ k = key[t] /\ entries'[k] = Plan(t) /\ Current(m0, key[t].token)
  <2>1. CASE DrainedTokens[address[m0]] = [ref |-> m0, token |-> key[t].token]
    <3> DEFINE c == Put(Drained, key[t], Plan(t))
    <3>1. entries' = Fit(c).entries
      BY <2>1 DEF Store, Became
    <3>2. Current(m0, key[t].token)
      BY <2>1, <1>4, DrainTokens
    <3>3. /\ DOMAIN c.entries = DOMAIN Drained.entries \cup {key[t]}
          /\ \A k \in DOMAIN c.entries :
                c.entries[k] = IF k = key[t] THEN Plan(t) ELSE Drained.entries[k]
      BY PutAdds
    <3> HIDE DEF c
    <3> QED BY <3>1, <3>2, <3>3, FitKeeps
  <2>2. CASE DrainedTokens[address[m0]] # [ref |-> m0, token |-> key[t].token]
    BY <2>2 DEF Store, Became
  <2> QED BY <2>1, <2>2
<1>6. \A k \in DOMAIN entries' :
         \/ /\ k \in DOMAIN entries /\ entries'[k] = entries[k]
            /\ \A r \in retired : r.token # k.token
         \/ k = key[t] /\ entries'[k] = Plan(t) /\ Current(m0, key[t].token)
  BY <1>5, DrainEntries
<1>7. key[t] \in Keys /\ Plan(t) \in Plans
  BY <1>4 DEF TypeOK, Plan, Plans, Keys
<1>8. TypeOK'
  <2>1. /\ DOMAIN entries' \subseteq Keys
        /\ \A k \in DOMAIN entries' : entries'[k] \in Plans
    BY <1>6, <1>7 DEF TypeOK
  <2>2. /\ tokens' \in [Ids -> [ref : Models \cup {NoModel}, token : Nat]]
        /\ nextToken' \in Nat \ {0} /\ retired' \subseteq [id : Ids, token : Nat]
    BY <1>0, DrainType DEF TypeOK
  <2>3. NoKey \in Keys
    BY <1>7 DEF NoKey, Keys
  <2>4. /\ pc' \in [Threads -> {"idle", "compile", "probe", "announce", "store"}]
        /\ model' \in [Threads -> Models \cup {NoModel}]
        /\ key' \in [Threads -> Keys]
        /\ looked' \in [Threads -> SUBSET Sources]
        /\ zones' \in [Threads -> SUBSET Sources]
    BY <2>3 DEF TypeOK, Store, Return, GoTo
  <2> QED BY <1>0, <1>1, <2>1, <2>2, <2>4 DEF TypeOK, zoneVars
<1>9. ModelsInv'
  BY <1>0, <1>1, <1>3 DEF ModelsInv, TypeOK
<1>10. TokensInv'
  <2>1. \A i \in Ids : tokens'[i] = tokens[i] \/ tokens'[i] = Absent
    BY <1>0, DrainType
  <2>2. \A i \in Ids : tokens[i].token \in Nat
    BY DEF TypeOK
  <2>3. nextToken \in Nat \ {0}
    BY DEF TypeOK
  <2>4. \A k \in DOMAIN entries' : k.token < nextToken
    BY <1>6 DEF TokensInv, ThreadTokens
  <2> QED BY <1>0, <2>1, <2>2, <2>3, <2>4 DEF TokensInv, Absent
<1>11. ThreadTokens'
  <2>1. NoKey.token = 0 /\ nextToken \in Nat \ {0}
    BY DEF NoKey, TypeOK
  <2> SUFFICES ASSUME NEW u \in Threads
               PROVE  (/\ key[u].token < nextToken
                       /\ model[u] # NoModel /\ key[u].token # 0 =>
                            Current(model[u], key[u].token))'
    BY DEF ThreadTokens
  <2>2. CASE u = t
    <3>1. key'[u] = NoKey /\ model'[u] = NoModel
      BY <1>1, <2>2
    <3> QED BY <1>0, <2>1, <3>1
  <2>3. CASE u # t
    <3>1. model'[u] = model[u] /\ key'[u] = key[u] /\ model[u] \in Models \cup {NoModel}
      BY <1>1, <2>3 DEF TypeOK
    <3> QED BY <1>0, <1>2, <3>1 DEF ThreadTokens
  <2> QED BY <2>2, <2>3
<1>12. EntriesOwn'
  <2>1. Plan(t).query = key[t].query /\ Plan(t).model = m0
    BY DEF Plan
  <2>2. ASSUME NEW m \in Models, Current(m, key[t].token), Current(m0, key[t].token)
        PROVE  m = m0
    BY <1>4, <2>2, CurrentIsUnique
  <2> QED BY <1>2, <1>6, <2>1, <2>2 DEF EntriesOwn
<1>13. ProbesInv'
  BY <1>0, <1>1 DEF ProbesInv, zoneVars
<1>14. ZonesInv'
  <2>1. Plan(t).zones = zones[t] /\ looked[t] = Reads[key[t].query]
    BY <1>1 DEF Plan, ZonesInv
  <2>2. \A k \in DOMAIN entries' :
          /\ k.epoch <= epoch
          /\ k.epoch = epoch => Reads[k.query] \cap announced \subseteq entries'[k].zones
    BY <1>6, <2>1 DEF ZonesInv
  <2>3. NoKey.epoch = 0 /\ epoch \in Nat
    BY DEF NoKey, TypeOK
  <2>4. \A u \in Threads :
          /\ key'[u].epoch <= epoch
          /\ key'[u].epoch = epoch => looked'[u] \cap announced \subseteq zones'[u]
          /\ pc'[u] = "store" => looked'[u] = Reads[key'[u].query]
          /\ model'[u] = NoModel => looked'[u] = {}
    BY <1>1, <2>3 DEF ZonesInv
  <2> QED BY <1>0, <2>2, <2>4 DEF ZonesInv, zoneVars
<1>15. RetiredLeave'
  <2> SUFFICES ASSUME NEW k \in DOMAIN entries'
               PROVE  \E m \in Models : Current(m, k.token)'
    BY DEF RetiredLeave, Current
  <2>1. \E m \in Models : Current(m, k.token)
    BY <1>4, <1>6 DEF RetiredLeave, Current
  <2> QED BY <1>2, <2>1
<1>16. RefsInv'
  BY <1>0, DrainType, CompilationCacheAssumption DEF RefsInv, Absent
<1> QED BY <1>8, <1>9, <1>10, <1>11, <1>12, <1>13, <1>14, <1>15, <1>16

\* A lookup: the model's token is its own, or a fresh one that no entry, no
\* thread and no retired model has.
LEMMA LookupKeeps ==
    ASSUME Inv, NEW t \in Threads, NEW m0 \in Models, NEW q \in Queries, Lookup(t, m0, q)
    PROVE  Inv'
<1> USE DEF Inv
<1> DEFINE i0 == address[m0]
           isKnown == DrainedTokens[i0].ref = m0
           token0 == IF isKnown THEN DrainedTokens[i0].token ELSE nextToken
           k0 == [token |-> token0, epoch |-> epoch, query |-> q]
<1>1. /\ pc[t] = "idle" /\ Live(m0)
      /\ tokens' = [DrainedTokens EXCEPT ![i0] = [ref |-> m0, token |-> token0]]
      /\ nextToken' = IF isKnown THEN nextToken ELSE nextToken + 1
      /\ retired' = {}
      /\ address' = address /\ collected' = collected
      /\ UNCHANGED zoneVars
  BY DEF Lookup, modelVars
<1>2. entries' = Drained.entries
  BY DEF Lookup, Became, Drained, Drop
<1>3. \/ UNCHANGED threadVars
      \/ StartCompiling(t, m0, k0)
  BY DEF Lookup
<1>4. i0 \in Ids /\ m0 # NoModel
  BY <1>1, CompilationCacheAssumption DEF Live, TypeOK
<1>5. nextToken \in Nat \ {0} /\ \A i \in Ids : tokens[i].token \in Nat
  BY DEF TypeOK
<1>6. token0 \in Nat /\ token0 # 0 /\ token0 < nextToken'
  <2>1. CASE isKnown
    <3>1. DrainedTokens[i0] = tokens[i0]
      BY <1>4, <2>1, DrainType DEF Absent
    <3>2. tokens[i0].ref # NoModel
      BY <1>4, <2>1, <3>1
    <3> QED BY <1>1, <1>4, <1>5, <2>1, <3>1, <3>2 DEF TokensInv
  <2>2. CASE ~isKnown
    BY <1>1, <1>5, <2>2
  <2> QED BY <2>1, <2>2
<1> HIDE DEF token0
<1>7. \A i \in Ids : tokens'[i] = IF i = i0 THEN [ref |-> m0, token |-> token0]
                                  ELSE DrainedTokens[i]
  BY <1>1, DrainType
<1>8. k0 \in Keys
  BY <1>6 DEF Keys, TypeOK
\* The tokens of other models stay, and m0's stays if it had one.
<1>9. \A m \in Models : \A token : Current(m, token) => Current(m, token)'
  <2> SUFFICES ASSUME NEW m \in Models, NEW token, Current(m, token)
               PROVE  Current(m, token)'
    OBVIOUS
  <2>1. Live(m) /\ address[m] \in Ids
    BY DEF Current, Live, TypeOK
  <2>2. DrainedTokens[address[m]] = [ref |-> m, token |-> token]
    BY <2>1, DrainTokens
  <2>3. tokens'[address[m]] = [ref |-> m, token |-> token]
    BY <1>1, <1>4, <1>7, <2>1, <2>2 DEF ModelsInv, token0
  <2> QED BY <1>1, <2>1, <2>3 DEF Current, Live
\* What becomes current is fresh.
<1>10. \A m \in Models : \A token :
          Current(m, token)' => Current(m, token) \/ (m = m0 /\ token = nextToken)
  <2> SUFFICES ASSUME NEW m \in Models, NEW token, Current(m, token)'
               PROVE  Current(m, token) \/ (m = m0 /\ token = nextToken)
    OBVIOUS
  <2>1. Live(m) /\ address[m] \in Ids /\ tokens'[address[m]] = [ref |-> m, token |-> token]
    BY <1>1 DEF Current, Live, TypeOK
  <2>2. CASE address[m] = i0
    <3>1. m = m0 /\ token = token0
      BY <1>4, <1>7, <2>1, <2>2
    <3>2. CASE isKnown
      <4>1. DrainedTokens[i0] = tokens[i0]
        BY <1>4, <3>2, DrainType DEF Absent
      <4>2. tokens[i0] \in [ref : Models \cup {NoModel}, token : Nat]
        BY <1>4 DEF TypeOK
      <4> QED BY <2>1, <2>2, <3>1, <3>2, <4>1, <4>2 DEF Current, token0
    <3>3. CASE ~isKnown
      BY <3>1, <3>3 DEF token0
    <3> QED BY <3>2, <3>3
  <2>3. CASE address[m] # i0
    BY <1>7, <2>1, <2>3, DrainTokens
  <2> QED BY <2>2, <2>3
<1>11. \A k \in DOMAIN entries' :
          /\ k \in DOMAIN entries /\ entries'[k] = entries[k]
          /\ \A r \in retired : r.token # k.token
  BY <1>2, DrainEntries
<1>12. \A u \in Threads :
          \/ /\ pc'[u] = pc[u] /\ model'[u] = model[u] /\ key'[u] = key[u]
          \/ /\ u = t /\ pc'[u] = "compile" /\ model'[u] = m0 /\ key'[u] = k0
  BY <1>3 DEF threadVars, StartCompiling, GoTo, TypeOK
<1>13. looked' = looked /\ zones' = zones /\ probe' = probe
  BY <1>3 DEF threadVars, StartCompiling
<1>14. TypeOK'
  <2>1. /\ tokens' \in [Ids -> [ref : Models \cup {NoModel}, token : Nat]]
        /\ nextToken' \in Nat \ {0} /\ retired' \subseteq [id : Ids, token : Nat]
    BY <1>1, <1>4, <1>5, <1>6, DrainType
  <2>2. /\ pc' \in [Threads -> {"idle", "compile", "probe", "announce", "store"}]
        /\ model' \in [Threads -> Models \cup {NoModel}]
        /\ key' \in [Threads -> Keys]
    BY <1>3, <1>8 DEF TypeOK, threadVars, StartCompiling, GoTo
  <2> QED BY <1>1, <1>11, <1>13, <2>1, <2>2 DEF TypeOK, zoneVars
<1>15. ModelsInv'
  BY <1>1, <1>4, <1>12 DEF ModelsInv, Live
<1>16. TokensInv'
  <2>1. \A i \in Ids : DrainedTokens[i] = tokens[i] \/ DrainedTokens[i] = Absent
    BY DrainType
  <2>2. \A i \in Ids : DrainedTokens[i].token < nextToken /\ DrainedTokens[i].token \in Nat
    BY <1>5, <2>1 DEF TokensInv, Absent
  <2>3. \A i \in Ids : DrainedTokens[i].ref # NoModel => DrainedTokens[i].token # 0
    BY <2>1 DEF TokensInv, Absent
  <2>4. \A i, j \in Ids :
          DrainedTokens[i].token = DrainedTokens[j].token /\ DrainedTokens[i].token # 0
              => i = j
    <3> SUFFICES ASSUME NEW i \in Ids, NEW j \in Ids,
                        DrainedTokens[i].token = DrainedTokens[j].token,
                        DrainedTokens[i].token # 0
                 PROVE  i = j
      OBVIOUS
    <3>1. DrainedTokens[i] # Absent /\ DrainedTokens[j] # Absent
      BY DEF Absent
    <3>2. DrainedTokens[i] = tokens[i] /\ DrainedTokens[j] = tokens[j]
      BY <2>1, <3>1
    <3> QED BY <3>2 DEF TokensInv
  <2>5. \A i \in Ids : i # i0 => DrainedTokens[i].token # token0
    BY <1>4, <1>6, <2>2, <2>4 DEF token0
  <2>6. nextToken' \in Nat /\ nextToken <= nextToken'
    BY <1>1, <1>5
  <2>7. \A i \in Ids : tokens'[i].token < nextToken'
    BY <1>5, <1>6, <1>7, <2>2, <2>6
  <2>8. \A i \in Ids : tokens'[i].ref # NoModel => tokens'[i].token # 0
    BY <1>6, <1>7, <2>3
  <2>9. \A i, j \in Ids : tokens'[i].token = tokens'[j].token /\ tokens'[i].token # 0 => i = j
    <3> SUFFICES ASSUME NEW i \in Ids, NEW j \in Ids, i # j, tokens'[i].token # 0
                 PROVE  tokens'[i].token # tokens'[j].token
      OBVIOUS
    <3>1. CASE i = i0
      BY <1>7, <2>5, <3>1
    <3>2. CASE j = i0
      BY <1>7, <2>5, <3>2
    <3>3. CASE i # i0 /\ j # i0
      BY <1>7, <2>4, <3>3
    <3> QED BY <3>1, <3>2, <3>3
  <2>10. \A k \in DOMAIN entries' : k.token < nextToken'
    <3> SUFFICES ASSUME NEW k \in DOMAIN entries' PROVE k.token < nextToken'
      OBVIOUS
    <3>1. k.token < nextToken /\ k.token \in Nat
      BY <1>11 DEF TokensInv, TypeOK, Keys
    <3> QED BY <1>5, <2>6, <3>1
  <2> QED BY <1>1, <2>7, <2>8, <2>9, <2>10 DEF TokensInv
<1>17. ThreadTokens'
  <2> SUFFICES ASSUME NEW u \in Threads
               PROVE  (/\ key[u].token < nextToken
                       /\ model[u] # NoModel /\ key[u].token # 0 =>
                            Current(model[u], key[u].token))'
    BY DEF ThreadTokens
  <2>1. CASE model'[u] = model[u] /\ key'[u] = key[u]
    <3>1. model[u] \in Models \cup {NoModel} /\ key[u].token \in Nat
      BY DEF TypeOK, Keys
    <3>2. key[u].token < nextToken'
      BY <1>1, <1>5, <3>1 DEF ThreadTokens
    <3> QED BY <1>9, <2>1, <3>1, <3>2 DEF ThreadTokens
  <2>2. CASE model'[u] = m0 /\ key'[u] = k0
    <3>1. \A token : token = token0 => Current(m0, token)'
      BY <1>1, <1>4, <1>7 DEF Current, Live
    <3> QED BY <1>6, <2>2, <3>1
  <2> QED BY <1>12, <2>1, <2>2
<1>18. EntriesOwn'
  <2>1. \A k \in DOMAIN entries' : k.token # nextToken
    BY <1>5, <1>11 DEF TokensInv
  <2> QED BY <1>10, <1>11, <2>1 DEF EntriesOwn
<1>19. ProbesInv'
  BY <1>1, <1>12, <1>13 DEF ProbesInv, zoneVars
<1>20. ZonesInv'
  <2>1. k0.epoch = epoch /\ epoch \in Nat
    BY DEF TypeOK
  <2>2. pc[t] = "idle" => looked[t] \cap announced \subseteq zones[t]
    BY DEF ModelsInv, ZonesInv
  <2> QED BY <1>1, <1>4, <1>11, <1>12, <1>13, <2>1, <2>2 DEF ZonesInv, zoneVars
<1>21. RetiredLeave'
  <2> SUFFICES ASSUME NEW k \in DOMAIN entries'
               PROVE  \E m \in Models : Current(m, k.token)'
    BY DEF RetiredLeave, Current
  <2>1. \E m \in Models : Current(m, k.token)
    BY <1>11 DEF RetiredLeave, Current
  <2> QED BY <1>9, <2>1
<1>22. RefsInv'
  BY <1>1, <1>4, <1>7, DrainType, CompilationCacheAssumption DEF RefsInv, Absent
<1> QED BY <1>14, <1>15, <1>16, <1>17, <1>18, <1>19, <1>20, <1>21, <1>22

-----------------------------------------------------------------------------
(* Steps of the models, and the clear                                      *)

LEMMA LoadKeeps ==
    ASSUME Inv, NEW m0 \in Models, NEW i0 \in Ids, Load(m0, i0)
    PROVE  Inv'
<1> USE DEF Inv
<1>1. /\ ~Live(m0) /\ m0 \notin collected /\ \A n \in Models : address[n] # i0
      /\ address' = [address EXCEPT ![m0] = i0]
      /\ UNCHANGED <<cacheVars, collected, zoneVars, threadVars>>
  BY DEF Load
<1>2. i0 # NoId
  BY CompilationCacheAssumption
<1>3. \A m \in Models : address'[m] = IF m = m0 THEN i0 ELSE address[m]
  BY <1>1 DEF TypeOK
<1>4. \A m \in Models : Live(m)' <=> Live(m) \/ m = m0
  BY <1>2, <1>3 DEF Live
\* A model that is not live has left no token that is its own.
<1>5. \A m \in Models : \A token : Current(m, token)' <=> Current(m, token)
  <2> SUFFICES ASSUME NEW m \in Models, NEW token
               PROVE  Current(m, token)' <=> Current(m, token)
    OBVIOUS
  <2>1. CASE m = m0
    <3>1. tokens'[i0].ref # m0
      BY <1>1 DEF RefsInv, cacheVars
    <3> QED BY <1>1, <1>3, <2>1, <3>1 DEF Current
  <2>2. CASE m # m0
    BY <1>1, <1>3, <1>4, <2>2 DEF Current, cacheVars
  <2> QED BY <2>1, <2>2
<1>6. TypeOK'
  BY <1>1 DEF TypeOK, cacheVars, zoneVars, threadVars
<1>7. ModelsInv'
  BY <1>1, <1>3, <1>4 DEF ModelsInv, threadVars, TypeOK, Live
<1>8. TokensInv' /\ EntriesOwn'
  BY <1>1, <1>5 DEF TokensInv, EntriesOwn, cacheVars
<1>9. ThreadTokens'
  BY <1>1, <1>5 DEF ThreadTokens, cacheVars, threadVars, TypeOK
<1>10. ProbesInv' /\ ZonesInv'
  BY <1>1 DEF ProbesInv, ZonesInv, cacheVars, zoneVars, threadVars
<1>11. RetiredLeave'
  BY <1>1, <1>5 DEF RetiredLeave, Current, cacheVars
<1>12. RefsInv'
  BY <1>1, <1>3, CompilationCacheAssumption DEF RefsInv, Live, cacheVars
<1> QED BY <1>6, <1>7, <1>8, <1>9, <1>10, <1>11, <1>12

\* A model goes: its token, if it had one, is no longer current, and is queued.
LEMMA CollectKeeps ==
    ASSUME Inv, NEW m0 \in Models, Collect(m0)
    PROVE  Inv'
<1> USE DEF Inv
<1> DEFINE i0 == address[m0]
<1>1. /\ Live(m0) /\ \A t \in Threads : model[t] # m0
      /\ collected' = collected \cup {m0}
      /\ address' = [address EXCEPT ![m0] = NoId]
      /\ retired' = IF tokens[i0].ref = m0
                    THEN retired \cup {[id |-> i0, token |-> tokens[i0].token]}
                    ELSE retired
      /\ UNCHANGED <<entries, older, bytes, tokens, nextToken, zoneVars, threadVars>>
  BY DEF Collect
<1>2. i0 \in Ids
  BY <1>1 DEF TypeOK, Live
<1>3. \A m \in Models : address'[m] = IF m = m0 THEN NoId ELSE address[m]
  BY <1>1 DEF TypeOK
<1>4. \A m \in Models : Live(m)' <=> Live(m) /\ m # m0
  BY <1>3 DEF Live
<1>5. \A m \in Models : \A token : Current(m, token)' <=> Current(m, token) /\ m # m0
  BY <1>1, <1>3, <1>4 DEF Current
<1>6. TypeOK'
  <2>1. retired' \subseteq [id : Ids, token : Nat]
    BY <1>1, <1>2 DEF TypeOK
  <2> QED BY <1>1, <2>1 DEF TypeOK, zoneVars, threadVars
<1>7. ModelsInv'
  BY <1>1, <1>3, <1>4 DEF ModelsInv, threadVars, TypeOK, Live
<1>8. TokensInv'
  <2>1. \A r \in retired' : r.token < nextToken
    BY <1>1, <1>2 DEF TokensInv
  <2>2. \A m \in Models, r \in retired' : ~Current(m, r.token)'
    <3> SUFFICES ASSUME NEW m \in Models, NEW r \in retired', Current(m, r.token)'
                 PROVE  FALSE
      OBVIOUS
    <3>1. Current(m, r.token) /\ m # m0
      BY <1>5
    <3>2. r.token = tokens[i0].token /\ tokens[i0].ref = m0
      BY <1>1, <3>1 DEF TokensInv
    <3>3. tokens[i0] = [ref |-> m0, token |-> r.token]
      BY <1>2, <3>2 DEF TypeOK
    <3>4. Current(m0, r.token)
      BY <1>1, <3>3 DEF Current
    <3> QED BY <3>1, <3>4, CurrentIsUnique
  <2> QED BY <1>1, <2>1, <2>2 DEF TokensInv
<1>9. EntriesOwn'
  BY <1>1, <1>5 DEF EntriesOwn
<1>10. ThreadTokens'
  BY <1>1, <1>5 DEF ThreadTokens, threadVars, TypeOK
<1>11. ProbesInv' /\ ZonesInv'
  BY <1>1 DEF ProbesInv, ZonesInv, zoneVars, threadVars
<1>12. RetiredLeave'
  <2> SUFFICES ASSUME NEW k \in DOMAIN entries'
               PROVE  \/ \E m \in Models : Current(m, k.token)'
                      \/ \E r \in retired' : r.token = k.token
    BY DEF RetiredLeave, Current
  <2>1. \/ \E m \in Models : Current(m, k.token)
        \/ \E r \in retired : r.token = k.token
    BY <1>1 DEF RetiredLeave, Current
  <2>2. ASSUME Current(m0, k.token)
        PROVE  \E r \in retired' : r.token = k.token
    <3>1. tokens[i0] = [ref |-> m0, token |-> k.token]
      BY <2>2 DEF Current
    <3>2. [id |-> i0, token |-> tokens[i0].token] \in retired'
      BY <1>1, <3>1
    <3> QED BY <3>1, <3>2
  <2>3. retired \subseteq retired'
    BY <1>1
  <2> QED BY <1>5, <2>1, <2>2, <2>3
<1>13. RefsInv'
  BY <1>1, <1>3 DEF RefsInv
<1> QED BY <1>6, <1>7, <1>8, <1>9, <1>10, <1>11, <1>12, <1>13

LEMMA ClearKeeps ==
    ASSUME Inv, Clear
    PROVE  Inv'
<1> USE DEF Inv
<1>1. /\ entries' = [k \in {} |-> NoModel]
      /\ UNCHANGED <<tokens, nextToken, retired, modelVars, zoneVars, threadVars>>
  BY DEF Clear
<1>2. DOMAIN entries' = {}
  BY <1>1
<1>3. TypeOK'
  BY <1>1, <1>2 DEF TypeOK, modelVars, zoneVars, threadVars
<1>4. ModelsInv' /\ ThreadTokens' /\ ProbesInv' /\ RefsInv'
  BY <1>1 DEF ModelsInv, ThreadTokens, RefsInv, ProbesInv, Current, Live, modelVars, zoneVars,
              threadVars
<1>5. TokensInv' /\ EntriesOwn' /\ RetiredLeave'
  BY <1>1, <1>2 DEF TokensInv, EntriesOwn, RetiredLeave, Current, Live, modelVars
<1>6. ZonesInv'
  BY <1>1, <1>2 DEF ZonesInv, zoneVars, threadVars
<1> QED BY <1>3, <1>4, <1>5, <1>6

-----------------------------------------------------------------------------
(* Steps of threads that leave the cache and the models alone              *)

\* Half of the invariant speaks of the cache and the models only.
LEMMA OthersKeep ==
    ASSUME Inv, UNCHANGED <<cacheVars, modelVars>>
    PROVE  /\ \A m \in Models : \A token : Current(m, token)' <=> Current(m, token)
           /\ \A m \in Models : Live(m)' <=> Live(m)
           /\ TokensInv' /\ RefsInv' /\ EntriesOwn' /\ RetiredLeave'
BY DEF Inv, Current, Live, cacheVars, modelVars, TokensInv, RefsInv, EntriesOwn, RetiredLeave

\* What a step of thread t does to a thread's variables, said pointwise.
LEMMA ReturnIs ==
    ASSUME TypeOK, NEW t \in Threads, Return(t)
    PROVE  \A u \in Threads : /\ pc'[u] = IF u = t THEN "idle" ELSE pc[u]
                              /\ model'[u] = IF u = t THEN NoModel ELSE model[u]
                              /\ key'[u] = IF u = t THEN NoKey ELSE key[u]
                              /\ looked'[u] = IF u = t THEN {} ELSE looked[u]
                              /\ zones'[u] = IF u = t THEN {} ELSE zones[u]
BY DEF TypeOK, Return, GoTo

\* A thread that returns has nothing the invariant asks about.
LEMMA ReturnKeeps ==
    ASSUME Inv, NEW t \in Threads, pc[t] = "compile", Return(t),
           UNCHANGED <<cacheVars, modelVars, zoneVars>>
    PROVE  Inv'
<1> USE DEF Inv
<1>1. NoKey.token = 0 /\ NoKey.epoch = 0 /\ NoKey \in Keys
  <2>1. key[t].query \in Queries
    BY DEF TypeOK, Keys
  <2> QED BY <2>1 DEF NoKey, Keys
<1>2. TypeOK'
  <2>1. /\ pc' \in [Threads -> {"idle", "compile", "probe", "announce", "store"}]
        /\ model' \in [Threads -> Models \cup {NoModel}]
        /\ key' \in [Threads -> Keys]
        /\ looked' \in [Threads -> SUBSET Sources]
        /\ zones' \in [Threads -> SUBSET Sources]
    BY <1>1 DEF TypeOK, Return, GoTo
  <2> QED BY <2>1 DEF TypeOK, Return, cacheVars, modelVars, zoneVars
<1>3. ModelsInv'
  BY ReturnIs DEF ModelsInv, Live, modelVars
<1>4. ThreadTokens'
  <2> SUFFICES ASSUME NEW u \in Threads
               PROVE  (/\ key[u].token < nextToken
                       /\ model[u] # NoModel /\ key[u].token # 0 =>
                            Current(model[u], key[u].token))'
    BY DEF ThreadTokens
  <2>1. nextToken' = nextToken /\ nextToken \in Nat \ {0}
    BY DEF cacheVars, TypeOK
  <2>2. CASE u = t
    <3>1. key'[u] = NoKey /\ model'[u] = NoModel
      BY <2>2, ReturnIs
    <3> QED BY <1>1, <2>1, <3>1
  <2>3. CASE u # t
    <3>1. model'[u] = model[u] /\ key'[u] = key[u] /\ model[u] \in Models \cup {NoModel}
      BY <2>3, ReturnIs DEF TypeOK
    <3> QED BY <2>1, <3>1, OthersKeep DEF ThreadTokens
  <2> QED BY <2>2, <2>3
<1>5. ProbesInv'
  <2>1. probe' = probe
    BY DEF Return
  <2> QED BY <2>1, ReturnIs DEF ProbesInv, zoneVars
<1>6. ZonesInv'
  <2>1. epoch \in Nat
    BY DEF TypeOK
  <2> QED BY <1>1, <2>1, ReturnIs DEF ZonesInv, zoneVars, cacheVars
<1> QED BY <1>2, <1>3, <1>4, <1>5, <1>6, OthersKeep

LEMMA CompileUncachedKeeps ==
    ASSUME Inv, NEW t \in Threads, NEW m0 \in Models, NEW q \in Queries,
           CompileUncached(t, m0, q)
    PROVE  Inv'
<1> USE DEF Inv
<1> DEFINE k0 == [token |-> 0, epoch |-> epoch, query |-> q]
<1>1. /\ pc[t] = "idle" /\ Live(m0)
      /\ UNCHANGED <<cacheVars, modelVars, zoneVars>>
      /\ looked' = looked /\ zones' = zones /\ probe' = probe
  BY DEF CompileUncached, StartCompiling
<1>2. \A u \in Threads : /\ pc'[u] = IF u = t THEN "compile" ELSE pc[u]
                         /\ model'[u] = IF u = t THEN m0 ELSE model[u]
                         /\ key'[u] = IF u = t THEN k0 ELSE key[u]
  BY DEF CompileUncached, StartCompiling, GoTo, TypeOK
<1>3. k0 \in Keys /\ k0.epoch = epoch /\ k0.token = 0 /\ epoch \in Nat
  BY DEF Keys, TypeOK
<1> HIDE DEF k0
<1>4. m0 # NoModel
  BY CompilationCacheAssumption
<1>5. TypeOK'
  <2>1. /\ pc' \in [Threads -> {"idle", "compile", "probe", "announce", "store"}]
        /\ model' \in [Threads -> Models \cup {NoModel}]
        /\ key' \in [Threads -> Keys]
    BY <1>3 DEF TypeOK, CompileUncached, StartCompiling, GoTo, k0
  <2> QED BY <1>1, <2>1 DEF TypeOK, cacheVars, modelVars, zoneVars
<1>6. ModelsInv'
  BY <1>1, <1>2, <1>4 DEF ModelsInv, Live, modelVars
<1>7. ThreadTokens'
  <2> SUFFICES ASSUME NEW u \in Threads
               PROVE  (/\ key[u].token < nextToken
                       /\ model[u] # NoModel /\ key[u].token # 0 =>
                            Current(model[u], key[u].token))'
    BY DEF ThreadTokens
  <2>1. nextToken' = nextToken /\ nextToken \in Nat \ {0}
    BY <1>1 DEF cacheVars, TypeOK
  <2>2. CASE u = t
    <3>1. key'[u].token = 0
      BY <1>2, <1>3, <2>2
    <3> QED BY <2>1, <3>1
  <2>3. CASE u # t
    <3>1. model'[u] = model[u] /\ key'[u] = key[u] /\ model[u] \in Models \cup {NoModel}
      BY <1>2, <2>3 DEF TypeOK
    <3> QED BY <1>1, <2>1, <3>1, OthersKeep DEF ThreadTokens
  <2> QED BY <2>2, <2>3
<1>8. ProbesInv'
  BY <1>1, <1>2 DEF ProbesInv, zoneVars
<1>9. ZonesInv'
  <2>1. looked[t] = {}
    BY <1>1 DEF ModelsInv, ZonesInv
  <2> QED BY <1>1, <1>2, <1>3, <1>4, <2>1 DEF ZonesInv, zoneVars, cacheVars
<1> QED BY <1>1, <1>5, <1>6, <1>7, <1>8, <1>9, OthersKeep

\* What the steps of a compilation leave alone, and what follows of it: the
\* thread keeps its model and its key.
Onward == UNCHANGED <<cacheVars, modelVars, model, key>>

LEMMA OnwardKeeps ==
    ASSUME Inv, Onward
    PROVE  /\ TokensInv' /\ RefsInv' /\ EntriesOwn' /\ RetiredLeave' /\ ThreadTokens'
           /\ \A u \in Threads : model[u] # NoModel => Live(model[u])'
<1>1. UNCHANGED <<cacheVars, modelVars>>
  BY DEF Onward
<1>2. ThreadTokens'
  BY DEF Inv, Onward, ThreadTokens, Current, Live, cacheVars, modelVars
<1>3. \A u \in Threads : model[u] # NoModel => Live(model[u])'
  BY DEF Inv, Onward, ModelsInv, Live, modelVars
<1> QED BY <1>1, <1>2, <1>3, OthersKeep

LEMMA CompileEndsKeeps ==
    ASSUME Inv, NEW t \in Threads, CompileEnds(t)
    PROVE  Inv'
<1> USE DEF Inv
<1>1. /\ pc[t] = "compile" /\ looked[t] = Reads[key[t].query]
      /\ UNCHANGED <<cacheVars, modelVars, zoneVars>>
  BY DEF CompileEnds
<1>2. CASE Return(t)
  BY <1>1, <1>2, ReturnKeeps
<1>3. CASE GoTo(t, "store") /\ UNCHANGED <<model, key, looked, zones, probe>>
  <2>1. \A u \in Threads : pc'[u] = IF u = t THEN "store" ELSE pc[u]
    BY <1>3 DEF TypeOK, GoTo
  <2>2. Onward
    BY <1>1, <1>3 DEF Onward
  <2>3. TypeOK'
    <3>1. pc' \in [Threads -> {"idle", "compile", "probe", "announce", "store"}]
      BY <1>3 DEF TypeOK, GoTo
    <3> QED BY <1>1, <1>3, <3>1 DEF TypeOK, cacheVars, modelVars, zoneVars
  <2>4. ModelsInv'
    BY <1>1, <1>3, <2>1 DEF ModelsInv, Live, modelVars
  <2>5. ProbesInv'
    BY <1>1, <1>3, <2>1 DEF ProbesInv, zoneVars
  <2>6. ZonesInv'
    BY <1>1, <1>3, <2>1 DEF ZonesInv, zoneVars, cacheVars
  <2> QED BY <2>2, <2>3, <2>4, <2>5, <2>6, OnwardKeeps
<1> QED BY <1>2, <1>3 DEF CompileEnds

\* A zone is asked for: what the epoch has counted is known.
LEMMA ConsultKeeps ==
    ASSUME Inv, NEW t \in Threads, NEW s \in Sources, pc[t] = "compile",
           NEW b \in BOOLEAN, Consult(t, s, b), s \in announced => b,
           UNCHANGED <<cacheVars, modelVars, zoneVars, pc, model, key, probe>>
    PROVE  Inv'
<1> USE DEF Inv
<1>1. Onward
  BY DEF Onward
<1>3. \A u \in Threads :
        /\ looked'[u] = IF u = t THEN looked[u] \cup {s} ELSE looked[u]
        /\ zones[u] \subseteq zones'[u] /\ (u = t /\ b => s \in zones'[u])
  BY DEF Consult, TypeOK
<1>4. TypeOK'
  <2>1. /\ looked' \in [Threads -> SUBSET Sources]
        /\ zones' \in [Threads -> SUBSET Sources]
    BY DEF Consult, TypeOK
  <2> QED BY <2>1 DEF TypeOK, cacheVars, modelVars, zoneVars
<1>5. ModelsInv' /\ ProbesInv'
  BY DEF ModelsInv, ProbesInv, Live, modelVars, zoneVars
<1>6. model[t] # NoModel
  BY DEF ModelsInv
<1>7. ZonesInv'
  <2>1. \A u \in Threads : looked[u] \cap announced \subseteq zones[u] =>
                             looked'[u] \cap announced \subseteq zones'[u]
    BY <1>3
  <2>2. \A u \in Threads : pc[u] = "store" \/ model[u] = NoModel => looked'[u] = looked[u]
    BY <1>3, <1>6
  <2> QED BY <2>1, <2>2 DEF ZonesInv, zoneVars, cacheVars
<1> QED BY <1>1, <1>4, <1>5, <1>7, OnwardKeeps

LEMMA StartProbeKeeps ==
    ASSUME Inv, NEW t \in Threads, NEW s \in Sources, StartProbe(t, s)
    PROVE  Inv'
<1> USE DEF Inv
<1>1. /\ pc[t] \in {"compile", "idle"} /\ s \notin detected
      /\ detected' = detected \cup {s}
      /\ UNCHANGED <<cacheVars, modelVars, known, epoch, announced, model, key, looked, zones>>
  BY DEF StartProbe
<1>2. Onward
  BY <1>1 DEF Onward
<1>3. \A u \in Threads : /\ pc'[u] = IF u = t THEN "probe" ELSE pc[u]
                         /\ probe'[u] = IF u = t THEN s ELSE probe[u]
  BY DEF StartProbe, GoTo, TypeOK
<1>4. s # NoSource
  BY CompilationCacheAssumption
<1>5. TypeOK'
  <2>1. /\ pc' \in [Threads -> {"idle", "compile", "probe", "announce", "store"}]
        /\ probe' \in [Threads -> Sources \cup {NoSource}]
    BY DEF StartProbe, GoTo, TypeOK
  <2> QED BY <1>1, <2>1 DEF TypeOK, cacheVars, modelVars
<1>6. ModelsInv'
  BY <1>1, <1>3 DEF ModelsInv, Live, modelVars
<1>7. ProbesInv'
  BY <1>1, <1>3, <1>4 DEF ProbesInv, TypeOK
<1>8. ZonesInv'
  BY <1>1, <1>3 DEF ZonesInv, cacheVars
<1> QED BY <1>2, <1>5, <1>6, <1>7, <1>8, OnwardKeeps

\* A probe is over, with an answer that makes the epoch count or without one.
LEMMA EndProbeKeeps ==
    ASSUME Inv, NEW t \in Threads, NEW b \in BOOLEAN, EndProbe(t, b),
           UNCHANGED <<cacheVars, modelVars, detected, known, model, key>>,
           \/ pc[t] = "probe" /\ UNCHANGED <<epoch, announced>>
           \/ /\ pc[t] = "announce" /\ epoch' = epoch + 1
              /\ announced' = announced \cup {probe[t]} /\ probe[t] \in known
    PROVE  Inv'
<1> USE DEF Inv
<1>1. Onward
  BY DEF Onward
<1>2. probe[t] # NoSource /\ probe[t] \in Sources
  BY DEF ProbesInv, TypeOK
<1>3. \A u \in Threads :
        /\ probe'[u] = IF u = t THEN NoSource ELSE probe[u]
        /\ pc'[u] = IF u # t THEN pc[u] ELSE IF model[u] = NoModel THEN "idle" ELSE "compile"
  BY DEF EndProbe, GoTo, TypeOK
<1>4. \A u \in Threads : \/ looked'[u] = looked[u] /\ zones'[u] = zones[u]
                         \/ /\ u = t /\ model[u] # NoModel
                            /\ looked'[u] = looked[u] \cup {probe[t]}
                            /\ zones[u] \subseteq zones'[u]
  BY DEF EndProbe, Consult, TypeOK
<1>5. TypeOK'
  <2>1. /\ pc' \in [Threads -> {"idle", "compile", "probe", "announce", "store"}]
        /\ probe' \in [Threads -> Sources \cup {NoSource}]
    BY DEF EndProbe, GoTo, TypeOK
  <2>2. /\ looked' \in [Threads -> SUBSET Sources]
        /\ zones' \in [Threads -> SUBSET Sources]
    BY <1>2 DEF EndProbe, Consult, TypeOK
  <2>3. epoch' \in Nat /\ announced' \subseteq known'
    BY DEF TypeOK
  <2> QED BY <2>1, <2>2, <2>3 DEF TypeOK, cacheVars, modelVars
<1>6. ModelsInv'
  BY <1>3 DEF ModelsInv, Live, modelVars
<1>7. ProbesInv'
  BY <1>3 DEF ProbesInv
<1>8. ZonesInv'
  <2>1. CASE pc[t] = "probe" /\ UNCHANGED <<epoch, announced>>
    <3>1. probe[t] \notin announced
      BY <2>1 DEF ProbesInv, TypeOK
    <3> QED BY <1>3, <1>4, <2>1, <3>1 DEF ZonesInv, cacheVars
  <2>2. CASE epoch' = epoch + 1
    <3>1. /\ \A k \in DOMAIN entries : k.epoch \in Nat
          /\ \A u \in Threads : key[u].epoch \in Nat
          /\ epoch \in Nat
      BY DEF TypeOK, Keys
    <3>2. /\ \A k \in DOMAIN entries : k.epoch <= epoch' /\ k.epoch # epoch'
          /\ \A u \in Threads : key[u].epoch <= epoch' /\ key[u].epoch # epoch'
      BY <2>2, <3>1 DEF ZonesInv
    <3>3. \A u \in Threads : /\ pc'[u] = "store" => looked'[u] = Reads[key[u].query]
                             /\ model[u] = NoModel => looked'[u] = {}
      BY <1>3, <1>4 DEF ZonesInv
    <3>4. entries' = entries /\ key' = key /\ model' = model
      BY DEF cacheVars
    <3> QED BY <3>2, <3>3, <3>4 DEF ZonesInv
  <2> QED BY <2>1, <2>2
<1> QED BY <1>1, <1>5, <1>6, <1>7, <1>8, OnwardKeeps

LEMMA RememberZoneKeeps ==
    ASSUME Inv, NEW t \in Threads, RememberZone(t)
    PROVE  Inv'
<1> USE DEF Inv
<1>1. /\ pc[t] = "probe" /\ known' = known \cup {probe[t]}
      /\ UNCHANGED <<cacheVars, modelVars, detected, epoch, announced, model, key,
                     looked, zones, probe>>
  BY DEF RememberZone
<1>2. Onward
  BY <1>1 DEF Onward
<1>3. \A u \in Threads : pc'[u] = IF u = t THEN "announce" ELSE pc[u]
  BY DEF RememberZone, GoTo, TypeOK
<1>4. probe[t] # NoSource
  BY <1>1 DEF ProbesInv
<1>5. TypeOK'
  <2>1. pc' \in [Threads -> {"idle", "compile", "probe", "announce", "store"}]
    BY DEF RememberZone, GoTo, TypeOK
  <2>2. known' \subseteq detected /\ known' \subseteq Sources
    BY <1>1, <1>4 DEF ProbesInv, TypeOK
  <2> QED BY <1>1, <2>1, <2>2 DEF TypeOK, cacheVars, modelVars
<1>6. ModelsInv'
  BY <1>1, <1>3 DEF ModelsInv, Live, modelVars
<1>7. ProbesInv'
  BY <1>1, <1>3, <1>4 DEF ProbesInv
<1>8. ZonesInv'
  BY <1>1, <1>3 DEF ZonesInv, cacheVars
<1> QED BY <1>2, <1>5, <1>6, <1>7, <1>8, OnwardKeeps

-----------------------------------------------------------------------------
(* The bytes of the entries                                                *)

LEMMA PlanSizes ==
    ASSUME NEW plan \in Plans
    PROVE  PlanSize(plan) \in Nat
<1>1. IsFiniteSet(plan.zones)
  BY FS_Subset, CompilationCacheAssumption DEF Plans
<1> QED BY <1>1, FS_CardinalityType, CompilationCacheAssumption DEF PlanSize, Plans

\* There are finitely many.
LEMMA BytesFinite ==
    ASSUME NEW es, NEW K, IsFiniteSet(K), \A k \in K : es[k] \in Plans
    PROVE  IsFiniteSet(BytesOf(es, K)) /\ SizeSum(es, K) \in Nat
<1> DEFINE part(k) == {k} \X (1 .. PlanSize(es[k]))
           parts == {part(k) : k \in K}
           f == [k \in K |-> part(k)]
<1>1. f \in Surjection(K, parts)
  BY DEF Surjection
<1>2. IsFiniteSet(parts)
  BY <1>1, FS_Surjection
<1>3. ASSUME NEW k \in K PROVE IsFiniteSet(part(k))
  <2> DEFINE n == PlanSize(es[k])
  <2>1. n \in Int
    BY PlanSizes
  <2> HIDE DEF n
  <2>2. IsFiniteSet(1 .. n)
    BY <2>1, FS_Interval
  <2>3. IsFiniteSet({k})
    BY FS_Singleton
  <2>4. IsFiniteSet({k} \X (1 .. n))
    BY <2>2, <2>3, FS_Product
  <2> QED BY <2>4 DEF n
<1>4. \A T \in parts : IsFiniteSet(T)
  BY <1>3
<1>5. IsFiniteSet(UNION parts)
  BY <1>2, <1>4, FS_UNION
<1> QED BY <1>5, FS_CardinalityType DEF BytesOf, SizeSum

LEMMA BytesSame ==
    ASSUME NEW es, NEW fs, NEW K, \A k \in K : es[k] = fs[k]
    PROVE  SizeSum(es, K) = SizeSum(fs, K)
<1>1. BytesOf(es, K) = BytesOf(fs, K)
  BY DEF BytesOf
<1> QED BY <1>1 DEF SizeSum

LEMMA BytesOfOne ==
    ASSUME NEW es, NEW k, es[k] \in Plans
    PROVE  SizeSum(es, {k}) = PlanSize(es[k])
<1> DEFINE n == PlanSize(es[k])
<1>1. n \in Nat
  BY PlanSizes
<1>2. SizeSum(es, {k}) = Cardinality({k} \X (1 .. n))
  <2>1. BytesOf(es, {k}) = {k} \X (1 .. n)
    BY DEF BytesOf
  <2> QED BY <2>1 DEF SizeSum
<1> HIDE DEF n
<1>3. IsFiniteSet(1 .. n) /\ Cardinality(1 .. n) = n
  BY <1>1, FS_Interval
<1>4. IsFiniteSet({k}) /\ Cardinality({k}) = 1
  BY FS_Singleton
<1>5. Cardinality({k} \X (1 .. n)) = 1 * n
  BY <1>3, <1>4, FS_Product
<1> QED BY <1>1, <1>2, <1>5 DEF n

\* Two parts of the entries have the bytes of one and of the other.
LEMMA BytesAdd ==
    ASSUME NEW es, NEW K, NEW L, IsFiniteSet(K), IsFiniteSet(L), K \cap L = {},
           \A k \in K \cup L : es[k] \in Plans
    PROVE  SizeSum(es, K \cup L) = SizeSum(es, K) + SizeSum(es, L)
<1>1. BytesOf(es, K \cup L) = BytesOf(es, K) \cup BytesOf(es, L)
  BY DEF BytesOf
<1>2. BytesOf(es, K) \cap BytesOf(es, L) = {}
  BY DEF BytesOf
<1> DEFINE A == BytesOf(es, K)
           B == BytesOf(es, L)
<1>3. IsFiniteSet(A) /\ IsFiniteSet(B)
  BY BytesFinite
<1>4. SizeSum(es, K) \in Nat /\ SizeSum(es, L) \in Nat
  BY BytesFinite
<1>5. Cardinality(A \cap B) = 0
  BY <1>2, FS_EmptySet
<1>6. Cardinality(A \cup B) = Cardinality(A) + Cardinality(B) - Cardinality(A \cap B)
  <2> HIDE DEF A, B
  <2> QED BY <1>3, FS_Union
<1>7. /\ SizeSum(es, K \cup L) = Cardinality(A \cup B)
      /\ SizeSum(es, K) = Cardinality(A) /\ SizeSum(es, L) = Cardinality(B)
  BY <1>1 DEF SizeSum
<1> HIDE DEF A, B
<1> QED BY <1>4, <1>5, <1>6, <1>7

-----------------------------------------------------------------------------
(* A cache in order, its bytes counted                                     *)

Counted(c) ==
    /\ IsFiniteSet(DOMAIN c.entries)
    /\ \A k \in DOMAIN c.entries : c.entries[k] \in Plans
    /\ Ordered(c.older, DOMAIN c.entries)
    /\ c.bytes = SizeSum(c.entries, DOMAIN c.entries)

\* Entries that go take their bytes along.
LEMMA DropCounts ==
    ASSUME NEW c, Counted(c), NEW K
    PROVE  /\ Counted(Drop(c, K))
           /\ Drop(c, K).bytes = SizeSum(c.entries, DOMAIN c.entries \ K)
<1> DEFINE D == DOMAIN c.entries
           d == Drop(c, K)
           gone == K \cap D
           stay == D \ K
<1>1. /\ DOMAIN d.entries = stay
      /\ \A k \in stay : d.entries[k] = c.entries[k]
  BY DropKeeps
<1>2. IsFiniteSet(gone) /\ IsFiniteSet(stay)
  BY FS_Subset DEF Counted
<1>3. SizeSum(c.entries, gone \cup stay) =
         SizeSum(c.entries, gone) + SizeSum(c.entries, stay)
  <2>1. gone \cap stay = {} /\ \A k \in gone \cup stay : c.entries[k] \in Plans
    BY DEF Counted
  <2> HIDE DEF gone, stay
  <2> QED BY <1>2, <2>1, BytesAdd
<1>4. SizeSum(c.entries, gone) \in Nat /\ SizeSum(c.entries, stay) \in Nat
  BY <1>2, BytesFinite DEF Counted
<1>5. gone \cup stay = D
  OBVIOUS
<1>6. d.bytes = c.bytes - SizeSum(c.entries, gone)
  BY DEF Drop
<1>7. d.bytes = SizeSum(c.entries, stay)
  <2>1. c.bytes = SizeSum(c.entries, gone \cup stay)
    BY <1>5 DEF Counted
  <2> HIDE DEF gone, stay, d
  <2> QED BY <1>3, <1>4, <1>6, <2>1
<1>8. SizeSum(c.entries, stay) = SizeSum(d.entries, stay)
  BY <1>1, BytesSame
<1>9. Ordered(d.older, stay)
  <2>1. d.older = [k \in stay |-> c.older[k] \ K]
    BY DEF Drop
  <2>2. Ordered(c.older, D)
    BY DEF Counted
  <2> HIDE DEF d
  <2> QED BY <2>1, <2>2 DEF Ordered
<1> QED BY <1>1, <1>2, <1>7, <1>8, <1>9 DEF Counted

LEMMA UsedLastOrders ==
    ASSUME NEW K, NEW o, Ordered(o, K), NEW k
    PROVE  Ordered(UsedLast(o, k), K \cup {k})
<1> DEFINE p == UsedLast(o, k)
<1>1. DOMAIN o = K
  BY DEF Ordered
<1>2. p = [j \in K \cup {k} |-> IF j = k THEN K \ {k} ELSE o[j] \ {k}]
  BY <1>1 DEF UsedLast
<1> HIDE DEF p
<1>3. p \in [K \cup {k} -> SUBSET (K \cup {k})]
  BY <1>2 DEF Ordered
<1>4. \A j \in K \cup {k} : j \notin p[j]
  BY <1>2 DEF Ordered
<1>5. \A i, j \in K \cup {k} : i = j \/ i \in p[j] \/ j \in p[i]
  BY <1>2 DEF Ordered
<1>6. \A i, j \in K \cup {k} : i \in p[j] => p[i] \subseteq p[j]
  BY <1>2 DEF Ordered
<1> QED BY <1>3, <1>4, <1>5, <1>6 DEF Ordered, p

\* An entry that is put, be it in another's place, adds what it has.
LEMMA PutCounts ==
    ASSUME NEW c, Counted(c), NEW k, NEW plan \in Plans
    PROVE  Counted(Put(c, k, plan))
<1> DEFINE D == DOMAIN c.entries
           d == Put(c, k, plan)
<1>1. /\ DOMAIN d.entries = D \cup {k}
      /\ \A j \in D \cup {k} : d.entries[j] = IF j = k THEN plan ELSE c.entries[j]
  BY PutAdds
<1>2. d.bytes = Drop(c, {k}).bytes + PlanSize(plan) /\ d.older = UsedLast(c.older, k)
  BY DEF Put
<1>3. IsFiniteSet(D \cup {k}) /\ IsFiniteSet(D \ {k}) /\ IsFiniteSet({k})
  BY FS_AddElement, FS_RemoveElement, FS_Singleton DEF Counted
<1>4. Drop(c, {k}).bytes = SizeSum(c.entries, D \ {k})
  BY DropCounts
<1> HIDE DEF d
<1>5. \A j \in D \cup {k} : d.entries[j] \in Plans
  BY <1>1 DEF Counted
<1>6. SizeSum(d.entries, (D \ {k}) \cup {k}) =
         SizeSum(d.entries, D \ {k}) + SizeSum(d.entries, {k})
  BY <1>3, <1>5, BytesAdd
<1>7. SizeSum(d.entries, {k}) = PlanSize(plan)
  BY <1>1, BytesOfOne
<1>8. SizeSum(c.entries, D \ {k}) = SizeSum(d.entries, D \ {k})
  BY <1>1, BytesSame
<1>9. (D \ {k}) \cup {k} = D \cup {k}
  OBVIOUS
<1>10. Ordered(d.older, D \cup {k})
  BY <1>2, UsedLastOrders DEF Counted
<1> QED BY <1>1, <1>2, <1>3, <1>4, <1>5, <1>6, <1>7, <1>8, <1>9, <1>10 DEF Counted, d

\* The fewer entries, the fewer bytes.
LEMMA FewerBytes ==
    ASSUME NEW c, Counted(c), NEW K, NEW L, K \subseteq L, L \subseteq DOMAIN c.entries,
           ~OverBudget(c, L)
    PROVE  Cardinality(K) <= MaxEntries /\ SizeSum(c.entries, K) <= MaxBytes
<1> DEFINE es == c.entries
<1>1. IsFiniteSet(L) /\ IsFiniteSet(K) /\ IsFiniteSet(L \ K)
  BY FS_Subset DEF Counted
<1>2. Cardinality(K) <= Cardinality(L) /\ Cardinality(K) \in Nat /\ Cardinality(L) \in Nat
  BY <1>1, FS_Subset, FS_CardinalityType
<1>3. \A k \in L : es[k] \in Plans
  BY DEF Counted
<1>4. K \cap (L \ K) = {} /\ K \cup (L \ K) = L
  OBVIOUS
<1>5. SizeSum(es, K) \in Nat /\ SizeSum(es, L \ K) \in Nat
  BY <1>1, <1>3, BytesFinite
<1>6. SizeSum(es, K \cup (L \ K)) = SizeSum(es, K) + SizeSum(es, L \ K)
  BY <1>1, <1>3, BytesAdd
<1>7. SizeSum(es, L) = SizeSum(es, K) + SizeSum(es, L \ K)
  BY <1>4, <1>6
<1>8. DOMAIN es \ (DOMAIN es \ L) = L
  OBVIOUS
<1>9. SizeSum(es, L) = Drop(c, DOMAIN es \ L).bytes
  BY <1>8, DropCounts
<1>10. Cardinality(L) <= MaxEntries /\ SizeSum(es, L) <= MaxBytes
  <2>1. SizeSum(es, L) \in Int
    BY <1>5, <1>7
  <2> QED BY <1>2, <1>9, <2>1, CompilationCacheAssumption DEF OverBudget
<1> QED BY <1>2, <1>5, <1>7, <1>10, CompilationCacheAssumption

\* Of some keys, one is used less recently than the others.
LEMMA LeastRecent ==
    ASSUME NEW K, NEW o, IsFiniteSet(K), Ordered(o, K), NEW R \in SUBSET K, R # {}
    PROVE  \E k \in R : o[k] \cap R = {}
<1> DEFINE T == {o[k] : k \in R}
<1>1. \A k \in K : o[k] \subseteq K
  BY DEF Ordered
<1>2. \A k \in R : o[k] \in FiniteSubsetsOf(K)
  BY <1>1, FS_Subset DEF FiniteSubsetsOf
<1>3. T \subseteq FiniteSubsetsOf(K) /\ T # {}
  BY <1>2
<1>4. \E x \in T : \A y \in T : <<y, x>> \notin StrictSubsetOrdering(K)
  <2> HIDE DEF T
  <2>1. IsWellFoundedOn(StrictSubsetOrdering(K), FiniteSubsetsOf(K))
    BY FS_StrictSubsetOrderingWellFounded
  <2> QED BY <1>3, <2>1, WFMin
<1>5. PICK k \in R : \A j \in R : <<o[j], o[k]>> \notin StrictSubsetOrdering(K)
  BY <1>4
<1>6. ASSUME NEW j \in R, j \in o[k] PROVE FALSE
  <2>1. o[j] \subseteq o[k] /\ j \notin o[j]
    BY <1>6 DEF Ordered
  <2>2. o[j] # o[k]
    BY <1>6, <2>1
  <2>3. <<o[j], o[k]>> \in StrictSubsetOrdering(K)
    BY <1>1, <2>1, <2>2 DEF StrictSubsetOrdering
  <2> QED BY <1>5, <2>3
<1> QED BY <1>6

\* An eviction ends within the budgets: of what it leaves, the least recently
\* used had not to go, with nothing but older keys gone.
LEMMA FitFits ==
    ASSUME NEW c, Counted(c)
    PROVE  /\ Counted(Fit(c))
           /\ Cardinality(DOMAIN Fit(c).entries) <= MaxEntries
           /\ Fit(c).bytes <= MaxBytes
<1> DEFINE D == DOMAIN c.entries
           G == {k \in D : OverBudget(c, D \ c.older[k])}
           R == D \ G
<1>1. Fit(c) = Drop(c, G)
  BY DEF Fit
<1>2. /\ Counted(Fit(c)) /\ DOMAIN Fit(c).entries = R
      /\ Fit(c).bytes = SizeSum(c.entries, R)
  <2> HIDE DEF G
  <2>1. Counted(Drop(c, G)) /\ Drop(c, G).bytes = SizeSum(c.entries, R)
    BY DropCounts
  <2>2. DOMAIN Drop(c, G).entries = R
    BY DropKeeps
  <2> QED BY <1>1, <2>1, <2>2
<1>3. Cardinality(R) <= MaxEntries /\ SizeSum(c.entries, R) <= MaxBytes
  <2>1. CASE R = {}
    <3>1. Cardinality({}) = 0 /\ IsFiniteSet({})
      BY FS_EmptySet
    <3>2. BytesOf(c.entries, {}) = {}
      BY DEF BytesOf
    <3>3. SizeSum(c.entries, {}) = 0
      BY <3>1, <3>2 DEF SizeSum
    <3> HIDE DEF R
    <3> QED BY <2>1, <3>1, <3>3, CompilationCacheAssumption
  <2>2. CASE R # {}
    <3>1. IsFiniteSet(D) /\ Ordered(c.older, D)
      BY DEF Counted
    <3>2. \E k \in R : c.older[k] \cap R = {}
      <4> HIDE DEF G
      <4> QED BY <2>2, <3>1, LeastRecent
    <3>3. PICK k \in R : c.older[k] \cap R = {}
      BY <3>2
    <3>4. /\ R \subseteq D \ c.older[k] /\ D \ c.older[k] \subseteq D
          /\ ~OverBudget(c, D \ c.older[k])
      BY <3>3
    <3> HIDE DEF R
    <3> QED BY <3>4, FewerBytes
  <2> QED BY <2>1, <2>2
<1> QED BY <1>2, <1>3

-----------------------------------------------------------------------------
(* The theorems                                                            *)

\* No model, no entry, no zone.
LEMMA InitInv == Init => Inv
<1> SUFFICES ASSUME Init PROVE Inv
  OBVIOUS
<1>1. NoKey \in Keys /\ NoKey.token = 0 /\ NoKey.epoch = 0
  BY CompilationCacheAssumption DEF NoKey, Keys
<1>2. TypeOK
  BY <1>1 DEF Init, TypeOK, Absent
<1>3. ModelsInv
  BY DEF Init, ModelsInv, Live
<1>4. TokensInv /\ RefsInv
  BY CompilationCacheAssumption DEF Init, TokensInv, RefsInv, Current, Absent
<1>5. ThreadTokens
  BY <1>1 DEF Init, ThreadTokens
<1>6. EntriesOwn /\ RetiredLeave
  BY DEF Init, EntriesOwn, RetiredLeave
<1>7. ProbesInv
  BY CompilationCacheAssumption DEF Init, ProbesInv
<1>8. ZonesInv
  BY <1>1 DEF Init, ZonesInv
<1> QED BY <1>2, <1>3, <1>4, <1>5, <1>6, <1>7, <1>8 DEF Inv

\* Every step keeps it, one case per action.
LEMMA StepInv == Inv /\ [Next]_vars => Inv'
<1> SUFFICES ASSUME Inv, [Next]_vars PROVE Inv'
  OBVIOUS
<1>1. ASSUME NEW m \in Models, NEW i \in Ids, Load(m, i) PROVE Inv'
  BY <1>1, LoadKeeps
<1>2. ASSUME NEW m \in Models, Collect(m) PROVE Inv'
  BY <1>2, CollectKeeps
<1>3. ASSUME NEW t \in Threads, NEW m \in Models, NEW q \in Queries,
             CompileUncached(t, m, q) \/ Lookup(t, m, q)
      PROVE  Inv'
  BY <1>3, CompileUncachedKeeps, LookupKeeps
<1>4. ASSUME NEW t \in Threads, CompileFails(t) PROVE Inv'
  BY <1>4, ReturnKeeps DEF CompileFails
<1>5. ASSUME NEW t \in Threads, CompileEnds(t) \/ Store(t) PROVE Inv'
  BY <1>5, CompileEndsKeeps, StoreKeeps
<1>6. ASSUME NEW t \in Threads, NEW s \in Sources, ReadZone(t, s) PROVE Inv'
  <2> DEFINE b == s \in known
  <2>1. b \in BOOLEAN /\ (s \in announced => b)
    BY DEF Inv, TypeOK
  <2>2. /\ pc[t] = "compile" /\ Consult(t, s, b)
        /\ UNCHANGED <<cacheVars, modelVars, zoneVars, pc, model, key, probe>>
    BY <1>6 DEF ReadZone
  <2> QED BY <2>1, <2>2, ConsultKeeps
<1>7. ASSUME NEW t \in Threads, NEW s \in Sources, SourceUnreachable(t, s) PROVE Inv'
  <2>1. s \notin announced
    BY <1>7 DEF SourceUnreachable, Inv, TypeOK
  <2>2. /\ pc[t] = "compile" /\ Consult(t, s, FALSE)
        /\ UNCHANGED <<cacheVars, modelVars, zoneVars, pc, model, key, probe>>
    BY <1>7 DEF SourceUnreachable
  <2> QED BY <2>1, <2>2, ConsultKeeps
<1>8. ASSUME NEW t \in Threads, NEW s \in Sources, StartProbe(t, s) PROVE Inv'
  BY <1>8, StartProbeKeeps
<1>9. ASSUME NEW t \in Threads, ProbeFails(t) PROVE Inv'
  <2>1. /\ pc[t] = "probe" /\ EndProbe(t, FALSE)
        /\ UNCHANGED <<cacheVars, modelVars, detected, known, model, key>>
        /\ UNCHANGED <<epoch, announced>>
    BY <1>9 DEF ProbeFails, zoneVars
  <2> QED BY <2>1, EndProbeKeeps
<1>10. ASSUME NEW t \in Threads, RememberZone(t) PROVE Inv'
  BY <1>10, RememberZoneKeeps
<1>11. ASSUME NEW t \in Threads, AnnounceZone(t) PROVE Inv'
  <2>1. /\ pc[t] = "announce" /\ EndProbe(t, TRUE)
        /\ epoch' = epoch + 1 /\ announced' = announced \cup {probe[t]}
        /\ UNCHANGED <<cacheVars, modelVars, detected, known, model, key>>
    BY <1>11 DEF AnnounceZone
  <2>2. probe[t] \in known
    BY <2>1 DEF Inv, ProbesInv
  <2> QED BY <2>1, <2>2, EndProbeKeeps
<1>12. CASE Clear \/ Stats
  BY <1>12, ClearKeeps, StatsKeeps
<1>13. CASE UNCHANGED vars
  <2>1. Onward /\ UNCHANGED <<zoneVars, pc, looked, zones, probe>>
    BY <1>13 DEF vars, Onward, threadVars
  <2>2. TypeOK' /\ ModelsInv' /\ ProbesInv' /\ ZonesInv'
    BY <2>1 DEF Inv, Onward, TypeOK, ModelsInv, ProbesInv, ZonesInv, Live, cacheVars,
                modelVars, zoneVars
  <2> QED BY <2>1, <2>2, OnwardKeeps DEF Inv
<1> QED BY <1>1, <1>2, <1>3, <1>4, <1>5, <1>6, <1>7, <1>8, <1>9, <1>10, <1>11, <1>12, <1>13
        DEF Next

\* The budgets: with the types of the entries, they are inductive.
Budgets ==
    /\ Counted(Cached)
    /\ Cardinality(DOMAIN entries) <= MaxEntries
    /\ bytes <= MaxBytes

LEMMA BecameCounted ==
    ASSUME NEW c, Counted(c), Became(c), Cardinality(DOMAIN c.entries) <= MaxEntries,
           c.bytes <= MaxBytes
    PROVE  Budgets'
<1>1. /\ Cached'.entries = c.entries /\ Cached'.older = c.older /\ Cached'.bytes = c.bytes
      /\ entries' = c.entries /\ bytes' = c.bytes
  BY DEF Became, Cached
<1> QED BY <1>1 DEF Budgets, Counted

\* A drain leaves fewer entries, and no more bytes.
LEMMA DrainFits ==
    ASSUME Budgets
    PROVE  /\ Counted(Drained)
           /\ Cardinality(DOMAIN Drained.entries) <= MaxEntries
           /\ Drained.bytes <= MaxBytes
<1> DEFINE G == {k \in DOMAIN entries : \E r \in retired : r.token = k.token}
           D == DOMAIN entries
<1>1. /\ Counted(Cached) /\ Cached.entries = entries /\ Cached.bytes = bytes
      /\ Drained = Drop(Cached, G)
  BY DEF Budgets, Drained, Cached
<1> HIDE DEF G
<1>2. /\ Counted(Drained) /\ DOMAIN Drained.entries = D \ G
      /\ Drained.bytes = SizeSum(entries, D \ G)
  <2>1. Counted(Drop(Cached, G)) /\ Drop(Cached, G).bytes = SizeSum(Cached.entries, D \ G)
    BY <1>1, DropCounts
  <2>2. DOMAIN Drop(Cached, G).entries = D \ G
    BY <1>1, DropKeeps
  <2> QED BY <1>1, <2>1, <2>2
<1>3. Drop(Cached, DOMAIN Cached.entries \ D).bytes = SizeSum(entries, D)
  <2>1. DOMAIN Cached.entries \ (DOMAIN Cached.entries \ D) = D
    BY <1>1
  <2> QED BY <1>1, <2>1, DropCounts
<1>4. ~OverBudget(Cached, D)
  <2>1. bytes <= MaxBytes /\ Cardinality(D) <= MaxEntries
    BY DEF Budgets
  <2>2. SizeSum(entries, D) = bytes
    BY <1>1 DEF Counted
  <2>3. IsFiniteSet(D)
    BY <1>1 DEF Counted
  <2>4. Cardinality(D) \in Nat /\ SizeSum(entries, D) \in Nat
    BY <1>1, <2>3, FS_CardinalityType, BytesFinite DEF Counted
  <2>5. Drop(Cached, DOMAIN Cached.entries \ D).bytes <= MaxBytes
    BY <1>3, <2>1, <2>2
  <2> HIDE DEF D
  <2> QED BY <1>3, <2>1, <2>2, <2>4, <2>5, CompilationCacheAssumption DEF OverBudget
<1>5. Cardinality(D \ G) <= MaxEntries /\ SizeSum(entries, D \ G) <= MaxBytes
  BY <1>1, <1>4, FewerBytes
<1> QED BY <1>2, <1>5

LEMMA InitBudgets == Init => Budgets
<1> SUFFICES ASSUME Init PROVE Budgets
  OBVIOUS
<1>1. DOMAIN entries = {} /\ older = [k \in {} |-> {}] /\ bytes = 0
  BY DEF Init
<1>2. IsFiniteSet({}) /\ Cardinality({}) = 0
  BY FS_EmptySet
<1>3. SizeSum(entries, {}) = 0
  <2>1. BytesOf(entries, {}) = {}
    BY DEF BytesOf
  <2> QED BY <1>2, <2>1 DEF SizeSum
<1>4. Ordered(older, {})
  BY <1>1 DEF Ordered
<1> QED BY <1>1, <1>2, <1>3, <1>4, CompilationCacheAssumption DEF Budgets, Counted, Cached

\* What drains, stores, clears, or moves a key to the end keeps them; nothing
\* else touches the entries.
LEMMA StepBudgets == Inv /\ Budgets /\ [Next]_vars => Budgets'
<1> SUFFICES ASSUME Inv, Budgets, [Next]_vars PROVE Budgets'
  OBVIOUS
<1>1. ASSUME UNCHANGED <<entries, older, bytes>> PROVE Budgets'
  BY <1>1 DEF Budgets, Counted, Cached
<1>2. ASSUME NEW t \in Threads, NEW m \in Models, NEW q \in Queries, Lookup(t, m, q)
      PROVE  Budgets'
  <2>1. CASE Became(Drained)
    BY <2>1, DrainFits, BecameCounted
  <2>2. ASSUME NEW k \in DOMAIN Drained.entries,
               Became([Drained EXCEPT !.older = UsedLast(@, k)])
        PROVE  Budgets'
    <3> DEFINE c == [Drained EXCEPT !.older = UsedLast(@, k)]
    <3>1. /\ c.entries = Drained.entries /\ c.bytes = Drained.bytes
          /\ c.older = UsedLast(Drained.older, k)
      BY DEF Drained, Drop
    <3>2. Counted(Drained)
      BY DrainFits
    <3>3. Ordered(c.older, DOMAIN c.entries \cup {k})
      BY <3>1, <3>2, UsedLastOrders DEF Counted
    <3>4. DOMAIN c.entries \cup {k} = DOMAIN c.entries
      BY <3>1, <2>2
    <3>5. Became(c)
      BY <2>2
    <3> HIDE DEF c
    <3>6. Counted(c)
      BY <3>1, <3>2, <3>3, <3>4 DEF Counted
    <3> QED BY <3>1, <3>5, <3>6, DrainFits, BecameCounted
  <2> QED BY <1>2, <2>1, <2>2 DEF Lookup
<1>3. ASSUME NEW t \in Threads, Store(t) PROVE Budgets'
  <2>1. CASE Became(Drained)
    BY <2>1, DrainFits, BecameCounted
  <2>2. CASE Became(Fit(Put(Drained, key[t], Plan(t))))
    <3>1. model[t] \in Models /\ key[t] \in Keys /\ zones[t] \in SUBSET Sources
      BY <1>3 DEF Inv, TypeOK, ModelsInv, Store
    <3>2. Plan(t) \in Plans
      BY <3>1 DEF Plan, Plans, Keys
    <3> DEFINE c == Put(Drained, key[t], Plan(t))
    <3>3. Counted(c)
      BY <3>2, DrainFits, PutCounts
    <3>4. Became(Fit(c))
      BY <2>2
    <3> HIDE DEF c
    <3> QED BY <3>3, <3>4, FitFits, BecameCounted
  <2> QED BY <1>3, <2>1, <2>2 DEF Store
<1>4. CASE Clear
  <2>1. DOMAIN entries' = {} /\ older' = [k \in {} |-> {}] /\ bytes' = 0
    BY <1>4 DEF Clear
  <2>2. IsFiniteSet({}) /\ Cardinality({}) = 0
    BY FS_EmptySet
  <2>3. SizeSum(entries', {}) = 0
    <3>1. BytesOf(entries', {}) = {}
      BY DEF BytesOf
    <3> QED BY <2>2, <3>1 DEF SizeSum
  <2>4. Ordered(older', {})
    BY <2>1 DEF Ordered
  <2> QED BY <2>1, <2>2, <2>3, <2>4, CompilationCacheAssumption DEF Budgets, Counted, Cached
<1>5. CASE Stats
  BY <1>5, DrainFits, BecameCounted DEF Stats
<1>6. ASSUME NEW t \in Threads, CompileFails(t) \/ CompileEnds(t)
      PROVE  UNCHANGED <<entries, older, bytes>>
  BY <1>6 DEF CompileFails, CompileEnds, cacheVars
<1>7. ASSUME NEW t \in Threads, ProbeFails(t) \/ RememberZone(t) \/ AnnounceZone(t)
      PROVE  UNCHANGED <<entries, older, bytes>>
  BY <1>7 DEF ProbeFails, RememberZone, AnnounceZone, cacheVars
<1>8. ASSUME NEW t \in Threads, NEW s \in Sources,
             ReadZone(t, s) \/ SourceUnreachable(t, s) \/ StartProbe(t, s)
      PROVE  UNCHANGED <<entries, older, bytes>>
  BY <1>8 DEF ReadZone, SourceUnreachable, StartProbe, cacheVars
<1>9. ASSUME NEW m \in Models, \/ \E i \in Ids : Load(m, i)
                               \/ Collect(m)
                               \/ \E t \in Threads, q \in Queries : CompileUncached(t, m, q)
      PROVE  UNCHANGED <<entries, older, bytes>>
  BY <1>9 DEF Load, Collect, CompileUncached, cacheVars
<1>10. CASE UNCHANGED vars
  BY <1>1, <1>10 DEF vars, cacheVars
<1> QED BY <1>1, <1>2, <1>3, <1>4, <1>5, <1>6, <1>7, <1>8, <1>9, <1>10 DEF Next

\* What a lookup would find is for its model and as current as its key.
LEMMA InvHits == Inv => HitIsCurrent
<1> SUFFICES ASSUME Inv, NEW m \in Models, NEW q \in Queries, Hits(m, q)
             PROVE  /\ entries[HitKey(m, q)].model = m
                    /\ entries[HitKey(m, q)].query = q
                    /\ Reads[q] \cap announced \subseteq entries[HitKey(m, q)].zones
  BY DEF HitIsCurrent
<1> DEFINE k == HitKey(m, q)
<1>1. k \in DOMAIN entries /\ k.query = q /\ k.epoch = epoch
  BY DEF Hits, HitKey
<1>2. tokens[address[m]] \in [ref : Models \cup {NoModel}, token : Nat]
  BY DEF Inv, TypeOK, Hits, Live
<1>3. Current(m, k.token)
  BY <1>2 DEF Hits, HitKey, Current
<1> QED BY <1>1, <1>3 DEF Inv, EntriesOwn, ZonesInv

LEMMA Invariance == Spec => []Inv
<1>1. Init => Inv
  BY InitInv
<1>2. Inv /\ [Next]_vars => Inv'
  BY StepInv
<1> QED BY <1>1, <1>2, PTL DEF Spec

\* The types hold: among them, that a zone the epoch has counted is in the table
\* and its source marked (_detect_db_timezone, _remember_timezone).
THEOREM TypesHold == Spec => []TypeOK
BY Invariance, PTL DEF Inv

\* Whatever a lookup returns was compiled for the model it is for, and with every
\* zone known since (CompilationCache.compile, _token, timezone_epoch).
THEOREM HitsAreCurrent == Spec => []HitIsCurrent
BY Invariance, InvHits, PTL

\* No entry of a collected model is out of reach of the next drain
\* (_collected, _drain_retired).
THEOREM RetiredEntriesLeave == Spec => []RetiredLeave
BY Invariance, PTL DEF Inv

\* Through hits, replacements, drains and evictions the count of bytes is exact,
\* the entries are in one order, and the cache is within both budgets
\* (CompilationCache.compile, _drain_retired, _evict_to_budget).
THEOREM BudgetIsExact == Spec => []BudgetExact
<1>1. Init => Budgets
  BY InitBudgets
<1>2. Inv /\ Budgets /\ [Next]_vars => Budgets'
  BY StepBudgets
<1>3. Budgets => BudgetExact
  BY DEF Budgets, BudgetExact, Counted, Cached
<1> QED BY <1>1, <1>2, <1>3, Invariance, PTL DEF Spec

-----------------------------------------------------------------------------
(* JoinPlan: numbers and recursion *)

\* Induction over a set of numbers.
LEMMA NatInd ==
    ASSUME NEW P, 0 \in P, \A k \in Nat : k \in P => k + 1 \in P
    PROVE  Nat \subseteq P
<1> DEFINE Q == Nat \ P
<1> SUFFICES ASSUME Q # {} PROVE FALSE
  OBVIOUS
<1>1. IsWellFoundedOn(OpToRel(<, Nat), Nat)
  BY NatLessThanWellFounded
<1>2. PICK x \in Q : \A y \in Q : ~(<<y, x>> \in OpToRel(<, Nat))
  BY <1>1, WFMin, Q \subseteq Nat
<1> HIDE DEF Q
<1>3. Q \subseteq Nat BY DEF Q
<1>4. \A y \in Q : ~ (y < x)
  BY <1>2, <1>3 DEF OpToRel
<1>5. x - 1 \in Nat /\ x - 1 < x
  BY DEF Q
<1>6. x - 1 \in P
  BY <1>4, <1>5 DEF Q
<1> QED BY <1>5, <1>6, <1>3 DEF Q

\* Min of numbers is one of them, and the least.
LEMMA Least ==
    ASSUME NEW S, S \subseteq Nat, S # {}
    PROVE  Min(S) \in S /\ \A y \in S : Min(S) <= y
<1> DEFINE P == {k \in Nat : \A i \in 0..k : i \notin S}
<1> SUFFICES ASSUME \A x \in S : \E y \in S : ~(x <= y) PROVE FALSE
  BY DEF Min
<1>1. 0 \in P
  OBVIOUS
<1>2. ASSUME NEW k \in Nat, k \in P PROVE k + 1 \in P
  <2>1. \A i \in 0..k : i \notin S
    BY <1>2
  <2>2. k + 1 \notin S
    <3>1. \A y \in S : y \in Nat /\ ~(y <= k)
      BY <2>1
    <3> QED BY <3>1
  <2>3. \A i \in 0..(k + 1) : i \in 0..k \/ i = k + 1
    OBVIOUS
  <2> QED BY <2>1, <2>2, <2>3
<1>3. \A k \in P : k \notin S
  OBVIOUS
<1> HIDE DEF P
<1>4. Nat \subseteq P
  BY <1>1, <1>2, NatInd
<1> QED BY <1>3, <1>4

\* What is defined by recursion on a number: its value at k follows from k
\* and the value before.
Advances(n, S) == [(1..n) \X S -> S]

\* A function computed from its value before, as the model's folds are.
Computed(n, S, s0, g) ==
    {f \in [0..n -> S] : f[0] = s0 /\ \A k \in 1..n : f[k] = g[<<k, f[k - 1]>>]}

\* Such a function exists.
LEMMA Recursion ==
    ASSUME NEW S, NEW n \in Nat, NEW s0 \in S, NEW g \in Advances(n, S)
    PROVE  Computed(n, S, s0, g) # {}
<1> USE DEF Advances, Computed
<1> DEFINE Good(m, f) == f \in [0..m -> S] /\ f[0] = s0 /\ \A k \in 1..m : f[k] = g[<<k, f[k - 1]>>]
           P == {m \in Nat : m <= n => \E f : Good(m, f)}
<1>1. 0 \in P
  <2>1. Good(0, [k \in 0..0 |-> s0])
    OBVIOUS
  <2> QED BY <2>1
<1>2. ASSUME NEW m \in Nat, m \in P PROVE m + 1 \in P
  <2> SUFFICES ASSUME m + 1 <= n PROVE \E f : Good(m + 1, f)
    OBVIOUS
  <2>1. PICK f : Good(m, f)
    BY <1>2
  <2>2. f[m] \in S
    BY <2>1
  <2> DEFINE h == [k \in 0..(m + 1) |-> IF k = m + 1 THEN g[<<m + 1, f[m]>>] ELSE f[k]]
  <2>3. g[<<m + 1, f[m]>>] \in S
    BY <2>2
  <2>4. h \in [0..(m + 1) -> S]
    BY <2>1, <2>3
  <2>5. h[0] = s0
    BY <2>1
  <2>6. ASSUME NEW k \in 1..(m + 1) PROVE h[k] = g[<<k, h[k - 1]>>]
    <3>1. k - 1 \in 0..m /\ k - 1 # m + 1
      OBVIOUS
    <3>2. h[k - 1] = f[k - 1]
      BY <3>1
    <3>3. CASE k = m + 1
      <4>1. h[m + 1] = g[<<m + 1, f[m]>>] /\ (m + 1) - 1 = m
        OBVIOUS
      <4> QED BY <4>1, <3>2, <3>3
    <3>4. CASE k \in 1..m
      BY <3>2, <3>4, <2>1
    <3> QED BY <3>3, <3>4
  <2> QED BY <2>4, <2>5, <2>6
<1>3. n \in P
  <2> HIDE DEF P
  <2> QED BY <1>1, <1>2, NatInd
<1> QED BY <1>3

\* Induction up to a bound.
LEMMA UpTo ==
    ASSUME NEW n \in Nat, NEW P, 0 \in P, \A k \in 1..n : k - 1 \in P => k \in P
    PROVE  \A k \in 0..n : k \in P
<1> DEFINE Q == {k \in Nat : k <= n => k \in P}
<1>1. 0 \in Q
  OBVIOUS
<1>2. ASSUME NEW k \in Nat, k \in Q PROVE k + 1 \in Q
  <2> SUFFICES ASSUME k + 1 <= n PROVE k + 1 \in P
    OBVIOUS
  <2>1. k + 1 \in 1..n /\ (k + 1) - 1 = k /\ k \in P
    BY <1>2
  <2> QED BY <2>1
<1> HIDE DEF Q
<1>3. Nat \subseteq Q
  BY <1>1, <1>2, NatInd
<1>4. \A k \in 0..n : k \in Nat /\ k <= n
  OBVIOUS
<1> QED BY <1>3, <1>4 DEF Q

\* There is an object.
LEMMA NPos == N \in Nat /\ N >= 1
  BY JoinPlanAssumption

-----------------------------------------------------------------------------
(* What is reached over the joins of a graph *)

\* What 0, 1, .. N joins lead to.
Layers(E, a) ==
    {w \in [0..N -> SUBSET Objects] :
        w[0] = {a} /\ \A k \in 1..N : w[k] = Around(E, w[k - 1])}

\* Within computes the layers.
LEMMA WithinIs ==
    ASSUME NEW E, E \subseteq Objects \X Objects, NEW a \in Objects
    PROVE  Within(E, a) \in Layers(E, a)
<1> DEFINE g == [z \in (1..N) \X SUBSET Objects |-> Around(E, z[2])]
<1>1. \A near \in SUBSET Objects : Around(E, near) \in SUBSET Objects
  BY DEF Around
<1>2. {a} \in SUBSET Objects
  OBVIOUS
<1>3. g \in Advances(N, SUBSET Objects)
  BY <1>1 DEF Advances
<1>4. \A k \in 1..N, near \in SUBSET Objects : g[<<k, near>>] = Around(E, near)
  OBVIOUS
<1> HIDE DEF g
<1>5. PICK f \in Computed(N, SUBSET Objects, {a}, g) : TRUE
  BY <1>2, <1>3, NPos, Recursion
<1>6. /\ f \in [0..N -> SUBSET Objects]
      /\ f[0] = {a}
      /\ \A k \in 1..N : f[k] = g[<<k, f[k - 1]>>]
  BY <1>5 DEF Computed
<1>7. 0 \in 0..N /\ \A k \in 0..N : k # 0 => k \in 1..N /\ k - 1 \in 0..N
  BY NPos
<1>8. \A k \in 0..N : f[k] = IF k = 0 THEN {a} ELSE Around(E, f[k - 1])
  <2> TAKE k \in 0..N
  <2>1. f[k - 1] \in SUBSET Objects \/ k = 0
    BY <1>6, <1>7
  <2> QED BY <2>1, <1>7, <1>6, <1>4
<1>9. f = [k \in 0..N |-> IF k = 0 THEN {a} ELSE Around(E, f[k - 1])]
  <2>1. f = [k \in 0..N |-> f[k]]
    BY <1>6
  <2> QED BY <2>1, <1>8
<1> DEFINE w == Within(E, a)
<1>10. w = [k \in 0..N |-> IF k = 0 THEN {a} ELSE Around(E, w[k - 1])]
  BY <1>9 DEF Within
<1> HIDE DEF w
<1>11. w[0] = {a} /\ \A k \in 1..N : w[k] = Around(E, w[k - 1])
  <2>1. \A k \in 1..N : k \in 0..N /\ k # 0
    OBVIOUS
  <2> QED BY <1>10, <1>7, <2>1
<1> DEFINE P == {k \in Nat : w[k] \in SUBSET Objects}
<1>12. \A k \in 0..N : k \in P
  <2>1. 0 \in P
    BY <1>11, <1>2
  <2>2. \A k \in 1..N : k - 1 \in P => k \in P
    BY <1>11, <1>1
  <2> HIDE DEF P
  <2> QED BY <2>1, <2>2, UpTo, NPos
<1> QED BY <1>10, <1>11, <1>12 DEF w, Layers

\* A set that no join of E leaves.
Closed(E, C) == \A e \in E : e[1] \in C => e[2] \in C

\* Family is the least set that holds a and is closed under the joins of E:
\* N layers are enough, as each layer but the last adds an object.
LEMMA FamilyIs ==
    ASSUME NEW E, E \subseteq Objects \X Objects, NEW a \in Objects
    PROVE  /\ a \in Family(E, a)
           /\ Family(E, a) \subseteq Objects
           /\ Closed(E, Family(E, a))
           /\ \A C : a \in C /\ Closed(E, C) => Family(E, a) \subseteq C
<1> DEFINE w == Within(E, a)
<1>1. /\ w \in [0..N -> SUBSET Objects]
      /\ w[0] = {a}
      /\ \A k \in 1..N : w[k] = Around(E, w[k - 1])
  BY WithinIs DEF Layers
<1> HIDE DEF w
<1>2. N \in 0..N /\ \A k \in 1..N : k \in 0..N /\ k - 1 \in 0..N
  BY NPos
<1>3. \A k \in 1..N : w[k - 1] \subseteq w[k]
  BY <1>1 DEF Around
<1>4. a \in w[N]
  <2> DEFINE P == {k \in Nat : a \in w[k]}
  <2>1. 0 \in P
    BY <1>1
  <2>2. \A k \in 1..N : k - 1 \in P => k \in P
    BY <1>3
  <2> HIDE DEF P
  <2>3. N \in P
    BY <2>1, <2>2, <1>2, NPos, UpTo
  <2> QED BY <2>3 DEF P
<1>5. IsFiniteSet(Objects) /\ Cardinality(Objects) = N
  BY FS_Interval, NPos DEF Objects
<1>6. Closed(E, w[N])
  <2> DEFINE P == {k \in Nat : Closed(E, w[k]) \/ Cardinality(w[k]) >= k + 1}
  <2>1. 0 \in P
    <3>1. Cardinality({a}) = 1
      BY FS_Singleton
    <3>2. Cardinality(w[0]) >= 0 + 1
      BY <1>1, <3>1
    <3> QED BY <3>2
  <2>2. ASSUME NEW k \in 1..N, k - 1 \in P PROVE k \in P
    <3>1. CASE Closed(E, w[k - 1])
      <4>1. w[k] = w[k - 1]
        <5>1. {e[2] : e \in {f \in E : f[1] \in w[k - 1]}} \subseteq w[k - 1]
          BY <3>1 DEF Closed
        <5> QED BY <1>1, <5>1 DEF Around
      <4> QED BY <3>1, <4>1
    <3>2. CASE ~Closed(E, w[k - 1])
      <4>1. Cardinality(w[k - 1]) >= k
        BY <2>2, <3>2
      <4>2. PICK e \in E : e[1] \in w[k - 1] /\ e[2] \notin w[k - 1]
        BY <3>2 DEF Closed
      <4>3. e[2] \in w[k]
        BY <4>2, <1>1 DEF Around
      <4>4. w[k] \subseteq Objects /\ IsFiniteSet(w[k])
        BY <1>1, <1>2, <1>5, FS_Subset
      <4>5. w[k - 1] \subseteq w[k] /\ w[k - 1] # w[k]
        BY <1>3, <4>2, <4>3
      <4>6. /\ IsFiniteSet(w[k - 1])
            /\ Cardinality(w[k - 1]) <= Cardinality(w[k])
            /\ Cardinality(w[k - 1]) # Cardinality(w[k])
        <5>1. w[k - 1] \in SUBSET w[k]
          BY <4>5
        <5> QED BY <5>1, <4>4, <4>5, FS_Subset
      <4>7. Cardinality(w[k - 1]) \in Nat /\ Cardinality(w[k]) \in Nat
        BY <4>4, <4>6, FS_CardinalityType
      <4> QED BY <4>1, <4>6, <4>7
    <3> QED BY <3>1, <3>2
  <2>3. N \in P
    <3> HIDE DEF P
    <3> QED BY <2>1, <2>2, <1>2, NPos, UpTo
  <2>4. Cardinality(w[N]) <= N
    BY <1>1, <1>2, <1>5, FS_Subset
  <2>5. Cardinality(w[N]) \in Nat
    BY <1>1, <1>2, <1>5, FS_Subset, FS_CardinalityType
  <2> QED BY <2>3, <2>4, <2>5, NPos
<1>7. ASSUME NEW C, a \in C, Closed(E, C) PROVE w[N] \subseteq C
  <2> DEFINE P == {k \in Nat : w[k] \subseteq C}
  <2>1. 0 \in P
    BY <1>1, <1>7
  <2>2. \A k \in 1..N : k - 1 \in P => k \in P
    BY <1>1, <1>7 DEF Around, Closed
  <2> HIDE DEF P
  <2>3. N \in P
    BY <2>1, <2>2, <1>2, NPos, UpTo
  <2> QED BY <2>3 DEF P
<1> QED BY <1>1, <1>2, <1>4, <1>6, <1>7 DEF w, Family

\* What a reached object reaches is reached.
LEMMA FamilyNests ==
    ASSUME NEW E, E \subseteq Objects \X Objects, NEW a \in Objects, NEW b \in Family(E, a)
    PROVE  Family(E, b) \subseteq Family(E, a)
<1>1. b \in Objects /\ Closed(E, Family(E, a))
  BY FamilyIs
<1> QED BY <1>1, FamilyIs

\* More joins reach more.
LEMMA FamilyWidens ==
    ASSUME NEW E, E \subseteq Objects \X Objects, NEW F, F \subseteq E, NEW a \in Objects
    PROVE  Family(F, a) \subseteq Family(E, a)
<1>1. F \subseteq Objects \X Objects /\ a \in Family(E, a) /\ Closed(F, Family(E, a))
  BY FamilyIs DEF Closed
<1> QED BY <1>1, FamilyIs

\* Hops is the first layer that holds b, or Far.
LEMMA HopsIs ==
    ASSUME NEW E, E \subseteq Objects \X Objects, NEW a \in Objects, NEW b \in Objects
    PROVE  /\ b \notin Family(E, a) => Hops(E, a, b) = Far
           /\ b \in Family(E, a) =>
                 /\ Hops(E, a, b) \in 0..N
                 /\ b \in Within(E, a)[Hops(E, a, b)]
                 /\ \A i \in 0..(Hops(E, a, b) - 1) : b \notin Within(E, a)[i]
<1>1. CASE b \notin Family(E, a)
  BY <1>1 DEF Hops, Family
<1>2. CASE b \in Family(E, a)
  <2> DEFINE w == Within(E, a)
             S == {k \in 0..N : b \in w[k]}
  <2>1. b \in w[N] /\ N \in 0..N
    BY <1>2, NPos DEF Family
  <2>2. S \subseteq Nat /\ S # {}
    BY <2>1
  <2>3. Min(S) \in S /\ \A y \in S : Min(S) <= y
    <3> HIDE DEF S
    <3> QED BY <2>2, Least
  <2>4. PICK m \in 0..N : b \in w[m] /\ \A i \in 0..(m - 1) : b \notin w[i]
    <3>1. \A i \in 0..(Min(S) - 1) : i \in 0..N /\ ~(Min(S) <= i)
      BY <2>3, NPos
    <3> QED BY <2>3, <3>1
  <2> DEFINE h == CHOOSE k \in 0..N : b \in w[k] /\ \A i \in 0..(k - 1) : b \notin w[i]
  <2>5. h \in 0..N /\ b \in w[h] /\ \A i \in 0..(h - 1) : b \notin w[i]
    BY <2>4
  <2>6. Hops(E, a, b) = h
    BY <2>1 DEF Hops
  <2> HIDE DEF h, w
  <2> QED BY <2>5, <2>6, <1>2 DEF w
<1> QED BY <1>1, <1>2

\* Hops is a number, and Far where b is not reached.
LEMMA HopsType ==
    ASSUME NEW E, E \subseteq Objects \X Objects, NEW a \in Objects, NEW b \in Objects
    PROVE  /\ Hops(E, a, b) \in Nat
           /\ b \in Family(E, a) <=> Hops(E, a, b) # Far
BY HopsIs, NPos DEF Far

\* A walk of n joins from a to b.
Walks(E, a, b, n) ==
    {p \in [1..(n + 1) -> Objects] :
        p[1] = a /\ p[n + 1] = b /\ \A i \in 2..(n + 1) : <<p[i - 1], p[i]>> \in E}

\* ShortestPath is a walk of Hops joins.
LEMMA ShortestPathIs ==
    ASSUME NEW E, E \subseteq Objects \X Objects, NEW a \in Objects, NEW b \in Family(E, a)
    PROVE  ShortestPath(E, a, b) \in Walks(E, a, b, Hops(E, a, b))
<1> DEFINE w == Within(E, a)
           First(k, o) == o \in w[k] /\ \A i \in 0..(k - 1) : o \notin w[i]
           P == {k \in Nat : \A o \in Objects : First(k, o) => Walks(E, a, o, k) # {}}
<1>1. /\ w \in [0..N -> SUBSET Objects]
      /\ w[0] = {a}
      /\ \A k \in 1..N : w[k] = Around(E, w[k - 1])
  BY WithinIs DEF Layers
<1> HIDE DEF w
<1>2. 0 \in P
  <2> SUFFICES ASSUME NEW o \in Objects, First(0, o) PROVE Walks(E, a, o, 0) # {}
    OBVIOUS
  <2>1. o = a
    BY <1>1
  <2> DEFINE p == [i \in 1..(0 + 1) |-> a]
  <2>2. p \in [1..(0 + 1) -> Objects] /\ p[1] = a /\ p[0 + 1] = o /\ 2..(0 + 1) = {}
    BY <2>1
  <2> QED BY <2>2 DEF Walks
<1>3. ASSUME NEW k \in 1..N, k - 1 \in P PROVE k \in P
  <2> SUFFICES ASSUME NEW o \in Objects, First(k, o) PROVE Walks(E, a, o, k) # {}
    OBVIOUS
  <2>1. k - 1 \in 0..(k - 1) /\ k - 1 \in 0..N /\ k - 1 \in Nat
    BY NPos
  <2>2. o \in w[k] /\ o \notin w[k - 1]
    BY <2>1
  <2>3. PICK e \in E : e[1] \in w[k - 1] /\ e[2] = o
    BY <2>2, <1>1 DEF Around
  <2>4. e[1] \in Objects /\ <<e[1], o>> \in E
    BY <2>3
  <2>5. ASSUME NEW i \in 0..((k - 1) - 1) PROVE e[1] \notin w[i]
    <3>1. i + 1 \in 1..N /\ i + 1 \in 0..(k - 1) /\ (i + 1) - 1 = i
      BY NPos
    <3>2. o \notin w[i + 1]
      BY <3>1
    <3> QED BY <3>1, <3>2, <2>3, <1>1 DEF Around
  <2>6. Walks(E, a, e[1], k - 1) # {}
    BY <2>3, <2>4, <2>5, <1>3
  <2>7. PICK p \in Walks(E, a, e[1], k - 1) : TRUE
    BY <2>6
  <2>8. /\ p \in [1..k -> Objects] /\ p[1] = a /\ p[k] = e[1]
        /\ \A i \in 2..k : <<p[i - 1], p[i]>> \in E
    BY <2>7 DEF Walks
  <2> DEFINE q == [i \in 1..(k + 1) |-> IF i = k + 1 THEN o ELSE p[i]]
  <2>9. q \in [1..(k + 1) -> Objects] /\ q[1] = a /\ q[k + 1] = o
    BY <2>8
  <2>10. ASSUME NEW i \in 2..(k + 1) PROVE <<q[i - 1], q[i]>> \in E
    <3>1. i - 1 \in 1..k /\ i - 1 # k + 1
      OBVIOUS
    <3>2. q[i - 1] = p[i - 1]
      BY <3>1
    <3>3. CASE i = k + 1
      <4>1. i - 1 = k /\ q[i] = o
        BY <3>3
      <4> QED BY <4>1, <3>2, <2>4, <2>8
    <3>4. CASE i \in 2..k
      <4>1. q[i] = p[i]
        BY <3>4
      <4> QED BY <4>1, <3>2, <3>4, <2>8
    <3> QED BY <3>3, <3>4
  <2> HIDE DEF q
  <2> QED BY <2>9, <2>10 DEF Walks
<1>4. \A k \in 0..N : k \in P
  <2> HIDE DEF P
  <2> QED BY <1>2, <1>3, NPos, UpTo
<1> DEFINE h == Hops(E, a, b)
<1>5. b \in Objects /\ h \in 0..N /\ First(h, b)
  BY HopsIs, FamilyIs DEF w
<1> HIDE DEF h
<1>6. Walks(E, a, b, h) # {}
  BY <1>4, <1>5
<1>7. ShortestPath(E, a, b) = CHOOSE p \in [1..(h + 1) -> Objects] :
          p[1] = a /\ p[h + 1] = b /\ \A i \in 2..(h + 1) : <<p[i - 1], p[i]>> \in E
  BY DEF ShortestPath, h
<1>8. ShortestPath(E, a, b) \in Walks(E, a, b, h)
  BY <1>6, <1>7 DEF Walks
<1> QED BY <1>8 DEF h

\* What the proofs use of the joins of a model.
JoinsOK ==
    /\ joins \subseteq Join
    /\ \A j, k \in joins : {j.from, j.to} = {k.from, k.to} => j = k
    /\ \A j \in joins : j.from # j.to

\* The graphs are relations between objects, each wider than the one before.
LEMMA Graphs ==
    ASSUME JoinsOK
    PROVE  /\ Directed \subseteq Objects \X Objects
           /\ Traversable \subseteq Objects \X Objects
           /\ Undirected \subseteq Objects \X Objects
           /\ Preserving \subseteq Directed
           /\ Directed \subseteq Traversable
<1>1. \A j \in joins : j.from \in Objects /\ j.to \in Objects
  BY DEF JoinsOK, Join
<1>2. Directed \subseteq Objects \X Objects
  BY <1>1 DEF Directed
<1>3. Undirected \subseteq Objects \X Objects
  BY <1>2 DEF Undirected
<1>4. {<<j.to, j.from>> : j \in {k \in joins : k.card # "many-to-one"}} \subseteq Objects \X Objects
  BY <1>1
<1>5. Preserving \subseteq Directed
  BY DEF Preserving, Directed
<1> QED BY <1>2, <1>3, <1>4, <1>5 DEF Traversable

-----------------------------------------------------------------------------
(* The routes of find_join_path *)

\* A sequence of objects that follows the joins of E from a to b.
Route(E, p, a, b) ==
    /\ p \in Seq(Objects) /\ Len(p) >= 2
    /\ p[1] = a /\ p[Len(p)] = b
    /\ \A i \in 1..(Len(p) - 1) : <<p[i], p[i + 1]>> \in E

\* A shortest path to a neighbour of the target, and the target, are a route.
LEMMA RouteEnds ==
    ASSUME NEW E, E \subseteq Objects \X Objects, NEW a \in Objects, NEW b \in Family(E, a),
           NEW c \in Objects, <<b, c>> \in E
    PROVE  LET p == Append(ShortestPath(E, a, b), c)
           IN  Route(E, p, a, c) /\ Len(p) = Hops(E, a, b) + 2
<1> DEFINE q == ShortestPath(E, a, b)
           n == Hops(E, a, b)
           p == Append(q, c)
<1>1. n \in Nat
  BY HopsType, FamilyIs
<1>2. q \in Walks(E, a, b, n)
  BY ShortestPathIs
<1> HIDE DEF q, n
<1>3. /\ q \in [1..(n + 1) -> Objects] /\ q[1] = a /\ q[n + 1] = b
      /\ \A i \in 2..(n + 1) : <<q[i - 1], q[i]>> \in E
  BY <1>2 DEF Walks
<1>4. q \in Seq(Objects) /\ Len(q) = n + 1
  <2>1. n + 1 \in Nat
    BY <1>1
  <2> QED BY <2>1, <1>3
<1>5. p \in Seq(Objects) /\ Len(p) = n + 2 /\ p[n + 2] = c
  BY <1>1, <1>4
<1>6. \A i \in 1..(n + 1) : p[i] = q[i]
  BY <1>1, <1>4
<1> HIDE DEF p
<1>7. p[1] = a /\ p[n + 1] = b
  BY <1>1, <1>3, <1>6
<1>8. ASSUME NEW i \in 1..(n + 1) PROVE <<p[i], p[i + 1]>> \in E
  <2>1. CASE i = n + 1
    <3>1. i + 1 = n + 2
      BY <2>1, <1>1
    <3> QED BY <2>1, <3>1, <1>5, <1>7
  <2>2. CASE i # n + 1
    <3>1. i + 1 \in 2..(n + 1) /\ i + 1 \in 1..(n + 1) /\ (i + 1) - 1 = i
      BY <2>2, <1>1
    <3>2. <<q[i], q[i + 1]>> \in E
      BY <3>1, <1>3
    <3> QED BY <3>1, <3>2, <1>6
  <2> QED BY <2>1, <2>2
<1>9. Route(E, p, a, c)
  <2>1. Len(p) >= 2 /\ Len(p) - 1 = n + 1
    BY <1>5, <1>1
  <2> QED BY <2>1, <1>5, <1>7, <1>8, <1>1 DEF Route
<1> QED BY <1>9, <1>5 DEF p, q, n

\* The roles of a target are routes to it from the sources, of one length;
\* there is one where a source reaches the target.
LEMMA RolesAre ==
    ASSUME JoinsOK, NEW sources, sources \subseteq Objects, NEW target \in Objects, NEW anchor \in Objects
    PROVE  /\ \A r \in Roles(sources, target, anchor) :
                 /\ r.source \in sources
                 /\ Route(Traversable, r.path, r.source, target)
           /\ \A r, s \in Roles(sources, target, anchor) : Len(r.path) = Len(s.path)
           /\ \A o \in sources :
                 target \notin sources /\ target \in Family(Traversable, o)
                    => Roles(sources, target, anchor) # {}
<1> DEFINE E == Traversable
           via == {r \in sources \X Objects :
                     /\ <<r[2], target>> \in E
                     /\ Hops(E, r[1], r[2]) + 1 = Hops(E, r[1], target)}
           Role(p) == [source |-> p[1], path |-> Append(ShortestPath(E, p[1], p[2]), target)]
           ranked == {Role(p) : p \in via}
           shortest == {r \in ranked : \A s \in ranked : Len(r.path) <= Len(s.path)}
           Away(r) == Hops(E, anchor, r.source)
           nearest == {r \in shortest : \A s \in shortest : Away(r) <= Away(s)}
<1>1. Roles(sources, target, anchor) = nearest
  BY DEF Roles
<1>2. E \subseteq Objects \X Objects
  BY Graphs
<1> HIDE DEF E
<1>3. ASSUME NEW p \in via
      PROVE  /\ p[1] \in sources
             /\ Route(E, Role(p).path, p[1], target)
             /\ Len(Role(p).path) = Hops(E, p[1], p[2]) + 2
             /\ Len(Role(p).path) \in Nat
  <2>1. p[1] \in sources /\ p[1] \in Objects /\ p[2] \in Objects /\ <<p[2], target>> \in E
    OBVIOUS
  <2>2. p[2] \in Family(E, p[1])
    <3>1. Hops(E, p[1], p[2]) + 1 = Hops(E, p[1], target)
      OBVIOUS
    <3>2. Hops(E, p[1], target) \in 0..N \/ Hops(E, p[1], target) = Far
      BY <2>1, <1>2, HopsIs
    <3>3. Hops(E, p[1], p[2]) # Far
      BY <3>1, <3>2, NPos DEF Far
    <3> HIDE DEF via
    <3> QED BY <3>3, <2>1, <1>2, HopsIs
  <2>3. Hops(E, p[1], p[2]) \in Nat
    BY <2>1, <1>2, HopsType
  <2> DEFINE q == Append(ShortestPath(E, p[1], p[2]), target)
  <2>4. Route(E, q, p[1], target) /\ Len(q) = Hops(E, p[1], p[2]) + 2
    <3> HIDE DEF via
    <3> QED BY <2>1, <2>2, <1>2, RouteEnds
  <2>5. Role(p).path = q
    OBVIOUS
  <2> HIDE DEF q, via, Role
  <2> QED BY <2>1, <2>3, <2>4, <2>5
<1>4. \A r \in ranked : r.source \in sources /\ Route(E, r.path, r.source, target) /\ Len(r.path) \in Nat
  <2>1. \A p \in via : Role(p).source = p[1]
    OBVIOUS
  <2> HIDE DEF via, Role
  <2> QED BY <1>3, <2>1
<1> HIDE DEF ranked
<1>5. \A r, s \in nearest : Len(r.path) = Len(s.path)
  BY <1>4
<1>6. ASSUME NEW o \in sources, target \notin sources, target \in Family(E, o) PROVE ranked # {}
  <2>1. o \in Objects /\ o # target
    BY <1>6
  <2> DEFINE w == Within(E, o)
             h == Hops(E, o, target)
  <2>2. /\ w \in [0..N -> SUBSET Objects]
        /\ w[0] = {o}
        /\ \A k \in 1..N : w[k] = Around(E, w[k - 1])
    <3>1. o \in Objects
      BY <2>1
    <3> HIDE DEF via, shortest, nearest, h
    <3>2. w \in Layers(E, o)
      BY <3>1, <1>2, WithinIs
    <3> HIDE DEF w
    <3> QED BY <3>2 DEF Layers
  <2>3. h \in 0..N /\ target \in w[h] /\ \A i \in 0..(h - 1) : target \notin w[i]
    BY <1>6, <2>1, <1>2, HopsIs
  <2> HIDE DEF w, h
  <2>4. h \in 1..N /\ h - 1 \in 0..(h - 1) /\ h - 1 \in 0..N
    BY <2>1, <2>2, <2>3, NPos
  <2>5. PICK e \in E : e[1] \in w[h - 1] /\ e[2] = target
    BY <2>2, <2>3, <2>4 DEF Around
  <2> DEFINE b == e[1]
  <2>6. b \in Objects /\ <<b, target>> \in E
    BY <2>5, <1>2
  <2>7. \A i \in 0..((h - 1) - 1) : b \notin w[i]
    <3> TAKE i \in 0..((h - 1) - 1)
    <3>1. i + 1 \in 1..N /\ i + 1 \in 0..(h - 1) /\ (i + 1) - 1 = i
      BY <2>4, NPos
    <3>2. target \notin w[i + 1]
      BY <3>1, <2>3
    <3> QED BY <3>1, <3>2, <2>5, <2>2 DEF Around
  <2> HIDE DEF b
  <2>8. b \in Family(E, o) /\ Hops(E, o, b) = h - 1
    <3> DEFINE g == Hops(E, o, b)
    <3>1. b \in w[N]
      <4> DEFINE P == {k \in Nat : k <= h - 1 \/ b \in w[k]}
      <4>1. 0 \in P
        BY <2>4, NPos
      <4>2. ASSUME NEW k \in 1..N, k - 1 \in P PROVE k \in P
        <5>1. CASE k <= h - 1
          BY <5>1
        <5>2. CASE k - 1 = h - 1
          <6>1. b \in w[k - 1]
            BY <5>2, <2>5 DEF b
          <6> QED BY <6>1, <2>2 DEF Around
        <5>3. CASE k - 1 > h - 1
          <6>1. b \in w[k - 1]
            BY <5>3, <4>2, <2>4
          <6> QED BY <6>1, <2>2 DEF Around
        <5> QED BY <5>1, <5>2, <5>3, <2>4
      <4> HIDE DEF P
      <4>3. N \in P
        <5>1. N \in 0..N
          BY NPos
        <5> QED BY <4>1, <4>2, <5>1, NPos, UpTo
      <4> QED BY <4>3, <2>4, NPos DEF P
    <3>2. b \in Family(E, o)
      BY <3>1 DEF Family, w
    <3>3. g \in 0..N /\ b \in w[g] /\ \A i \in 0..(g - 1) : b \notin w[i]
      BY <3>2, <2>1, <2>6, <1>2, HopsIs DEF w
    <3> HIDE DEF g
    <3>4. b \in w[h - 1]
      BY <2>5 DEF b
    <3>5. ~(g < h - 1) /\ ~(h - 1 < g)
      <4>1. g < h - 1 => g \in 0..((h - 1) - 1)
        BY <3>3, <2>4
      <4>2. h - 1 < g => h - 1 \in 0..(g - 1)
        BY <3>3, <2>4
      <4> QED BY <4>1, <4>2, <3>3, <3>4, <2>7
    <3>6. g = h - 1
      BY <3>5, <3>3, <2>4
    <3> QED BY <3>2, <3>6 DEF g
  <2>9. <<o, b>> \in via
    <3>1. Hops(E, o, b) + 1 = Hops(E, o, target)
      BY <2>8, <2>4 DEF h
    <3> QED BY <3>1, <2>6
  <2> QED BY <2>9 DEF ranked
<1>7. ranked # {} => nearest # {}
  <2> SUFFICES ASSUME ranked # {} PROVE nearest # {}
    OBVIOUS
  <2> DEFINE S == {Len(r.path) : r \in ranked}
  <2>1. S \subseteq Nat /\ S # {}
    BY <1>4
  <2>2. PICK m \in S : \A y \in S : m <= y
    <3> HIDE DEF S
    <3> QED BY <2>1, Least
  <2>3. shortest # {}
    BY <2>2
  <2> DEFINE T == {Away(r) : r \in shortest}
  <2>4. \A r \in shortest : Away(r) \in Nat
    <3>1. \A r \in shortest : r.source \in Objects
      BY <1>4
    <3> HIDE DEF shortest
    <3> QED BY <3>1, <1>2, HopsType
  <2>5. T \subseteq Nat /\ T # {}
    <3> HIDE DEF shortest, Away
    <3> QED BY <2>3, <2>4
  <2>6. PICK n \in T : \A y \in T : n <= y
    <3> HIDE DEF T
    <3> QED BY <2>5, Least
  <2> HIDE DEF shortest, Away
  <2> QED BY <2>6
<1>8. \A r \in nearest : r \in ranked
  OBVIOUS
<1> HIDE DEF nearest
<1> QED BY <1>1, <1>4, <1>5, <1>6, <1>7, <1>8 DEF E

\* Among routes of one length, one comes first.
LEMMA ChosenIsARole ==
    ASSUME NEW roles, roles # {}, NEW L \in Nat,
           \A r \in roles : r.source \in Objects /\ r.path \in Seq(Objects) /\ Len(r.path) = L
    PROVE  \E r \in roles : ChosenPath(roles) = r.path
<1> DEFINE S == {r.source : r \in roles}
<1>1. S \subseteq Nat /\ S # {}
  BY DEF Objects
<1>2. PICK m \in S : \A n \in S : m <= n
  <2> HIDE DEF S
  <2> QED BY <1>1, Least
<1> DEFINE R == {r.path : r \in {s \in roles : s.source = m}}
           Same(p, q, k) == \A i \in 1..k : p[i] = q[i]
           Before(p, q, k) == \E i \in 1..k : p[i] < q[i] /\ Same(p, q, i - 1)
           Leads(p, k) == \A q \in R : Same(p, q, k) \/ Before(p, q, k)
           P == {k \in 0..L : \E p \in R : Leads(p, k)}
<1>3. R # {} /\ \A p \in R : p \in Seq(Objects) /\ Len(p) = L /\ \A i \in 1..L : p[i] \in Nat
  <2>1. R # {}
    BY <1>2
  <2>2. \A p \in R : p \in Seq(Objects) /\ Len(p) = L
    OBVIOUS
  <2>3. \A p \in R, i \in 1..L : p[i] \in Objects
    <3> HIDE DEF R
    <3> QED BY <2>2
  <2> HIDE DEF R
  <2> QED BY <2>1, <2>2, <2>3 DEF Objects
<1> HIDE DEF R
<1>4. 0 \in P
  BY <1>3
<1>5. ASSUME NEW k \in 1..L, k - 1 \in P PROVE k \in P
  <2>1. PICK p \in R : Leads(p, k - 1)
    <3> HIDE DEF Leads
    <3> QED BY <1>5
  <2> DEFINE T == {q \in R : Same(p, q, k - 1)}
             V == {q[k] : q \in T}
  <2>2. V \subseteq Nat /\ V # {}
    BY <1>3
  <2>3. PICK v \in V : \A n \in V : v <= n
    <3> HIDE DEF V
    <3> QED BY <2>2, Least
  <2>4. PICK b \in T : b[k] = v
    BY <2>3
  <2>5. \A q \in T : b[k] <= q[k]
    BY <2>3, <2>4
  <2>6. b \in R /\ Same(p, b, k - 1)
    OBVIOUS
  <2> HIDE DEF T, V
  <2>7. ASSUME NEW q \in R PROVE Same(b, q, k) \/ Before(b, q, k)
    <3>1. CASE Same(p, q, k - 1)
      <4>1. q \in T
        BY <3>1 DEF T
      <4>2. b[k] <= q[k]
        BY <2>5, <4>1
      <4>3. b[k] \in Nat /\ q[k] \in Nat
        BY <2>6, <1>3
      <4>4. Same(b, q, k - 1)
        BY <3>1, <2>6
      <4>5. CASE b[k] = q[k]
        <5>1. \A i \in 1..k : i = k \/ i \in 1..(k - 1)
          OBVIOUS
        <5> QED BY <5>1, <4>4, <4>5
      <4>6. CASE b[k] < q[k]
        <5>1. k \in 1..k
          OBVIOUS
        <5> QED BY <5>1, <4>4, <4>6
      <4> QED BY <4>2, <4>3, <4>5, <4>6
    <3>2. CASE Before(p, q, k - 1)
      <4>1. PICK i \in 1..(k - 1) : p[i] < q[i] /\ Same(p, q, i - 1)
        BY <3>2
      <4>2. i \in 1..k /\ \A j \in 1..(i - 1) : j \in 1..(k - 1)
        OBVIOUS
      <4>3. b[i] < q[i] /\ Same(b, q, i - 1)
        BY <4>1, <4>2, <2>6
      <4> QED BY <4>2, <4>3
    <3> QED BY <3>1, <3>2, <2>1
  <2>8. Leads(b, k)
    BY <2>7
  <2>9. k \in 0..L
    OBVIOUS
  <2> HIDE DEF Leads
  <2> QED BY <2>6, <2>8, <2>9
<1>6. L \in P
  <2>1. L \in 0..L
    OBVIOUS
  <2> HIDE DEF P
  <2> QED BY <2>1, <1>4, <1>5, UpTo
<1>7. PICK p \in R : Leads(p, L)
  <2> HIDE DEF Leads
  <2> QED BY <1>6
<1>8. ASSUME NEW q \in R PROVE PathBefore(p, q)
  <2>1. CASE Same(p, q, L)
    <3>1. p = q
      <4>1. p \in Seq(Objects) /\ q \in Seq(Objects) /\ Len(p) = Len(q)
        BY <1>3
      <4> QED BY <4>1, <2>1, <1>3
    <3> QED BY <3>1 DEF PathBefore
  <2>2. CASE Before(p, q, L)
    <3>1. DOMAIN p = 1..L
      BY <1>3
    <3> QED BY <3>1, <2>2 DEF PathBefore
  <2> QED BY <2>1, <2>2, <1>7
<1>9. PICK r \in roles : r.source = m /\ r.path = p
  BY <1>7 DEF R
<1>10. \A s \in roles : r.source < s.source \/ (r.source = s.source /\ PathBefore(r.path, s.path))
  <2> TAKE s \in roles
  <2>1. m <= s.source /\ m \in Nat /\ s.source \in Nat
    BY <1>1, <1>2
  <2>2. CASE s.source = m
    <3>1. s.path \in R
      BY <2>2 DEF R
    <3> QED BY <3>1, <1>8, <1>9, <2>2
  <2>3. CASE s.source # m
    BY <2>1, <2>3, <1>9
  <2> QED BY <2>2, <2>3
<1> HIDE DEF S, Same, Before
<1> QED BY <1>10 DEF ChosenPath

\* The path chosen among the roles is a route to the target.
LEMMA ChosenIsARoute ==
    ASSUME JoinsOK, NEW sources, sources \subseteq Objects, NEW target \in Objects,
           NEW anchor \in Objects, Roles(sources, target, anchor) # {}
    PROVE  \E o \in sources : Route(Traversable, ChosenPath(Roles(sources, target, anchor)), o, target)
<1> DEFINE roles == Roles(sources, target, anchor)
<1>1. /\ \A r \in roles : r.source \in sources /\ Route(Traversable, r.path, r.source, target)
      /\ \A r, s \in roles : Len(r.path) = Len(s.path)
  BY RolesAre
<1> HIDE DEF roles
<1>2. PICK q \in roles : TRUE
  BY DEF roles
<1>3. \A r \in roles : r.source \in Objects /\ r.path \in Seq(Objects) /\ Len(r.path) = Len(q.path)
  BY <1>1 DEF Route
<1>4. Len(q.path) \in Nat
  BY <1>3, <1>2
<1>5. \E r \in roles : ChosenPath(roles) = r.path
  BY <1>2, <1>3, <1>4, ChosenIsARole
<1> QED BY <1>1, <1>5 DEF roles

-----------------------------------------------------------------------------
(* Steps, and the sequences of steps that find_join_path returns *)

\* A step over a join of the model, never a many-to-one join backwards.
Real(s) ==
    /\ s \in Step
    /\ \E j \in joins : s.from = j.from /\ s.to = j.to /\ s.card = j.card
    /\ s.reversed => s.card # "many-to-one"

\* A step leaves the object it is walked from and brings the other.
LEMMA StepOfIs ==
    ASSUME JoinsOK, NEW a, NEW b, <<a, b>> \in Traversable
    PROVE  Real(StepOf(a, b)) /\ Origin(StepOf(a, b)) = a /\ Brought(StepOf(a, b)) = b
<1>1. PICK k \in joins :
          \/ a = k.from /\ b = k.to
          \/ a = k.to /\ b = k.from /\ k.card # "many-to-one"
  BY DEF Traversable, Directed
<1>2. {k.from, k.to} = {a, b}
  BY <1>1
<1>3. \A j \in joins : {j.from, j.to} = {a, b} => j = k
  BY <1>2 DEF JoinsOK
<1>4. k = CHOOSE j \in joins : {j.from, j.to} = {a, b}
  BY <1>2, <1>3
<1> DEFINE s == StepOf(a, b)
<1>5. s = [from |-> k.from, to |-> k.to, card |-> k.card, reversed |-> k.from # a]
  BY <1>4 DEF StepOf
<1>6. k \in Join /\ k.from # k.to
  BY DEF JoinsOK
<1>7. s.from = k.from /\ s.to = k.to /\ s.card = k.card /\ s.reversed = (k.from # a)
  BY <1>5
<1>8. s \in Step
  BY <1>5, <1>6 DEF Step, Join
<1> HIDE DEF s
<1>9. CASE a = k.from
  <2>1. b = k.to /\ ~s.reversed
    BY <1>1, <1>6, <1>7, <1>9
  <2> QED BY <2>1, <1>7, <1>8, <1>9 DEF Real, Origin, Brought, s
<1>10. CASE a # k.from
  <2>1. a = k.to /\ b = k.from /\ k.card # "many-to-one" /\ s.reversed
    BY <1>1, <1>7, <1>10
  <2> QED BY <2>1, <1>7, <1>8 DEF Real, Origin, Brought, s
<1> QED BY <1>9, <1>10

\* The sides of a step, by the way it is walked.
LEMMA RealStep ==
    ASSUME JoinsOK, NEW s, Real(s)
    PROVE  /\ s.from \in Objects /\ s.to \in Objects /\ s.from # s.to
           /\ s.reversed \in BOOLEAN
           /\ {s.from, s.to} = {Origin(s), Brought(s)}
           /\ s.reversed => BehindBackwardStep(s.from, {s.to})
           /\ ~s.reversed => <<Origin(s), Brought(s)>> \in Directed
<1>1. PICK j \in joins : s.from = j.from /\ s.to = j.to /\ s.card = j.card
  BY DEF Real
<1>2. s \in Step /\ j.from # j.to
  BY DEF Real, JoinsOK
<1>3. s.reversed => BehindBackwardStep(s.from, {s.to})
  BY <1>1 DEF Real, BehindBackwardStep
<1>4. ~s.reversed => <<Origin(s), Brought(s)>> \in Directed
  BY <1>1 DEF Directed, Origin, Brought
<1> QED BY <1>1, <1>2, <1>3, <1>4 DEF Step, Origin, Brought

\* The objects the first n of st touch.
Touched(st, n) == Sides({st[i] : i \in 1..n})

\* Every step leaves an object of S or one that an earlier step touches.
Rooted(S, st) == \A n \in 1..Len(st) : Origin(st[n]) \in S \cup Touched(st, n - 1)

\* A sequence of steps that grows from S.
Grown(S, st) ==
    /\ st \in Seq(Step)
    /\ \A s \in ToSet(st) : Real(s)
    /\ Rooted(S, st)

\* The steps of a sequence, and the objects they touch.
LEMMA ToSetIs ==
    ASSUME NEW T, NEW st \in Seq(T)
    PROVE  /\ ToSet(st) = {st[i] : i \in 1..Len(st)}
           /\ Sides(ToSet(st)) = Touched(st, Len(st))
           /\ \A s : ToSet(Append(st, s)) = ToSet(st) \cup {s}
<1>1. ToSet(st) = {st[i] : i \in 1..Len(st)}
  BY DEF ToSet
<1>2. ASSUME NEW s PROVE ToSet(Append(st, s)) = ToSet(st) \cup {s}
  <2> DEFINE u == Append(st, s)
  <2>1. Len(u) = Len(st) + 1 /\ DOMAIN u = 1..(Len(st) + 1) /\ u[Len(st) + 1] = s
    OBVIOUS
  <2>2. \A i \in 1..Len(st) : u[i] = st[i]
    OBVIOUS
  <2>3. Len(st) \in Nat
    OBVIOUS
  <2> HIDE DEF u
  <2>4. ToSet(u) = {u[i] : i \in 1..(Len(st) + 1)}
    BY <2>1 DEF ToSet
  <2>5. 1..(Len(st) + 1) = (1..Len(st)) \cup {Len(st) + 1}
    BY <2>3
  <2>6. ToSet(u) = {u[i] : i \in 1..Len(st)} \cup {s}
    BY <2>1, <2>4, <2>5
  <2> QED BY <2>2, <2>6, <1>1 DEF u
<1> QED BY <1>1, <1>2 DEF Touched

\* Growing by one more step.
LEMMA GrownOn ==
    ASSUME NEW S, NEW st, Grown(S, st), NEW s, Real(s), Origin(s) \in S \cup Sides(ToSet(st))
    PROVE  Grown(S, Append(st, s))
<1> DEFINE u == Append(st, s)
           n == Len(st)
<1>1. st \in Seq(Step) /\ s \in Step
  BY DEF Grown, Real
<1>2. u \in Seq(Step) /\ Len(u) = n + 1 /\ u[n + 1] = s /\ n \in Nat
  BY <1>1
<1>3. \A i \in 1..n : u[i] = st[i]
  BY <1>1
<1>4. ToSet(u) = ToSet(st) \cup {s} /\ Sides(ToSet(st)) = Touched(st, n)
  BY <1>1, ToSetIs
<1> HIDE DEF u, n
<1>5. \A k \in 0..n : Touched(u, k) = Touched(st, k)
  <2> TAKE k \in 0..n
  <2>1. \A i \in 1..k : i \in 1..n
    BY <1>2
  <2>2. {u[i] : i \in 1..k} = {st[i] : i \in 1..k}
    BY <2>1, <1>3
  <2> QED BY <2>2 DEF Touched
<1>6. ASSUME NEW k \in 1..(n + 1) PROVE Origin(u[k]) \in S \cup Touched(u, k - 1)
  <2>1. k - 1 \in 0..n
    BY <1>2
  <2>2. CASE k = n + 1
    <3>1. k - 1 = n
      BY <2>2, <1>2
    <3> QED BY <3>1, <2>1, <2>2, <1>2, <1>4, <1>5
  <2>3. CASE k \in 1..n
    <3>1. Origin(st[k]) \in S \cup Touched(st, k - 1)
      BY <2>3 DEF Grown, Rooted, n
    <3> QED BY <3>1, <2>1, <2>3, <1>3, <1>5
  <2> QED BY <2>2, <2>3, <1>2
<1>7. Rooted(S, u)
  BY <1>2, <1>6 DEF Rooted
<1>8. \A t \in ToSet(u) : Real(t)
  BY <1>4 DEF Grown
<1> QED BY <1>2, <1>7, <1>8 DEF Grown, u

\* No steps yet.
LEMMA GrownEmpty ==
    ASSUME NEW S
    PROVE  Grown(S, <<>>) /\ ToSet(<<>>) = {}
BY DEF Grown, Rooted, ToSet

\* More steps touch more objects.
LEMMA SidesGrow ==
    ASSUME NEW A, NEW B, A \subseteq B
    PROVE  Sides(A) \subseteq Sides(B)
BY DEF Sides

\* Walking a route from what is touched touches its end.
LEMMA WithPathIs ==
    ASSUME JoinsOK, NEW S, NEW walk, Grown(S, walk), NEW a, NEW b, NEW path,
           Route(Traversable, path, a, b), a \in S \cup Sides(ToSet(walk))
    PROVE  LET st == WithPath(walk, path)
           IN  /\ Grown(S, st)
               /\ ToSet(walk) \subseteq ToSet(st)
               /\ b \in S \cup Sides(ToSet(st))
<1> DEFINE n == Len(path) - 1
           Next1(k, found) == LET s == StepOf(path[k], path[k + 1])
                         IN  IF \E t \in ToSet(found) : SameJoin(s, t) THEN found ELSE Append(found, s)
           g == [z \in (1..n) \X Seq(Step) |-> Next1(z[1], z[2])]
<1>1. n \in Nat /\ n >= 1 /\ path[1] = a /\ path[n + 1] = b
  BY DEF Route
<1>2. \A k \in 1..n : <<path[k], path[k + 1]>> \in Traversable
  BY DEF Route
<1>3. \A k \in 1..n :
         LET s == StepOf(path[k], path[k + 1])
         IN  Real(s) /\ s \in Step /\ Origin(s) = path[k] /\ Brought(s) = path[k + 1]
  <2> TAKE k \in 1..n
  <2>1. <<path[k], path[k + 1]>> \in Traversable
    BY <1>2
  <2> DEFINE s == StepOf(path[k], path[k + 1])
  <2>2. Real(s) /\ Origin(s) = path[k] /\ Brought(s) = path[k + 1]
    BY <2>1, StepOfIs
  <2>3. s \in Step
    BY <2>2 DEF Real
  <2> QED BY <2>2, <2>3
<1> HIDE DEF n
<1>4. ASSUME NEW k \in 1..n, NEW found \in Seq(Step) PROVE Next1(k, found) \in Seq(Step)
  BY <1>3
<1>5. g \in Advances(n, Seq(Step))
  <2> HIDE DEF Next1
  <2> QED BY <1>4 DEF Advances
<1>6. \A k \in 1..n, found \in Seq(Step) : g[<<k, found>>] = Next1(k, found)
  <2> HIDE DEF Next1
  <2> QED OBVIOUS
<1> HIDE DEF g
<1>7. walk \in Seq(Step)
  BY DEF Grown
<1>8. PICK f \in Computed(n, Seq(Step), walk, g) : TRUE
  BY <1>1, <1>5, <1>7, Recursion
<1>9. /\ f \in [0..n -> Seq(Step)] /\ f[0] = walk
      /\ \A k \in 1..n : f[k] = g[<<k, f[k - 1]>>]
  BY <1>8 DEF Computed
<1>10. 0 \in 0..n /\ \A k \in 0..n : k # 0 => k \in 1..n /\ k - 1 \in 0..n
  BY <1>1
<1> HIDE DEF Next1
<1>11. \A k \in 0..n : f[k] = IF k = 0 THEN walk ELSE Next1(k, f[k - 1])
  <2> TAKE k \in 0..n
  <2>1. f[k - 1] \in Seq(Step) \/ k = 0
    BY <1>9, <1>10
  <2> QED BY <2>1, <1>6, <1>9, <1>10
<1>12. f = [k \in 0..n |-> IF k = 0 THEN walk ELSE Next1(k, f[k - 1])]
  <2>1. f = [k \in 0..n |-> f[k]]
    BY <1>9
  <2> QED BY <2>1, <1>11
<1> DEFINE w == CHOOSE w : w = [k \in 0..n |-> IF k = 0 THEN walk ELSE Next1(k, w[k - 1])]
<1>13. w = [k \in 0..n |-> IF k = 0 THEN walk ELSE Next1(k, w[k - 1])]
  BY <1>12
<1>14. WithPath(walk, path) = w[n]
  BY DEF WithPath, Next1, n
<1> HIDE DEF w
<1>15. w[0] = walk /\ \A k \in 1..n : w[k] = Next1(k, w[k - 1])
  <2>1. \A k \in 1..n : k \in 0..n /\ k # 0
    OBVIOUS
  <2> QED BY <1>10, <1>13, <2>1
<1> DEFINE P == {k \in 0..n : /\ Grown(S, w[k])
                              /\ ToSet(walk) \subseteq ToSet(w[k])
                              /\ path[k + 1] \in S \cup Sides(ToSet(w[k]))}
<1>16. 0 \in P
  BY <1>1, <1>10, <1>15
<1>17. ASSUME NEW k \in 1..n, k - 1 \in P PROVE k \in P
  <2> DEFINE found == w[k - 1]
             s == StepOf(path[k], path[k + 1])
  <2>1. /\ Grown(S, found) /\ ToSet(walk) \subseteq ToSet(found)
        /\ path[k] \in S \cup Sides(ToSet(found))
    <3>1. (k - 1) + 1 = k
      OBVIOUS
    <3> QED BY <3>1, <1>17
  <2>2. Real(s) /\ Origin(s) = path[k] /\ Brought(s) = path[k + 1]
    BY <1>3
  <2>3. path[k + 1] \in {s.from, s.to}
    BY <2>2 DEF Brought
  <2>4. w[k] = IF \E t \in ToSet(found) : SameJoin(s, t) THEN found ELSE Append(found, s)
    BY <1>15 DEF Next1
  <2> HIDE DEF s, found
  <2>5. CASE \E t \in ToSet(found) : SameJoin(s, t)
    <3>1. PICK t \in ToSet(found) : SameJoin(s, t)
      BY <2>5
    <3>2. path[k + 1] \in Sides(ToSet(found))
      BY <3>1, <2>3 DEF SameJoin, Sides
    <3> QED BY <2>1, <2>4, <2>5, <3>2, <1>10
  <2>6. CASE ~ \E t \in ToSet(found) : SameJoin(s, t)
    <3>1. w[k] = Append(found, s)
      BY <2>4, <2>6
    <3>2. Grown(S, w[k])
      BY <3>1, <2>1, <2>2, GrownOn
    <3>3. ToSet(w[k]) = ToSet(found) \cup {s}
      <4>1. found \in Seq(Step)
        BY <2>1 DEF Grown
      <4> QED BY <4>1, <3>1, ToSetIs
    <3>4. path[k + 1] \in Sides(ToSet(w[k]))
      BY <2>3, <3>3 DEF Sides
    <3>5. k \in 0..n /\ ToSet(walk) \subseteq ToSet(w[k])
      BY <3>3, <2>1
    <3> QED BY <3>2, <3>4, <3>5
  <2> QED BY <2>5, <2>6
<1>18. n \in P
  <2>1. n \in 0..n
    BY <1>1
  <2> HIDE DEF P
  <2> QED BY <2>1, <1>1, <1>16, <1>17, UpTo
<1> QED BY <1>14, <1>18, <1>1

\* What find_join_path has found, on its way from S.
Founds(S) ==
    {fd \in [sources : SUBSET Objects, steps : Seq(Step), ambiguous : BOOLEAN] :
        /\ Grown(S, fd.steps)
        /\ S \subseteq fd.sources
        /\ fd.sources \subseteq S \cup Sides(ToSet(fd.steps))}

\* Some object of S reaches t.
Reachable(S, t) == \E o \in S : t \in Family(Traversable, o)

\* Looking for a target keeps what was found, and finds it if it is reachable.
LEMMA WithTargetIs ==
    ASSUME JoinsOK, NEW S, NEW fd \in Founds(S), NEW t \in Objects, NEW anchor \in Objects
    PROVE  LET new == WithTarget(fd, t, anchor)
           IN  /\ new \in Founds(S)
               /\ new.sources \subseteq fd.sources \cup {t}
               /\ ToSet(fd.steps) \subseteq ToSet(new.steps)
               /\ t \notin fd.sources /\ Reachable(S, t) => t \in S \cup Sides(ToSet(new.steps))
<1> DEFINE roles == Roles(fd.sources, t, anchor)
           new == WithTarget(fd, t, anchor)
<1>1. /\ fd \in [sources : SUBSET Objects, steps : Seq(Step), ambiguous : BOOLEAN]
      /\ fd.sources \subseteq Objects /\ fd.steps \in Seq(Step) /\ fd.ambiguous \in BOOLEAN
      /\ Grown(S, fd.steps) /\ S \subseteq fd.sources
      /\ fd.sources \subseteq S \cup Sides(ToSet(fd.steps))
  BY DEF Founds
<1>2. CASE roles = {}
  <2>1. new = fd
    BY <1>2 DEF WithTarget
  <2>2. ~(t \notin fd.sources /\ Reachable(S, t))
    BY <1>1, <1>2, RolesAre DEF Reachable
  <2> QED BY <2>1, <2>2
<1>3. CASE roles # {}
  <2> DEFINE st == WithPath(fd.steps, ChosenPath(roles))
             amb == fd.ambiguous \/ Cardinality(Entries(roles)) > 1
  <2>1. new = [sources |-> fd.sources \cup {t}, steps |-> st, ambiguous |-> amb]
    BY <1>3 DEF WithTarget
  <2>2. PICK o \in fd.sources : Route(Traversable, ChosenPath(roles), o, t)
    BY <1>1, <1>3, ChosenIsARoute
  <2>3. o \in S \cup Sides(ToSet(fd.steps))
    BY <1>1
  <2>4. /\ Grown(S, st)
        /\ ToSet(fd.steps) \subseteq ToSet(st)
        /\ t \in S \cup Sides(ToSet(st))
    <3> HIDE DEF roles
    <3> QED BY <1>1, <2>2, <2>3, WithPathIs
  <2>5. amb \in BOOLEAN
    BY <1>1
  <2> HIDE DEF st, amb, new
  <2>6. /\ new.sources = fd.sources \cup {t} /\ new.steps = st /\ new.ambiguous = amb
        /\ new \in [sources : SUBSET Objects, steps : Seq(Step), ambiguous : BOOLEAN]
    <3>1. st \in Seq(Step)
      BY <2>4 DEF Grown
    <3> QED BY <3>1, <1>1, <2>1, <2>5
  <2>7. Sides(ToSet(fd.steps)) \subseteq Sides(ToSet(st))
    BY <2>4, SidesGrow
  <2>8. new \in Founds(S)
    BY <1>1, <2>4, <2>6, <2>7 DEF Founds
  <2> QED BY <2>4, <2>6, <2>8 DEF new
<1> QED BY <1>2, <1>3

\* find_join_path returns steps that grow from the sources and touch every
\* target that can be reached.
LEMMA JoinPathIs ==
    ASSUME JoinsOK, NEW S, S \subseteq Objects, NEW targets, targets \subseteq Objects,
           NEW anchor \in Objects
    PROVE  LET r == JoinPath(S, targets, anchor)
           IN  /\ Grown(S, r.steps)
               /\ r.ambiguous \in BOOLEAN
               /\ \A t \in targets : Reachable(S, t) => t \in S \cup Sides(ToSet(r.steps))
<1> DEFINE start == [sources |-> S, steps |-> <<>>, ambiguous |-> FALSE]
           Next1(t, fd) == IF t \in targets \ S THEN WithTarget(fd, t, anchor) ELSE fd
           g == [z \in (1..N) \X Founds(S) |-> Next1(z[1], z[2])]
<1>1. start \in Founds(S)
  BY GrownEmpty DEF Founds
<1>2. ASSUME NEW t \in 1..N, NEW fd \in Founds(S)
      PROVE  /\ Next1(t, fd) \in Founds(S)
             /\ Next1(t, fd).sources \subseteq fd.sources \cup {t}
             /\ ToSet(fd.steps) \subseteq ToSet(Next1(t, fd).steps)
             /\ t \in targets \ S /\ t \notin fd.sources /\ Reachable(S, t)
                   => t \in S \cup Sides(ToSet(Next1(t, fd).steps))
  <2>1. CASE t \in targets \ S
    <3>1. t \in Objects /\ Next1(t, fd) = WithTarget(fd, t, anchor)
      BY <2>1
    <3> HIDE DEF Next1
    <3> DEFINE new == WithTarget(fd, t, anchor)
    <3>2. /\ new \in Founds(S)
          /\ new.sources \subseteq fd.sources \cup {t}
          /\ ToSet(fd.steps) \subseteq ToSet(new.steps)
          /\ t \notin fd.sources /\ Reachable(S, t) => t \in S \cup Sides(ToSet(new.steps))
      BY <3>1, WithTargetIs
    <3> HIDE DEF new
    <3>3. Next1(t, fd) = new
      BY <3>1 DEF new
    <3> QED BY <3>2, <3>3
  <2>2. CASE t \notin targets \ S
    BY <2>2
  <2> QED BY <2>1, <2>2
<1> HIDE DEF start
<1>3. g \in Advances(N, Founds(S)) /\ \A t \in 1..N, fd \in Founds(S) : g[<<t, fd>>] = Next1(t, fd)
  <2> HIDE DEF Next1
  <2> QED BY <1>2 DEF Advances
<1> HIDE DEF g
<1>4. PICK f \in Computed(N, Founds(S), start, g) : TRUE
  BY <1>1, <1>3, NPos, Recursion
<1>5. /\ f \in [0..N -> Founds(S)] /\ f[0] = start
      /\ \A k \in 1..N : f[k] = g[<<k, f[k - 1]>>]
  BY <1>4 DEF Computed
<1>6. 0 \in 0..N /\ \A k \in 0..N : k # 0 => k \in 1..N /\ k - 1 \in 0..N
  BY NPos
<1> HIDE DEF Next1
<1>7. \A k \in 0..N : f[k] = IF k = 0 THEN start ELSE Next1(k, f[k - 1])
  <2> TAKE k \in 0..N
  <2>1. f[k - 1] \in Founds(S) \/ k = 0
    BY <1>5, <1>6
  <2> QED BY <2>1, <1>3, <1>5, <1>6
<1>8. f = [k \in 0..N |-> IF k = 0 THEN start ELSE Next1(k, f[k - 1])]
  <2>1. f = [k \in 0..N |-> f[k]]
    BY <1>5
  <2> QED BY <2>1, <1>7
<1> DEFINE w == CHOOSE w : w = [k \in 0..N |-> IF k = 0 THEN start ELSE Next1(k, w[k - 1])]
<1>9. w = [k \in 0..N |-> IF k = 0 THEN start ELSE Next1(k, w[k - 1])]
  BY <1>8
<1>10. JoinPath(S, targets, anchor) = w[N]
  <2> DEFINE v == CHOOSE v : v = [k \in 0..N |->
                    IF k = 0 THEN start
                    ELSE IF k \in targets \ S THEN WithTarget(v[k - 1], k, anchor) ELSE v[k - 1]]
  <2>1. w = v
    BY DEF Next1
  <2>2. JoinPath(S, targets, anchor) = v[N]
    BY DEF JoinPath, start
  <2> QED BY <2>1, <2>2
<1> HIDE DEF w
<1>11. w[0] = start /\ \A k \in 1..N : w[k] = Next1(k, w[k - 1])
  <2>1. \A k \in 1..N : k \in 0..N /\ k # 0
    OBVIOUS
  <2> QED BY <1>6, <1>9, <2>1
<1> DEFINE Got(k) == \A u \in targets : u <= k /\ Reachable(S, u) => u \in S \cup Sides(ToSet(w[k].steps))
           P == {k \in 0..N : w[k] \in Founds(S) /\ w[k].sources \subseteq S \cup (1..k) /\ Got(k)}
<1>12. 0 \in P
  <2>1. \A u \in targets : ~(u <= 0)
    BY NPos DEF Objects
  <2>2. w[0].sources = S
    BY <1>11 DEF start
  <2> QED BY <2>1, <2>2, <1>1, <1>6, <1>11
<1>13. ASSUME NEW k \in 1..N, k - 1 \in P PROVE k \in P
  <2> DEFINE fd == w[k - 1]
  <2>1. fd \in Founds(S) /\ fd.sources \subseteq S \cup (1..(k - 1)) /\ Got(k - 1)
    BY <1>13
  <2>2. w[k] = Next1(k, fd)
    BY <1>11
  <2> HIDE DEF fd
  <2>3. /\ w[k] \in Founds(S)
        /\ w[k].sources \subseteq fd.sources \cup {k}
        /\ ToSet(fd.steps) \subseteq ToSet(w[k].steps)
        /\ k \in targets \ S /\ k \notin fd.sources /\ Reachable(S, k)
              => k \in S \cup Sides(ToSet(w[k].steps))
    BY <2>1, <2>2, <1>2
  <2>4. Sides(ToSet(fd.steps)) \subseteq Sides(ToSet(w[k].steps))
    BY <2>3, SidesGrow
  <2>5. ASSUME NEW u \in targets, u <= k, Reachable(S, u) PROVE u \in S \cup Sides(ToSet(w[k].steps))
    <3>1. CASE u <= k - 1
      BY <3>1, <2>1, <2>4, <2>5 DEF fd
    <3>2. CASE u = k
      <4>1. k \notin S => k \notin fd.sources
        BY <2>1
      <4> QED BY <3>2, <4>1, <2>3, <2>5
    <3> QED BY <3>1, <3>2, <2>5, NPos DEF Objects
  <2>6. w[k].sources \subseteq S \cup (1..k)
    <3>1. (1..(k - 1)) \cup {k} \subseteq 1..k
      OBVIOUS
    <3> QED BY <3>1, <2>1, <2>3
  <2>7. k \in 0..N
    OBVIOUS
  <2> QED BY <2>3, <2>5, <2>6, <2>7
<1>14. N \in P
  <2>1. N \in 0..N
    BY NPos
  <2> HIDE DEF P
  <2> QED BY <2>1, NPos, <1>12, <1>13, UpTo
<1>15. \A u \in targets : u <= N
  BY NPos DEF Objects
<1>16. w[N].ambiguous \in BOOLEAN /\ Grown(S, w[N].steps)
  BY <1>14 DEF Founds
<1> QED BY <1>10, <1>14, <1>15, <1>16

\* What the n-th step of a plan adds.
LEMMA TouchedGrows ==
    ASSUME JoinsOK, NEW S, NEW st, Grown(S, st), NEW n \in 1..Len(st)
    PROVE  /\ Real(st[n]) /\ st[n] \in ToSet(st)
           /\ Origin(st[n]) \in S \cup Touched(st, n - 1)
           /\ Touched(st, n) = Touched(st, n - 1) \cup {Origin(st[n]), Brought(st[n])}
<1>1. st \in Seq(Step)
  BY DEF Grown
<1>2. st[n] \in ToSet(st)
  BY <1>1, ToSetIs
<1>3. Real(st[n])
  BY <1>2 DEF Grown
<1>4. {st[n].from, st[n].to} = {Origin(st[n]), Brought(st[n])}
  BY <1>3, RealStep
<1>5. 1..n = (1..(n - 1)) \cup {n}
  BY <1>1
<1>6. Touched(st, n) = Touched(st, n - 1) \cup {st[n].from, st[n].to}
  BY <1>5 DEF Touched, Sides
<1>7. Origin(st[n]) \in S \cup Touched(st, n - 1)
  BY DEF Grown, Rooted
<1> QED BY <1>2, <1>3, <1>4, <1>6, <1>7

\* What is new on a path is brought by one of its steps.
LEMMA BroughtBySome ==
    ASSUME JoinsOK, NEW S, NEW st, Grown(S, st), NEW o \in Sides(ToSet(st)), o \notin S
    PROVE  \E s \in ToSet(st) : Brought(s) = o
<1> DEFINE n == Len(st)
           P == {k \in 0..n : \A x \in Touched(st, k) : x \in S \/ \E i \in 1..k : Brought(st[i]) = x}
<1>1. n \in Nat /\ 0 \in 0..n /\ n \in 0..n
  BY DEF Grown
<1>2. 0 \in P
  BY <1>1 DEF Touched, Sides
<1>3. ASSUME NEW k \in 1..n, k - 1 \in P PROVE k \in P
  <2>1. k \in 0..n
    OBVIOUS
  <2>2. ASSUME NEW x \in Touched(st, k), x \notin S PROVE \E i \in 1..k : Brought(st[i]) = x
    <3>1. \/ x \in Touched(st, k - 1)
          \/ x = Brought(st[k])
      BY <2>2, TouchedGrows
    <3>2. CASE x \in Touched(st, k - 1)
      <4>1. PICK i \in 1..(k - 1) : Brought(st[i]) = x
        BY <2>2, <3>2, <1>3
      <4> QED BY <4>1
    <3>3. CASE x = Brought(st[k])
      <4>1. k \in 1..k
        OBVIOUS
      <4> QED BY <3>3, <4>1
    <3> QED BY <3>1, <3>2, <3>3
  <2> QED BY <2>1, <2>2
<1>4. n \in P
  <2> HIDE DEF P
  <2> QED BY <1>1, <1>2, <1>3, UpTo
<1>5. st \in Seq(Step)
  BY DEF Grown
<1>6. Sides(ToSet(st)) = Touched(st, n) /\ \A i \in 1..n : st[i] \in ToSet(st)
  BY <1>5, ToSetIs
<1> QED BY <1>4, <1>6

\* What a path touches is the target of one of its steps, or declares a
\* join that is walked backwards from such a target.
LEMMA TouchedIsReached ==
    ASSUME JoinsOK, NEW S, NEW st, Grown(S, st), NEW o \in Sides(ToSet(st)), o \notin S
    PROVE  \E s \in ToSet(st) :
              /\ o = s.to \/ (s.reversed /\ BehindBackwardStep(o, {s.to}))
<1>1. PICK s \in ToSet(st) : Brought(s) = o
  BY BroughtBySome
<1>2. Real(s)
  BY DEF Grown
<1> QED BY <1>1, <1>2, RealStep DEF Brought

\* Without a step walked backwards, all of it is reached from S.
LEMMA ForwardReach ==
    ASSUME JoinsOK, NEW S, S \subseteq Objects, NEW st, Grown(S, st),
           \A s \in ToSet(st) : ~s.reversed, NEW o \in S \cup Sides(ToSet(st))
    PROVE  \E r \in S : o \in Family(Directed, r)
<1> DEFINE n == Len(st)
           From(x) == \E r \in S : x \in Family(Directed, r)
           P == {k \in 0..n : \A x \in Touched(st, k) : From(x)}
<1>1. n \in Nat /\ 0 \in 0..n /\ n \in 0..n
  BY DEF Grown
<1>2. Directed \subseteq Objects \X Objects
  BY Graphs
<1>3. \A x \in S : From(x)
  BY <1>2, FamilyIs
<1>4. ASSUME NEW x, From(x), NEW y, <<x, y>> \in Directed PROVE From(y)
  <2>1. PICK r \in S : x \in Family(Directed, r)
    BY <1>4
  <2>2. Closed(Directed, Family(Directed, r))
    BY <1>2, FamilyIs
  <2>3. y \in Family(Directed, r)
    BY <2>1, <2>2, <1>4 DEF Closed
  <2> QED BY <2>3
<1> HIDE DEF From
<1>5. 0 \in P
  BY <1>1 DEF Touched, Sides
<1>6. ASSUME NEW k \in 1..n, k - 1 \in P PROVE k \in P
  <2>1. k \in 0..n
    OBVIOUS
  <2>2. /\ Real(st[k]) /\ st[k] \in ToSet(st)
        /\ Origin(st[k]) \in S \cup Touched(st, k - 1)
        /\ Touched(st, k) = Touched(st, k - 1) \cup {Origin(st[k]), Brought(st[k])}
    BY TouchedGrows
  <2>3. From(Origin(st[k]))
    BY <2>2, <1>3, <1>6
  <2>4. <<Origin(st[k]), Brought(st[k])>> \in Directed
    BY <2>2, RealStep
  <2>5. From(Brought(st[k]))
    BY <2>3, <2>4, <1>4
  <2> QED BY <2>1, <2>2, <2>3, <2>5, <1>6
<1>7. n \in P
  <2> HIDE DEF P
  <2> QED BY <1>1, <1>5, <1>6, UpTo
<1>8. st \in Seq(Step)
  BY DEF Grown
<1>9. Sides(ToSet(st)) = Touched(st, n)
  BY <1>8, ToSetIs
<1>10. From(o)
  BY <1>3, <1>7, <1>9
<1> QED BY <1>10 DEF From

-----------------------------------------------------------------------------
(* Common roots and base objects *)

\* The first by rank is one of them.
LEMMA FirstByIs ==
    ASSUME NEW S, S \subseteq Nat, S # {}, NEW rank, \A n \in S : rank[n] \in Nat
    PROVE  FirstBy(S, rank) \in S
<1> DEFINE R == {rank[n] : n \in S}
           T == {n \in S : \A m \in S : rank[n] <= rank[m]}
<1>1. R \subseteq Nat /\ R # {}
  OBVIOUS
<1>2. PICK r \in R : \A y \in R : r <= y
  <2> HIDE DEF R
  <2> QED BY <1>1, Least
<1>3. T \subseteq Nat /\ T # {}
  <2>1. PICK n \in S : r = rank[n]
    OBVIOUS
  <2>2. \A m \in S : rank[n] <= rank[m]
    BY <1>2, <2>1
  <2>3. n \in T
    BY <2>2
  <2> QED BY <2>3
<1>4. Min(T) \in T
  <2> HIDE DEF T
  <2> QED BY <1>3, Least
<1> QED BY <1>4 DEF FirstBy

\* A family is finite.
LEMMA FamilySize ==
    ASSUME NEW E, E \subseteq Objects \X Objects, NEW a \in Objects
    PROVE  IsFiniteSet(Family(E, a)) /\ Cardinality(Family(E, a)) \in Nat
<1>1. IsFiniteSet(Objects)
  BY FS_Interval, NPos DEF Objects
<1>2. IsFiniteSet(Family(E, a))
  BY <1>1, FamilyIs, FS_Subset
<1> QED BY <1>2, FS_CardinalityType

\* Max of bounded numbers is one of them.
LEMMA Greatest ==
    ASSUME NEW S, NEW n \in Nat, S \subseteq 0..n, S # {}
    PROVE  Max(S) \in S
<1> DEFINE T == {n - x : x \in S}
<1>1. T \subseteq Nat /\ T # {}
  <2>1. \A x \in S : x \in 0..n
    OBVIOUS
  <2>2. \A x \in 0..n : n - x \in Nat
    OBVIOUS
  <2>3. \A x \in S : n - x \in Nat
    BY <2>1, <2>2
  <2> QED BY <2>3
<1>2. PICK t \in T : \A y \in T : t <= y
  <2> HIDE DEF T
  <2> QED BY <1>1, Least
<1>3. PICK x \in S : t = n - x
  BY <1>2
<1>4. ASSUME NEW y \in S PROVE x >= y
  <2>1. n - x <= n - y
    BY <1>2, <1>3
  <2>2. x \in 0..n /\ y \in 0..n
    OBVIOUS
  <2> HIDE DEF T
  <2> QED BY <2>1, <2>2
<1> QED BY <1>4 DEF Max

\* The centre is an object.
LEMMA CentreIs ==
    ASSUME JoinsOK, NEW objects, objects \subseteq Objects, objects # {}
    PROVE  Centre(objects) \in Objects
<1> DEFINE pairs == {r \in objects \X objects : r[1] < r[2] /\ Hops(Undirected, r[1], r[2]) # Far}
           connecting == UNION {ToSet(ShortestPath(Undirected, p[1], p[2])) : p \in pairs}
           eccentricity == [n \in connecting |-> Max({Hops(Undirected, n, t) : t \in objects})]
<1>1. Undirected \subseteq Objects \X Objects
  BY Graphs
<1>2. ASSUME NEW p \in pairs PROVE ToSet(ShortestPath(Undirected, p[1], p[2])) \subseteq Objects
  <2>1. p[1] \in Objects /\ p[2] \in Objects /\ Hops(Undirected, p[1], p[2]) # Far
    OBVIOUS
  <2> HIDE DEF pairs
  <2>2. p[2] \in Family(Undirected, p[1])
    BY <2>1, <1>1, HopsType
  <2> DEFINE q == ShortestPath(Undirected, p[1], p[2])
             h == Hops(Undirected, p[1], p[2])
  <2>3. q \in Walks(Undirected, p[1], p[2], h)
    BY <2>1, <2>2, <1>1, ShortestPathIs
  <2> HIDE DEF q, h
  <2>4. q \in [1..(h + 1) -> Objects]
    BY <2>3 DEF Walks
  <2>5. ToSet(q) \subseteq Objects
    BY <2>4 DEF ToSet
  <2> QED BY <2>5 DEF q
<1>3. connecting \subseteq Objects
  <2> HIDE DEF pairs
  <2> QED BY <1>2
<1>4. ASSUME NEW n \in connecting PROVE eccentricity[n] \in Nat
  <2> DEFINE D == {Hops(Undirected, n, t) : t \in objects}
  <2>1. n \in Objects
    BY <1>3
  <2>2. \A t \in objects : Hops(Undirected, n, t) \in 0..(N + 1)
    <3> TAKE t \in objects
    <3>1. Hops(Undirected, n, t) \in 0..N \/ Hops(Undirected, n, t) = Far
      BY <2>1, <1>1, HopsIs
    <3> QED BY <3>1, NPos DEF Far
  <2>3. D \subseteq 0..(N + 1) /\ D # {}
    BY <2>2
  <2>4. Max(D) \in D
    <3> HIDE DEF D
    <3>1. N + 1 \in Nat
      BY NPos
    <3> QED BY <2>3, <3>1, Greatest
  <2>5. eccentricity[n] = Max(D)
    OBVIOUS
  <2>6. \A x \in 0..(N + 1) : x \in Nat
    BY NPos
  <2> HIDE DEF eccentricity, D
  <2> QED BY <2>3, <2>4, <2>5, <2>6
<1>5. Centre(objects) = IF connecting = {} THEN Min(objects) ELSE FirstBy(connecting, eccentricity)
  BY DEF Centre
<1> HIDE DEF connecting, eccentricity
<1>6. Objects \subseteq Nat
  BY DEF Objects
<1>7. Min(objects) \in objects
  BY <1>6, Least
<1>8. connecting # {} => FirstBy(connecting, eccentricity) \in connecting
  BY <1>3, <1>4, <1>6, FirstByIs
<1> QED BY <1>3, <1>5, <1>7, <1>8

\* The common root is an object, and reaches all of them if any object does.
LEMMA CommonRootIs ==
    ASSUME JoinsOK, NEW objects, objects \subseteq Objects, objects # {}
    PROVE  /\ CommonRoot(objects) \in Objects
           /\ \A n \in Objects :
                 objects \subseteq Family(Directed, n) => objects \subseteq Family(Directed, CommonRoot(objects))
<1> DEFINE covering == {n \in Objects : objects \subseteq Family(Directed, n)}
           breadth == [n \in covering |-> Cardinality(Family(Directed, n))]
<1>1. Directed \subseteq Objects \X Objects
  BY Graphs
<1>2. IsFiniteSet(objects)
  <2>1. IsFiniteSet(Objects)
    BY FS_Interval, NPos DEF Objects
  <2> QED BY <2>1, FS_Subset
<1>3. CommonRoot(objects) = IF Cardinality(objects) = 1 THEN CHOOSE o \in objects : TRUE
                            ELSE IF covering = {} THEN Centre(objects)
                            ELSE FirstBy(covering, breadth)
  BY DEF CommonRoot
<1>4. CASE Cardinality(objects) = 1
  <2>1. PICK o : objects = {o}
    BY <1>2, <1>4, FS_Singleton
  <2>2. CommonRoot(objects) = o
    BY <1>3, <1>4, <2>1
  <2>3. o \in Objects /\ o \in Family(Directed, o)
    BY <2>1, <1>1, FamilyIs
  <2> QED BY <2>1, <2>2, <2>3
<1>5. CASE Cardinality(objects) # 1 /\ covering = {}
  <2>1. CommonRoot(objects) = Centre(objects)
    BY <1>3, <1>5
  <2> QED BY <2>1, <1>5, CentreIs
<1>6. CASE Cardinality(objects) # 1 /\ covering # {}
  <2>1. CommonRoot(objects) = FirstBy(covering, breadth)
    BY <1>3, <1>6
  <2>2. covering \subseteq Nat
    BY DEF Objects
  <2>3. \A n \in covering : breadth[n] \in Nat
    BY <1>1, FamilySize
  <2>4. FirstBy(covering, breadth) \in covering
    <3> HIDE DEF covering, breadth
    <3> QED BY <1>6, <2>2, <2>3, FirstByIs
  <2> QED BY <2>1, <2>4
<1> QED BY <1>4, <1>5, <1>6

\* Some object has the greatest rank.
LEMMA Largest ==
    ASSUME NEW M, M \subseteq Objects, M # {}, NEW rank, \A o \in M : rank[o] \in Nat
    PROVE  \E o \in M : \A p \in M : rank[p] <= rank[o]
<1> DEFINE Top(k, o) == o <= k /\ \A p \in M : p <= k => rank[p] <= rank[o]
           P == {k \in 0..N : (\A o \in M : o > k) \/ \E o \in M : Top(k, o)}
<1>1. M \subseteq Nat /\ \A o \in M : o > 0 /\ o <= N
  BY NPos DEF Objects
<1>2. 0 \in P
  BY <1>1, NPos
<1>3. ASSUME NEW k \in 1..N, k - 1 \in P PROVE k \in P
  <2>1. k \in 0..N
    OBVIOUS
  <2>2. CASE k \notin M
    <3>1. \A o \in M : (o > k <=> o > k - 1) /\ (o <= k <=> o <= k - 1)
      BY <1>1, <2>2
    <3>2. \A o \in M : Top(k - 1, o) => Top(k, o)
      BY <3>1
    <3> QED BY <1>3, <2>1, <3>1, <3>2
  <2>3. CASE k \in M /\ \A o \in M : o > k - 1
    <3>1. \A p \in M : p <= k => p = k
      BY <1>1, <2>3
    <3>2. Top(k, k)
      BY <3>1, <2>3
    <3> QED BY <2>1, <2>3, <3>2
  <2>4. CASE k \in M /\ \E o \in M : Top(k - 1, o)
    <3>1. PICK o \in M : Top(k - 1, o)
      BY <2>4
    <3>2. \A p \in M : p <= k => p <= k - 1 \/ p = k
      BY <1>1
    <3>3. rank[o] \in Nat /\ rank[k] \in Nat
      BY <2>4
    <3>4. CASE rank[k] <= rank[o]
      <4>1. Top(k, o)
        BY <3>1, <3>2, <3>4, <1>1
      <4> QED BY <2>1, <4>1
    <3>5. CASE ~(rank[k] <= rank[o])
      <4>1. Top(k, k)
        BY <3>1, <3>2, <3>3, <3>5
      <4> QED BY <2>1, <2>4, <4>1
    <3> QED BY <3>4, <3>5
  <2> QED BY <2>2, <2>3, <2>4, <1>3
<1>4. N \in P
  <2>1. N \in 0..N
    BY NPos
  <2> HIDE DEF P
  <2> QED BY <2>1, <1>2, <1>3, NPos, UpTo
<1>5. PICK o \in M : Top(N, o)
  <2>1. PICK m \in M : TRUE
    OBVIOUS
  <2>2. m \in Nat /\ m <= N /\ N \in Nat
    BY <1>1, NPos
  <2>3. ~ (m > N)
    BY <2>2
  <2> HIDE DEF Top
  <2> QED BY <2>3, <1>4
<1> QED BY <1>1, <1>5

\* The busiest source is a measure's object.
LEMMA BusiestSourceIs ==
    ASSUME JoinsOK, IsFiniteSet(joins), query.measures \subseteq Objects, query.measures # {}
    PROVE  BusiestSource \in query.measures
<1> DEFINE M == query.measures
           safe == [o \in M |-> Family(Preserving, o)]
           rank == [o \in M |->
                      Cardinality({j \in joins : j.from = o}) * Far
                      + IF M \subseteq safe[o] THEN Cardinality(Wanted \cap safe[o]) ELSE 0]
           R == {rank[o] : o \in M}
           T == {o \in M : \A p \in M : rank[p] <= rank[o]}
<1>1. BusiestSource = Min(T)
  BY DEF BusiestSource
<1>2. IsFiniteSet(M)
  <2>1. IsFiniteSet(Objects)
    BY FS_Interval, NPos DEF Objects
  <2> QED BY <2>1, FS_Subset
<1>3. \A o \in M : rank[o] \in Nat
  <2> TAKE o \in M
  <2> DEFINE a == Cardinality({j \in joins : j.from = o})
             b == Cardinality(Wanted \cap safe[o])
  <2>1. a \in Nat
    <3> DEFINE J == {j \in joins : j.from = o}
    <3>1. J \in SUBSET joins
      OBVIOUS
    <3> HIDE DEF J
    <3>2. IsFiniteSet(J)
      BY <3>1, FS_Subset
    <3>3. Cardinality(J) \in Nat
      BY <3>2, FS_CardinalityType
    <3> QED BY <3>3 DEF J
  <2>2. b \in Nat
    <3>1. Preserving \subseteq Objects \X Objects
      BY Graphs
    <3>2. safe[o] = Family(Preserving, o)
      OBVIOUS
    <3>3. IsFiniteSet(safe[o])
      BY <3>1, <3>2, FamilySize
    <3> DEFINE W == Wanted \cap safe[o]
    <3>4. W \in SUBSET safe[o]
      OBVIOUS
    <3> HIDE DEF safe, W
    <3>5. IsFiniteSet(W)
      BY <3>3, <3>4, FS_Subset
    <3>6. Cardinality(W) \in Nat
      BY <3>5, FS_CardinalityType
    <3> QED BY <3>6 DEF W, safe
  <2>3. rank[o] = a * Far + IF M \subseteq safe[o] THEN b ELSE 0
    OBVIOUS
  <2>4. Far \in Nat
    BY NPos DEF Far
  <2> HIDE DEF a, b, rank, safe
  <2>5. a * Far \in Nat
    BY <2>1, <2>4
  <2> QED BY <2>1, <2>2, <2>3, <2>5
<1> HIDE DEF rank
<1>4. T \subseteq Nat /\ T # {}
  <2>1. M \subseteq Nat
    BY DEF Objects
  <2> HIDE DEF M
  <2>2. \E o \in M : \A p \in M : rank[p] <= rank[o]
    BY <1>3, Largest DEF M
  <2> QED BY <2>1, <2>2
<1>5. Min(T) \in T
  <2> HIDE DEF T
  <2> QED BY <1>4, Least
<1> QED BY <1>1, <1>5

-----------------------------------------------------------------------------
(* The filter's path *)

\* A plan, and what it reaches.
Extended == [steps : Seq(Step), reached : SUBSET Objects]

\* What WithFilter computes, step by step.
FilterFrom(path) ==
    {f \in [0..Len(path) -> Extended] :
        /\ f[0] = [steps |-> steps, reached |-> reached]
        /\ \A i \in 1..Len(path) :
              f[i] = IF path[i].to \in f[i - 1].reached THEN f[i - 1]
                     ELSE [steps |-> Append(f[i - 1].steps, path[i]),
                           reached |-> f[i - 1].reached \cup {path[i].to}]}

\* WithFilter computes it.
LEMMA WithFilterIs ==
    ASSUME steps \in Seq(Step), reached \subseteq Objects, NEW path \in Seq(Step)
    PROVE  \E f \in FilterFrom(path) : WithFilter(path) = f[Len(path)]
<1> DEFINE n == Len(path)
           start == [steps |-> steps, reached |-> reached]
           Add(found, s) == IF s.to \in found.reached THEN found
                            ELSE [steps |-> Append(found.steps, s), reached |-> found.reached \cup {s.to}]
           g == [z \in (1..n) \X Extended |-> Add(z[2], path[z[1]])]
<1>1. n \in Nat /\ \A i \in 1..n : path[i] \in Step /\ path[i].to \in Objects
  <2>1. n \in Nat /\ \A i \in 1..n : path[i] \in Step
    OBVIOUS
  <2>2. \A s \in Step : s.to \in Objects
    BY DEF Step
  <2> QED BY <2>1, <2>2
<1>2. start \in Extended
  BY DEF Extended
<1>3. ASSUME NEW i \in 1..n, NEW found \in Extended PROVE Add(found, path[i]) \in Extended
  BY <1>1 DEF Extended
<1>4. n \in Nat /\ WithFilter(path) = (CHOOSE w : w = [i \in 0..n |->
                      IF i = 0 THEN start ELSE Add(w[i - 1], path[i])])[n]
  BY <1>1 DEF WithFilter
<1> HIDE DEF Add, start, n
<1>5. g \in Advances(n, Extended) /\ \A i \in 1..n, found \in Extended : g[<<i, found>>] = Add(found, path[i])
  BY <1>3 DEF Advances
<1> HIDE DEF g
<1>6. PICK f \in Computed(n, Extended, start, g) : TRUE
  BY <1>2, <1>4, <1>5, Recursion
<1>7. /\ f \in [0..n -> Extended] /\ f[0] = start
      /\ \A i \in 1..n : f[i] = g[<<i, f[i - 1]>>]
  BY <1>6 DEF Computed
<1>8. 0 \in 0..n /\ \A i \in 0..n : i # 0 => i \in 1..n /\ i - 1 \in 0..n
  BY <1>4
<1>9. \A i \in 0..n : f[i] = IF i = 0 THEN start ELSE Add(f[i - 1], path[i])
  <2> TAKE i \in 0..n
  <2>1. f[i - 1] \in Extended \/ i = 0
    BY <1>7, <1>8
  <2> QED BY <2>1, <1>5, <1>7, <1>8
<1>10. f = [i \in 0..n |-> IF i = 0 THEN start ELSE Add(f[i - 1], path[i])]
  <2>1. f = [i \in 0..n |-> f[i]]
    BY <1>7
  <2> QED BY <2>1, <1>9
<1> DEFINE w == CHOOSE w : w = [i \in 0..n |-> IF i = 0 THEN start ELSE Add(w[i - 1], path[i])]
<1>11. w = [i \in 0..n |-> IF i = 0 THEN start ELSE Add(w[i - 1], path[i])]
  BY <1>10
<1>12. WithFilter(path) = w[n]
  BY <1>4
<1> HIDE DEF w
<1>13. w[0] = start /\ \A i \in 1..n : w[i] = Add(w[i - 1], path[i])
  <2>1. \A i \in 1..n : i \in 0..n /\ i # 0
    OBVIOUS
  <2> QED BY <1>8, <1>11, <2>1
<1> DEFINE P == {i \in 0..n : w[i] \in Extended}
<1>14. \A i \in 0..n : i \in P
  <2>1. 0 \in P
    BY <1>2, <1>8, <1>13
  <2>2. \A i \in 1..n : i - 1 \in P => i \in P
    BY <1>13, <1>3
  <2> HIDE DEF P
  <2> QED BY <2>1, <2>2, <1>4, UpTo
<1>15. w \in [0..n -> Extended]
  BY <1>11, <1>14
<1>16. w \in FilterFrom(path)
  BY <1>13, <1>15 DEF FilterFrom, Add, start, n
<1> QED BY <1>12, <1>16 DEF n

\* The steps planned keep what is planned, and bring every target.
LEMMA FilterReaches ==
    ASSUME steps \in Seq(Step), reached \subseteq Objects, NEW path \in Seq(Step)
    PROVE  LET w == WithFilter(path)
           IN  /\ w.steps \in Seq(Step)
               /\ w.reached = reached \cup {s.to : s \in ToSet(path)}
               /\ ToSet(steps) \subseteq ToSet(w.steps)
               /\ ToSet(w.steps) \subseteq ToSet(steps) \cup ToSet(path)
               /\ reached = {base} \cup {s.to : s \in ToSet(steps)} =>
                     w.reached = {base} \cup {s.to : s \in ToSet(w.steps)}
<1> DEFINE n == Len(path)
<1>1. PICK f \in FilterFrom(path) : WithFilter(path) = f[n]
  BY WithFilterIs
<1>2. /\ f \in [0..n -> Extended]
      /\ f[0] = [steps |-> steps, reached |-> reached]
      /\ \A i \in 1..n : f[i] = IF path[i].to \in f[i - 1].reached THEN f[i - 1]
                                ELSE [steps |-> Append(f[i - 1].steps, path[i]),
                                      reached |-> f[i - 1].reached \cup {path[i].to}]
  BY DEF FilterFrom
<1>3. n \in Nat /\ 0 \in 0..n /\ n \in 0..n /\ \A i \in 1..n : path[i] \in ToSet(path) /\ path[i] \in Step
  BY ToSetIs
<1>4. ToSet(path) = {path[i] : i \in 1..n}
  BY ToSetIs
<1> HIDE DEF n
<1> DEFINE Tos(st) == {s.to : s \in ToSet(st)}
           P == {i \in 0..n : /\ f[i].steps \in Seq(Step)
                              /\ f[i].reached = reached \cup {path[k].to : k \in 1..i}
                              /\ ToSet(steps) \subseteq ToSet(f[i].steps)
                              /\ ToSet(f[i].steps) \subseteq ToSet(steps) \cup ToSet(path)
                              /\ reached = {base} \cup Tos(steps) => f[i].reached = {base} \cup Tos(f[i].steps)}
<1>5. 0 \in P
  <2>1. f[0].steps = steps /\ f[0].reached = reached
    BY <1>2
  <2>2. {path[k].to : k \in 1..0} = {}
    OBVIOUS
  <2> QED BY <2>1, <2>2, <1>3
<1>6. ASSUME NEW i \in 1..n, i - 1 \in P PROVE i \in P
  <2> DEFINE found == f[i - 1]
  <2>1. /\ found.steps \in Seq(Step)
        /\ found.reached = reached \cup {path[k].to : k \in 1..(i - 1)}
        /\ ToSet(steps) \subseteq ToSet(found.steps)
        /\ ToSet(found.steps) \subseteq ToSet(steps) \cup ToSet(path)
        /\ reached = {base} \cup Tos(steps) => found.reached = {base} \cup Tos(found.steps)
    BY <1>6
  <2>2. {path[k].to : k \in 1..i} = {path[k].to : k \in 1..(i - 1)} \cup {path[i].to}
    <3>1. 1..i = (1..(i - 1)) \cup {i}
      BY <1>3
    <3> QED BY <3>1
  <2>3. i \in 0..n
    OBVIOUS
  <2>4. CASE path[i].to \in found.reached
    <3>1. f[i] = found
      BY <2>4, <1>2
    <3>2. f[i].reached = reached \cup {path[k].to : k \in 1..i}
      BY <3>1, <2>1, <2>2, <2>4
    <3> HIDE DEF found
    <3> QED BY <3>1, <3>2, <2>1, <2>3
  <2>5. CASE path[i].to \notin found.reached
    <3> DEFINE st == Append(found.steps, path[i])
    <3>1. f[i].steps = st /\ f[i].reached = found.reached \cup {path[i].to}
      <4>1. f[i] = [steps |-> st, reached |-> found.reached \cup {path[i].to}]
        BY <2>5, <1>2
      <4> HIDE DEF st, found
      <4> QED BY <4>1
    <3>2. ToSet(st) = ToSet(found.steps) \cup {path[i]}
      BY <2>1, ToSetIs
    <3>3. st \in Seq(Step)
      <4>1. path[i] \in Step
        BY <1>3
      <4> QED BY <2>1, <4>1
    <3>4. Tos(st) = Tos(found.steps) \cup {path[i].to}
      BY <3>2
    <3>5. reached = {base} \cup Tos(steps) => f[i].reached = {base} \cup Tos(st)
      <4> HIDE DEF st, found, Tos
      <4> QED BY <3>1, <3>4, <2>1
    <3>6. f[i].reached = reached \cup {path[k].to : k \in 1..i}
      BY <3>1, <2>1, <2>2
    <3>7. ToSet(steps) \subseteq ToSet(st) /\ ToSet(st) \subseteq ToSet(steps) \cup ToSet(path)
      BY <3>2, <2>1, <1>3
    <3> HIDE DEF st, found, Tos
    <3> QED BY <3>1, <3>3, <3>5, <3>6, <3>7, <2>3
  <2> QED BY <2>4, <2>5
<1>7. n \in P
  <2> HIDE DEF P
  <2> QED BY <1>3, <1>5, <1>6, UpTo
<1>8. {path[k].to : k \in 1..n} = {s.to : s \in ToSet(path)}
  BY <1>4
<1> QED BY <1>1, <1>7, <1>8

\* Where no step walked backwards is left out, the plan stays in one piece.
LEMMA FilterGrows ==
    ASSUME JoinsOK, reached \subseteq Objects, NEW S, Grown(S, steps),
           reached \subseteq S \cup Sides(ToSet(steps)),
           NEW path, Grown(reached, path),
           \A s \in ToSet(path) : s.reversed => s \in ToSet(WithFilter(path).steps)
    PROVE  Grown(S, WithFilter(path).steps)
<1> DEFINE n == Len(path)
<1>1. steps \in Seq(Step) /\ path \in Seq(Step)
  BY DEF Grown
<1>2. PICK f \in FilterFrom(path) : WithFilter(path) = f[n]
  BY <1>1, WithFilterIs
<1>3. /\ f \in [0..n -> Extended]
      /\ f[0] = [steps |-> steps, reached |-> reached]
      /\ \A i \in 1..n : f[i] = IF path[i].to \in f[i - 1].reached THEN f[i - 1]
                                ELSE [steps |-> Append(f[i - 1].steps, path[i]),
                                      reached |-> f[i - 1].reached \cup {path[i].to}]
  BY DEF FilterFrom
<1>4. n \in Nat /\ 0 \in 0..n /\ n \in 0..n /\ \A i \in 1..n : path[i] \in ToSet(path) /\ path[i] \in Step
  BY <1>1, ToSetIs
<1>5. \A i \in 0..n : f[i].steps \in Seq(Step) /\ f[i].reached \subseteq Objects
  BY <1>3 DEF Extended
<1>6. ASSUME NEW i \in 1..n, path[i].to \notin f[i - 1].reached
      PROVE  /\ f[i].steps = Append(f[i - 1].steps, path[i])
             /\ ToSet(f[i].steps) = ToSet(f[i - 1].steps) \cup {path[i]}
             /\ f[i].reached = f[i - 1].reached \cup {path[i].to}
  <2> DEFINE st == Append(f[i - 1].steps, path[i])
             re == f[i - 1].reached \cup {path[i].to}
  <2>1. f[i] = [steps |-> st, reached |-> re]
    BY <1>3, <1>6
  <2>2. f[i - 1].steps \in Seq(Step)
    <3>1. i - 1 \in 0..n
      BY <1>4
    <3> QED BY <3>1, <1>5
  <2>3. ToSet(st) = ToSet(f[i - 1].steps) \cup {path[i]}
    BY <2>2, ToSetIs
  <2>4. f[i].steps = st /\ f[i].reached = re
    <3> HIDE DEF st, re
    <3> QED BY <2>1
  <2> QED BY <2>3, <2>4
<1>7. \A s \in ToSet(path) : s.reversed => s \in ToSet(f[n].steps)
  BY <1>2
<1> HIDE DEF n
<1>8. ASSUME NEW i \in 1..n, path[i].to \in f[i - 1].reached, path[i].reversed
      PROVE  path[i] \in ToSet(f[i - 1].steps)
  <2> SUFFICES ASSUME path[i] \notin ToSet(f[i - 1].steps) PROVE path[i] \notin ToSet(f[n].steps)
    BY <1>4, <1>7, <1>8
  <2> DEFINE P == {m \in 0..n : m >= i - 1 => path[i] \notin ToSet(f[m].steps) /\ path[i].to \in f[m].reached}
  <2>1. 0 \in P
    <3>1. 0 >= i - 1 => i - 1 = 0
      BY <1>4
    <3> QED BY <3>1, <1>4, <1>8
  <2>2. ASSUME NEW m \in 1..n, m - 1 \in P PROVE m \in P
    <3>1. CASE m < i - 1
      BY <3>1, <1>4
    <3>2. CASE m = i - 1
      BY <3>2, <1>4, <1>8
    <3>3. CASE m >= i
      <4>1. path[i] \notin ToSet(f[m - 1].steps) /\ path[i].to \in f[m - 1].reached
        BY <3>3, <2>2, <1>4
      <4>2. CASE path[m].to \in f[m - 1].reached
        <5>1. f[m] = f[m - 1]
          BY <4>2, <1>3 DEF n
        <5> QED BY <4>1, <5>1
      <4>3. CASE path[m].to \notin f[m - 1].reached
        <5>1. path[m] # path[i]
          BY <4>1, <4>3
        <5> QED BY <4>1, <4>3, <5>1, <1>6
      <4> QED BY <4>2, <4>3
    <3> QED BY <3>1, <3>2, <3>3, <1>4
  <2>3. n \in P
    <3> HIDE DEF P
    <3> QED BY <1>4, <2>1, <2>2, UpTo
  <2>4. n >= i - 1
    BY <1>4
  <2> QED BY <2>3, <2>4
<1> DEFINE All(i) == S \cup Sides(ToSet(f[i].steps))
           P == {i \in 0..n : /\ Grown(S, f[i].steps)
                              /\ reached \subseteq All(i)
                              /\ f[i].reached \subseteq All(i)
                              /\ Touched(path, i) \subseteq All(i)}
<1>9. 0 \in P
  <2>1. f[0].steps = steps /\ f[0].reached = reached
    BY <1>3
  <2>2. Touched(path, 0) = {}
    BY DEF Touched, Sides
  <2> QED BY <2>1, <2>2, <1>4
<1>10. ASSUME NEW i \in 1..n, i - 1 \in P PROVE i \in P
  <2>1. /\ Grown(S, f[i - 1].steps)
        /\ reached \subseteq All(i - 1)
        /\ f[i - 1].reached \subseteq All(i - 1)
        /\ Touched(path, i - 1) \subseteq All(i - 1)
    BY <1>10
  <2>2. /\ Real(path[i])
        /\ Origin(path[i]) \in reached \cup Touched(path, i - 1)
        /\ Touched(path, i) = Touched(path, i - 1) \cup {Origin(path[i]), Brought(path[i])}
    <3>1. i \in 1..Len(path)
      BY DEF n
    <3> QED BY <3>1, TouchedGrows
  <2>3. Origin(path[i]) \in All(i - 1)
    BY <2>1, <2>2
  <2>4. {path[i].from, path[i].to} = {Origin(path[i]), Brought(path[i])}
    BY <2>2, RealStep
  <2>5. i \in 0..n
    OBVIOUS
  <2>6. CASE path[i].to \notin f[i - 1].reached
    <3>1. /\ f[i].steps = Append(f[i - 1].steps, path[i])
          /\ ToSet(f[i].steps) = ToSet(f[i - 1].steps) \cup {path[i]}
          /\ f[i].reached = f[i - 1].reached \cup {path[i].to}
      BY <2>6, <1>6
    <3>2. Grown(S, f[i].steps)
      BY <3>1, <2>1, <2>2, <2>3, GrownOn
    <3>3. All(i) = All(i - 1) \cup {path[i].from, path[i].to}
      BY <3>1 DEF Sides
    <3> HIDE DEF All
    <3> QED BY <3>1, <3>2, <3>3, <2>1, <2>2, <2>4, <2>5
  <2>7. CASE path[i].to \in f[i - 1].reached
    <3>1. f[i] = f[i - 1]
      BY <2>7, <1>3 DEF n
    <3>2. All(i) = All(i - 1)
      BY <3>1
    <3>3. path[i].to \in All(i - 1)
      BY <2>1, <2>7
    <3>4. path[i].from \in All(i - 1)
      <4>1. CASE path[i].reversed
        <5>1. path[i] \in ToSet(f[i - 1].steps)
          BY <4>1, <2>7, <1>8
        <5> QED BY <5>1 DEF Sides
      <4>2. CASE ~path[i].reversed
        BY <4>2, <2>3 DEF Origin
      <4> QED BY <4>1, <4>2
    <3> HIDE DEF All
    <3> QED BY <3>1, <3>2, <3>3, <3>4, <2>1, <2>2, <2>4, <2>5
  <2> QED BY <2>6, <2>7
<1>11. n \in P
  <2> HIDE DEF P
  <2> QED BY <1>4, <1>9, <1>10, UpTo
<1> QED BY <1>2, <1>11

-----------------------------------------------------------------------------
(* What the steps repeat *)

\* What Marked computes, step by step.
Marks(path) ==
    {f \in [0..Len(path) -> SUBSET Objects] :
        /\ f[0] = {}
        /\ \A i \in 1..Len(path) :
              f[i] = IF ~path[i].reversed /\ (path[i].card # "one-to-one" \/ path[i].from \in f[i - 1])
                     THEN f[i - 1] \cup {path[i].to} ELSE f[i - 1]}

\* Marked computes it.
LEMMA MarkedIs ==
    ASSUME NEW path \in Seq(Step)
    PROVE  Marked(path) \in Marks(path)
<1> DEFINE n == Len(path)
           Mark(found, s) == IF ~s.reversed /\ (s.card # "one-to-one" \/ s.from \in found)
                             THEN found \cup {s.to} ELSE found
           g == [z \in (1..n) \X SUBSET Objects |-> Mark(z[2], path[z[1]])]
<1>1. n \in Nat /\ \A i \in 1..n : path[i] \in Step /\ path[i].to \in Objects
  <2>1. n \in Nat /\ \A i \in 1..n : path[i] \in Step
    OBVIOUS
  <2>2. \A s \in Step : s.to \in Objects
    BY DEF Step
  <2> QED BY <2>1, <2>2
<1>2. {} \in SUBSET Objects
  OBVIOUS
<1>3. ASSUME NEW i \in 1..n, NEW found \in SUBSET Objects PROVE Mark(found, path[i]) \in SUBSET Objects
  BY <1>1
<1>4. n \in Nat /\ Marked(path) = CHOOSE w : w = [i \in 0..n |->
                      IF i = 0 THEN {} ELSE Mark(w[i - 1], path[i])]
  BY <1>1 DEF Marked
<1> HIDE DEF Mark, n
<1>5. g \in Advances(n, SUBSET Objects) /\ \A i \in 1..n, found \in SUBSET Objects : g[<<i, found>>] = Mark(found, path[i])
  BY <1>3 DEF Advances
<1> HIDE DEF g
<1>6. PICK f \in Computed(n, SUBSET Objects, {}, g) : TRUE
  BY <1>2, <1>4, <1>5, Recursion
<1>7. /\ f \in [0..n -> SUBSET Objects] /\ f[0] = {}
      /\ \A i \in 1..n : f[i] = g[<<i, f[i - 1]>>]
  BY <1>6 DEF Computed
<1>8. 0 \in 0..n /\ \A i \in 0..n : i # 0 => i \in 1..n /\ i - 1 \in 0..n
  BY <1>4
<1>9. \A i \in 0..n : f[i] = IF i = 0 THEN {} ELSE Mark(f[i - 1], path[i])
  <2> TAKE i \in 0..n
  <2>1. f[i - 1] \in SUBSET Objects \/ i = 0
    BY <1>7, <1>8
  <2> QED BY <2>1, <1>5, <1>7, <1>8
<1>10. f = [i \in 0..n |-> IF i = 0 THEN {} ELSE Mark(f[i - 1], path[i])]
  <2>1. f = [i \in 0..n |-> f[i]]
    BY <1>7
  <2> QED BY <2>1, <1>9
<1> DEFINE w == CHOOSE w : w = [i \in 0..n |-> IF i = 0 THEN {} ELSE Mark(w[i - 1], path[i])]
<1>11. w = [i \in 0..n |-> IF i = 0 THEN {} ELSE Mark(w[i - 1], path[i])]
  BY <1>10
<1>12. Marked(path) = w
  BY <1>4
<1> HIDE DEF w
<1>13. w[0] = {} /\ \A i \in 1..n : w[i] = Mark(w[i - 1], path[i])
  <2>1. \A i \in 1..n : i \in 0..n /\ i # 0
    OBVIOUS
  <2> QED BY <1>8, <1>11, <2>1
<1> DEFINE P == {i \in 0..n : w[i] \in SUBSET Objects}
<1>14. \A i \in 0..n : i \in P
  <2>1. 0 \in P
    BY <1>2, <1>8, <1>13
  <2>2. ASSUME NEW i \in 1..n, i - 1 \in P PROVE i \in P
    <3>1. w[i - 1] \in SUBSET Objects /\ i \in 0..n
      BY <2>2
    <3>2. Mark(w[i - 1], path[i]) \in SUBSET Objects
      BY <3>1, <1>3
    <3> QED BY <3>1, <3>2, <1>13
  <2> HIDE DEF P
  <2> QED BY <2>1, <2>2, <1>4, UpTo
<1>15. w \in [0..n -> SUBSET Objects]
  BY <1>11, <1>14
<1>16. w \in Marks(path)
  BY <1>13, <1>15 DEF Marks, Mark, n
<1> QED BY <1>12, <1>16

\* What is marked stays so.
LEMMA MarksGrow ==
    ASSUME NEW path \in Seq(Step), NEW f \in Marks(path), NEW i \in 0..Len(path)
    PROVE  f[i] \subseteq f[Len(path)]
<1> DEFINE n == Len(path)
           P == {m \in 0..n : m >= i => f[i] \subseteq f[m]}
<1>1. n \in Nat /\ n \in 0..n /\ 0 \in 0..n /\ n >= i
  OBVIOUS
<1>2. \A m \in 1..n : f[m - 1] \subseteq f[m]
  BY DEF Marks
<1>3. 0 \in P
  BY <1>1
<1>4. ASSUME NEW m \in 1..n, m - 1 \in P PROVE m \in P
  <2>1. m >= i => m - 1 >= i \/ m = i
    OBVIOUS
  <2> QED BY <2>1, <1>2, <1>4
<1>5. n \in P
  <2> HIDE DEF P, n
  <2> QED BY <1>1, <1>3, <1>4, UpTo
<1> QED BY <1>1, <1>5

-----------------------------------------------------------------------------
(* What a plan joins *)

\* What is joined, and by which steps.
Joined == [joined : SUBSET Objects, emitted : SUBSET Step]

\* What StarJoins computes, step by step.
StarFrom ==
    {f \in [0..Len(steps) -> Joined] :
        /\ f[0] = [joined |-> {base}, emitted |-> {}]
        /\ \A i \in 1..Len(steps) :
              f[i] = IF {steps[i].from, steps[i].to} \subseteq f[i - 1].joined THEN f[i - 1]
                     ELSE [joined |-> f[i - 1].joined \cup
                              {IF steps[i].to \notin f[i - 1].joined THEN steps[i].to ELSE steps[i].from},
                           emitted |-> f[i - 1].emitted \cup {steps[i]}]}

\* StarJoins computes it.
LEMMA StarJoinsIs ==
    ASSUME steps \in Seq(Step), base \in Objects
    PROVE  \E f \in StarFrom : StarJoins = f[Len(steps)]
<1> DEFINE n == Len(steps)
           start == [joined |-> {base}, emitted |-> {}]
           Emit(found, s) == IF {s.from, s.to} \subseteq found.joined THEN found
                             ELSE [joined |-> found.joined \cup
                                      {IF s.to \notin found.joined THEN s.to ELSE s.from},
                                   emitted |-> found.emitted \cup {s}]
           g == [z \in (1..n) \X Joined |-> Emit(z[2], steps[z[1]])]
<1>1. n \in Nat /\ \A i \in 1..n : steps[i] \in Step /\ steps[i].to \in Objects /\ steps[i].from \in Objects
  <2>1. n \in Nat /\ \A i \in 1..n : steps[i] \in Step
    OBVIOUS
  <2>2. \A s \in Step : s.to \in Objects /\ s.from \in Objects
    BY DEF Step
  <2> QED BY <2>1, <2>2
<1>2. start \in Joined
  BY DEF Joined
<1>3. ASSUME NEW i \in 1..n, NEW found \in Joined PROVE Emit(found, steps[i]) \in Joined
  BY <1>1 DEF Joined
<1>4. n \in Nat /\ StarJoins = (CHOOSE w : w = [i \in 0..n |->
                      IF i = 0 THEN start ELSE Emit(w[i - 1], steps[i])])[n]
  BY <1>1 DEF StarJoins
<1> HIDE DEF Emit, start, n
<1>5. g \in Advances(n, Joined) /\ \A i \in 1..n, found \in Joined : g[<<i, found>>] = Emit(found, steps[i])
  BY <1>3 DEF Advances
<1> HIDE DEF g
<1>6. PICK f \in Computed(n, Joined, start, g) : TRUE
  BY <1>2, <1>4, <1>5, Recursion
<1>7. /\ f \in [0..n -> Joined] /\ f[0] = start
      /\ \A i \in 1..n : f[i] = g[<<i, f[i - 1]>>]
  BY <1>6 DEF Computed
<1>8. 0 \in 0..n /\ \A i \in 0..n : i # 0 => i \in 1..n /\ i - 1 \in 0..n
  BY <1>4
<1>9. \A i \in 0..n : f[i] = IF i = 0 THEN start ELSE Emit(f[i - 1], steps[i])
  <2> TAKE i \in 0..n
  <2>1. f[i - 1] \in Joined \/ i = 0
    BY <1>7, <1>8
  <2> QED BY <2>1, <1>5, <1>7, <1>8
<1>10. f = [i \in 0..n |-> IF i = 0 THEN start ELSE Emit(f[i - 1], steps[i])]
  <2>1. f = [i \in 0..n |-> f[i]]
    BY <1>7
  <2> QED BY <2>1, <1>9
<1> DEFINE w == CHOOSE w : w = [i \in 0..n |-> IF i = 0 THEN start ELSE Emit(w[i - 1], steps[i])]
<1>11. w = [i \in 0..n |-> IF i = 0 THEN start ELSE Emit(w[i - 1], steps[i])]
  BY <1>10
<1>12. StarJoins = w[n]
  BY <1>4
<1> HIDE DEF w
<1>13. w[0] = start /\ \A i \in 1..n : w[i] = Emit(w[i - 1], steps[i])
  <2>1. \A i \in 1..n : i \in 0..n /\ i # 0
    OBVIOUS
  <2> QED BY <1>8, <1>11, <2>1
<1> DEFINE P == {i \in 0..n : w[i] \in Joined}
<1>14. \A i \in 0..n : i \in P
  <2>1. 0 \in P
    BY <1>2, <1>8, <1>13
  <2>2. ASSUME NEW i \in 1..n, i - 1 \in P PROVE i \in P
    <3>1. w[i - 1] \in Joined /\ i \in 0..n
      BY <2>2
    <3>2. Emit(w[i - 1], steps[i]) \in Joined
      BY <3>1, <1>3
    <3> QED BY <3>1, <3>2, <1>13
  <2> HIDE DEF P
  <2> QED BY <2>1, <2>2, <1>4, UpTo
<1>15. w \in [0..n -> Joined]
  BY <1>11, <1>14
<1>16. w \in StarFrom
  BY <1>13, <1>15 DEF StarFrom, Emit, start, n
<1> QED BY <1>12, <1>16 DEF n

\* What LegJoins computes, step by step.
LegFrom(leg) ==
    {f \in [0..Len(leg.path) -> Joined] :
        /\ f[0] = [joined |-> {leg.lead}, emitted |-> {}]
        /\ \A i \in 1..Len(leg.path) :
              f[i] = IF leg.path[i].to \in f[i - 1].joined THEN f[i - 1]
                     ELSE [joined |-> f[i - 1].joined \cup {leg.path[i].to},
                           emitted |-> f[i - 1].emitted \cup {leg.path[i]}]}

\* LegJoins computes it.
LEMMA LegJoinsIs ==
    ASSUME NEW leg, leg.path \in Seq(Step), leg.lead \in Objects
    PROVE  \E f \in LegFrom(leg) : LegJoins(leg) = f[Len(leg.path)]
<1> DEFINE n == Len(leg.path)
           start == [joined |-> {leg.lead}, emitted |-> {}]
           Emit(found, s) == IF s.to \in found.joined THEN found
                             ELSE [joined |-> found.joined \cup {s.to},
                                   emitted |-> found.emitted \cup {s}]
           g == [z \in (1..n) \X Joined |-> Emit(z[2], leg.path[z[1]])]
<1>1. n \in Nat /\ \A i \in 1..n : leg.path[i] \in Step /\ leg.path[i].to \in Objects
  <2>1. n \in Nat /\ \A i \in 1..n : leg.path[i] \in Step
    OBVIOUS
  <2>2. \A s \in Step : s.to \in Objects
    BY DEF Step
  <2> QED BY <2>1, <2>2
<1>2. start \in Joined
  BY DEF Joined
<1>3. ASSUME NEW i \in 1..n, NEW found \in Joined PROVE Emit(found, leg.path[i]) \in Joined
  BY <1>1 DEF Joined
<1>4. n \in Nat /\ LegJoins(leg) = (CHOOSE w : w = [i \in 0..n |->
                      IF i = 0 THEN start ELSE Emit(w[i - 1], leg.path[i])])[n]
  BY <1>1 DEF LegJoins
<1> HIDE DEF Emit, start, n
<1>5. g \in Advances(n, Joined) /\ \A i \in 1..n, found \in Joined : g[<<i, found>>] = Emit(found, leg.path[i])
  BY <1>3 DEF Advances
<1> HIDE DEF g
<1>6. PICK f \in Computed(n, Joined, start, g) : TRUE
  BY <1>2, <1>4, <1>5, Recursion
<1>7. /\ f \in [0..n -> Joined] /\ f[0] = start
      /\ \A i \in 1..n : f[i] = g[<<i, f[i - 1]>>]
  BY <1>6 DEF Computed
<1>8. 0 \in 0..n /\ \A i \in 0..n : i # 0 => i \in 1..n /\ i - 1 \in 0..n
  BY <1>4
<1>9. \A i \in 0..n : f[i] = IF i = 0 THEN start ELSE Emit(f[i - 1], leg.path[i])
  <2> TAKE i \in 0..n
  <2>1. f[i - 1] \in Joined \/ i = 0
    BY <1>7, <1>8
  <2> QED BY <2>1, <1>5, <1>7, <1>8
<1>10. f = [i \in 0..n |-> IF i = 0 THEN start ELSE Emit(f[i - 1], leg.path[i])]
  <2>1. f = [i \in 0..n |-> f[i]]
    BY <1>7
  <2> QED BY <2>1, <1>9
<1> DEFINE w == CHOOSE w : w = [i \in 0..n |-> IF i = 0 THEN start ELSE Emit(w[i - 1], leg.path[i])]
<1>11. w = [i \in 0..n |-> IF i = 0 THEN start ELSE Emit(w[i - 1], leg.path[i])]
  BY <1>10
<1>12. LegJoins(leg) = w[n]
  BY <1>4
<1> HIDE DEF w
<1>13. w[0] = start /\ \A i \in 1..n : w[i] = Emit(w[i - 1], leg.path[i])
  <2>1. \A i \in 1..n : i \in 0..n /\ i # 0
    OBVIOUS
  <2> QED BY <1>8, <1>11, <2>1
<1> DEFINE P == {i \in 0..n : w[i] \in Joined}
<1>14. \A i \in 0..n : i \in P
  <2>1. 0 \in P
    BY <1>2, <1>8, <1>13
  <2>2. ASSUME NEW i \in 1..n, i - 1 \in P PROVE i \in P
    <3>1. w[i - 1] \in Joined /\ i \in 0..n
      BY <2>2
    <3>2. Emit(w[i - 1], leg.path[i]) \in Joined
      BY <3>1, <1>3
    <3> QED BY <3>1, <3>2, <1>13
  <2> HIDE DEF P
  <2> QED BY <2>1, <2>2, <1>4, UpTo
<1>15. w \in [0..n -> Joined]
  BY <1>11, <1>14
<1>16. w \in LegFrom(leg)
  BY <1>13, <1>15 DEF LegFrom, Emit, start, n
<1> QED BY <1>12, <1>16 DEF n

\* A star joins its base and the declared target of each of its steps.
LEMMA StarReaches ==
    ASSUME steps \in Seq(Step), base \in Objects
    PROVE  /\ {base} \cup {s.to : s \in ToSet(steps)} \subseteq StarJoins.joined
           /\ StarJoins.emitted \subseteq ToSet(steps)
<1> DEFINE n == Len(steps)
<1>1. PICK f \in StarFrom : StarJoins = f[n]
  BY StarJoinsIs
<1>2. /\ f \in [0..n -> Joined]
      /\ f[0] = [joined |-> {base}, emitted |-> {}]
      /\ \A i \in 1..n :
            f[i] = IF {steps[i].from, steps[i].to} \subseteq f[i - 1].joined THEN f[i - 1]
                   ELSE [joined |-> f[i - 1].joined \cup
                            {IF steps[i].to \notin f[i - 1].joined THEN steps[i].to ELSE steps[i].from},
                         emitted |-> f[i - 1].emitted \cup {steps[i]}]
  BY DEF StarFrom
<1>3. /\ n \in Nat /\ 0 \in 0..n /\ n \in 0..n
      /\ ToSet(steps) = {steps[i] : i \in 1..n}
  BY ToSetIs
<1> HIDE DEF n
<1> DEFINE P == {i \in 0..n : /\ base \in f[i].joined
                              /\ \A k \in 1..i : steps[k].to \in f[i].joined
                              /\ f[i].emitted \subseteq ToSet(steps)}
<1>4. 0 \in P
  BY <1>2, <1>3
<1>5. ASSUME NEW i \in 1..n, i - 1 \in P PROVE i \in P
  <2>1. /\ base \in f[i - 1].joined
        /\ \A k \in 1..(i - 1) : steps[k].to \in f[i - 1].joined
        /\ f[i - 1].emitted \subseteq ToSet(steps)
    BY <1>5
  <2>2. /\ f[i - 1].joined \subseteq f[i].joined /\ steps[i].to \in f[i].joined
        /\ f[i].emitted \subseteq f[i - 1].emitted \cup {steps[i]}
    <3>1. CASE {steps[i].from, steps[i].to} \subseteq f[i - 1].joined
      <4>1. f[i] = f[i - 1]
        BY <3>1, <1>2
      <4> QED BY <3>1, <4>1
    <3>2. CASE ~({steps[i].from, steps[i].to} \subseteq f[i - 1].joined)
      <4> DEFINE j == f[i - 1].joined \cup
                         {IF steps[i].to \notin f[i - 1].joined THEN steps[i].to ELSE steps[i].from}
                 e == f[i - 1].emitted \cup {steps[i]}
      <4>1. f[i] = [joined |-> j, emitted |-> e]
        BY <3>2, <1>2
      <4>2. f[i].joined = j /\ f[i].emitted = e
        <5> HIDE DEF j, e
        <5> QED BY <4>1
      <4> QED BY <4>2
    <3> QED BY <3>1, <3>2
  <2>3. \A k \in 1..i : k = i \/ k \in 1..(i - 1)
    OBVIOUS
  <2>4. i \in 0..n /\ steps[i] \in ToSet(steps)
    BY <1>3
  <2> QED BY <2>1, <2>2, <2>3, <2>4
<1>6. n \in P
  <2> HIDE DEF P
  <2> QED BY <1>3, <1>4, <1>5, UpTo
<1> QED BY <1>1, <1>3, <1>6

\* A leg joins its lead and the declared target of each of its steps.
LEMMA LegReaches ==
    ASSUME NEW leg, leg.path \in Seq(Step), leg.lead \in Objects
    PROVE  /\ {leg.lead} \cup {s.to : s \in ToSet(leg.path)} \subseteq LegJoins(leg).joined
           /\ LegJoins(leg).emitted \subseteq ToSet(leg.path)
<1> DEFINE n == Len(leg.path)
           st == leg.path
<1>1. PICK f \in LegFrom(leg) : LegJoins(leg) = f[n]
  BY LegJoinsIs
<1>2. /\ f \in [0..n -> Joined]
      /\ f[0] = [joined |-> {leg.lead}, emitted |-> {}]
      /\ \A i \in 1..n :
            f[i] = IF st[i].to \in f[i - 1].joined THEN f[i - 1]
                   ELSE [joined |-> f[i - 1].joined \cup {st[i].to},
                         emitted |-> f[i - 1].emitted \cup {st[i]}]
  BY DEF LegFrom
<1>3. /\ n \in Nat /\ 0 \in 0..n /\ n \in 0..n
      /\ ToSet(st) = {st[i] : i \in 1..n}
  BY ToSetIs
<1> HIDE DEF n, st
<1> DEFINE P == {i \in 0..n : /\ leg.lead \in f[i].joined
                              /\ \A k \in 1..i : st[k].to \in f[i].joined
                              /\ f[i].emitted \subseteq ToSet(st)}
<1>4. 0 \in P
  BY <1>2, <1>3
<1>5. ASSUME NEW i \in 1..n, i - 1 \in P PROVE i \in P
  <2>1. /\ leg.lead \in f[i - 1].joined
        /\ \A k \in 1..(i - 1) : st[k].to \in f[i - 1].joined
        /\ f[i - 1].emitted \subseteq ToSet(st)
    BY <1>5
  <2>2. /\ f[i - 1].joined \subseteq f[i].joined /\ st[i].to \in f[i].joined
        /\ f[i].emitted \subseteq f[i - 1].emitted \cup {st[i]}
    <3>1. CASE st[i].to \in f[i - 1].joined
      <4>1. f[i] = f[i - 1]
        BY <3>1, <1>2
      <4> QED BY <3>1, <4>1
    <3>2. CASE st[i].to \notin f[i - 1].joined
      <4> DEFINE j == f[i - 1].joined \cup {st[i].to}
                 e == f[i - 1].emitted \cup {st[i]}
      <4>1. f[i] = [joined |-> j, emitted |-> e]
        BY <3>2, <1>2
      <4>2. f[i].joined = j /\ f[i].emitted = e
        <5> HIDE DEF j, e
        <5> QED BY <4>1
      <4> QED BY <4>2
    <3> QED BY <3>1, <3>2
  <2>3. \A k \in 1..i : k = i \/ k \in 1..(i - 1)
    OBVIOUS
  <2>4. i \in 0..n /\ st[i] \in ToSet(st)
    BY <1>3
  <2> QED BY <2>1, <2>2, <2>3, <2>4
<1>6. n \in P
  <2> HIDE DEF P
  <2> QED BY <1>3, <1>4, <1>5, UpTo
<1> QED BY <1>1, <1>3, <1>6 DEF st

\* Joins one by one, each from an object that is joined to a new one.
Emissions(root, st) ==
    {f \in [0..Len(st) -> Joined] :
        /\ f[0] = [joined |-> {root}, emitted |-> {}]
        /\ \A i \in 1..Len(st) :
              \/ {Origin(st[i]), Brought(st[i])} \subseteq f[i - 1].joined /\ f[i] = f[i - 1]
              \/ /\ Origin(st[i]) \in f[i - 1].joined
                 /\ Brought(st[i]) \notin f[i - 1].joined
                 /\ f[i].joined = f[i - 1].joined \cup {Brought(st[i])}
                 /\ f[i].emitted = f[i - 1].emitted \cup {st[i]}}

\* A plan that grows from the base is emitted as a tree.
LEMMA StarEmits ==
    ASSUME JoinsOK, base \in Objects, Grown({base}, steps)
    PROVE  \E f \in Emissions(base, steps) : StarJoins = f[Len(steps)]
<1> DEFINE n == Len(steps)
<1>1. steps \in Seq(Step)
  BY DEF Grown
<1>2. PICK f \in StarFrom : StarJoins = f[n]
  BY <1>1, StarJoinsIs
<1>3. /\ f \in [0..n -> Joined]
      /\ f[0] = [joined |-> {base}, emitted |-> {}]
      /\ \A i \in 1..n :
            f[i] = IF {steps[i].from, steps[i].to} \subseteq f[i - 1].joined THEN f[i - 1]
                   ELSE [joined |-> f[i - 1].joined \cup
                            {IF steps[i].to \notin f[i - 1].joined THEN steps[i].to ELSE steps[i].from},
                         emitted |-> f[i - 1].emitted \cup {steps[i]}]
  BY DEF StarFrom
<1>4. n \in Nat /\ 0 \in 0..n /\ n \in 0..n
  BY <1>1
<1> DEFINE Grows(i) ==
              \/ {Origin(steps[i]), Brought(steps[i])} \subseteq f[i - 1].joined /\ f[i] = f[i - 1]
              \/ /\ Origin(steps[i]) \in f[i - 1].joined
                 /\ Brought(steps[i]) \notin f[i - 1].joined
                 /\ f[i].joined = f[i - 1].joined \cup {Brought(steps[i])}
                 /\ f[i].emitted = f[i - 1].emitted \cup {steps[i]}
           P == {i \in 0..n : {base} \cup Touched(steps, i) \subseteq f[i].joined /\ (i # 0 => Grows(i))}
<1>5. 0 \in P
  BY <1>3, <1>4 DEF Touched, Sides
<1>6. ASSUME NEW i \in 1..n, i - 1 \in P PROVE i \in P
  <2>1. /\ Real(steps[i])
        /\ Origin(steps[i]) \in {base} \cup Touched(steps, i - 1)
        /\ Touched(steps, i) = Touched(steps, i - 1) \cup {Origin(steps[i]), Brought(steps[i])}
    BY TouchedGrows
  <2>2. /\ {base} \cup Touched(steps, i - 1) \subseteq f[i - 1].joined
        /\ Origin(steps[i]) \in f[i - 1].joined
    BY <1>6, <2>1
  <2>3. i \in 0..n
    OBVIOUS
  <2>4. {steps[i].from, steps[i].to} = {Origin(steps[i]), Brought(steps[i])}
    BY <2>1, RealStep
  <2>5. CASE Brought(steps[i]) \in f[i - 1].joined
    <3>1. f[i] = f[i - 1]
      BY <2>2, <2>4, <2>5, <1>3
    <3> QED BY <3>1, <2>1, <2>2, <2>3, <2>5
  <2>6. CASE Brought(steps[i]) \notin f[i - 1].joined
    <3> DEFINE e == f[i - 1].emitted \cup {steps[i]}
               x == IF steps[i].to \notin f[i - 1].joined THEN steps[i].to ELSE steps[i].from
               j == f[i - 1].joined \cup {x}
    <3>1. f[i] = [joined |-> j, emitted |-> e]
      BY <2>4, <2>6, <1>3
    <3>2. x = Brought(steps[i])
      BY <2>2, <2>6 DEF Origin, Brought
    <3>3. f[i].joined = j /\ f[i].emitted = e
      <4> HIDE DEF j, e
      <4> QED BY <3>1
    <3>4. f[i].joined = f[i - 1].joined \cup {Brought(steps[i])}
      <4> HIDE DEF x
      <4> QED BY <3>2, <3>3
    <3> QED BY <3>3, <3>4, <2>1, <2>2, <2>3, <2>6
  <2> QED BY <2>5, <2>6
<1>7. \A i \in 0..n : i \in P
  <2> HIDE DEF P, n
  <2> QED BY <1>4, <1>5, <1>6, UpTo
<1>8. \A i \in 1..n : Grows(i)
  <2>1. \A i \in 1..n : i \in 0..n /\ i # 0
    OBVIOUS
  <2> HIDE DEF Grows
  <2> QED BY <2>1, <1>7
<1>9. f \in Emissions(base, steps)
  BY <1>3, <1>8 DEF Emissions
<1> QED BY <1>2, <1>9

\* A leg that walks no join backwards is emitted as a tree.
LEMMA LegEmits ==
    ASSUME JoinsOK, NEW leg, leg.lead \in Objects, Grown({leg.lead}, leg.path),
           \A s \in ToSet(leg.path) : ~s.reversed
    PROVE  \E f \in Emissions(leg.lead, leg.path) : LegJoins(leg) = f[Len(leg.path)]
<1> DEFINE n == Len(leg.path)
           st == leg.path
           root == leg.lead
<1>1. st \in Seq(Step)
  BY DEF Grown
<1>2. PICK f \in LegFrom(leg) : LegJoins(leg) = f[n]
  BY <1>1, LegJoinsIs
<1>3. /\ f \in [0..n -> Joined]
      /\ f[0] = [joined |-> {root}, emitted |-> {}]
      /\ \A i \in 1..n :
            f[i] = IF st[i].to \in f[i - 1].joined THEN f[i - 1]
                   ELSE [joined |-> f[i - 1].joined \cup {st[i].to},
                         emitted |-> f[i - 1].emitted \cup {st[i]}]
  BY DEF LegFrom
<1>4. n = Len(st) /\ n \in Nat /\ 0 \in 0..n /\ n \in 0..n
  BY <1>1
<1>5. Grown({root}, st) /\ \A s \in ToSet(st) : ~s.reversed
  OBVIOUS
<1> HIDE DEF n, st, root
<1> DEFINE Grows(i) ==
              \/ {Origin(st[i]), Brought(st[i])} \subseteq f[i - 1].joined /\ f[i] = f[i - 1]
              \/ /\ Origin(st[i]) \in f[i - 1].joined
                 /\ Brought(st[i]) \notin f[i - 1].joined
                 /\ f[i].joined = f[i - 1].joined \cup {Brought(st[i])}
                 /\ f[i].emitted = f[i - 1].emitted \cup {st[i]}
           P == {i \in 0..n : {root} \cup Touched(st, i) \subseteq f[i].joined /\ (i # 0 => Grows(i))}
<1>6. 0 \in P
  BY <1>3, <1>4 DEF Touched, Sides
<1>7. ASSUME NEW i \in 1..n, i - 1 \in P PROVE i \in P
  <2>1. /\ Real(st[i]) /\ st[i] \in ToSet(st)
        /\ Origin(st[i]) \in {root} \cup Touched(st, i - 1)
        /\ Touched(st, i) = Touched(st, i - 1) \cup {Origin(st[i]), Brought(st[i])}
    BY <1>4, <1>5, TouchedGrows
  <2>2. /\ {root} \cup Touched(st, i - 1) \subseteq f[i - 1].joined
        /\ Origin(st[i]) \in f[i - 1].joined
    BY <1>7, <2>1
  <2>3. i \in 0..n
    OBVIOUS
  <2>4. Brought(st[i]) = st[i].to
    BY <1>5, <2>1 DEF Brought
  <2>5. CASE Brought(st[i]) \in f[i - 1].joined
    <3>1. f[i] = f[i - 1]
      BY <2>4, <2>5, <1>3
    <3> QED BY <3>1, <2>1, <2>2, <2>3, <2>5
  <2>6. CASE Brought(st[i]) \notin f[i - 1].joined
    <3> DEFINE e == f[i - 1].emitted \cup {st[i]}
               j == f[i - 1].joined \cup {st[i].to}
    <3>1. f[i] = [joined |-> j, emitted |-> e]
      BY <2>4, <2>6, <1>3
    <3>2. f[i].joined = j /\ f[i].emitted = e
      <4> HIDE DEF j, e
      <4> QED BY <3>1
    <3>3. f[i].joined = f[i - 1].joined \cup {Brought(st[i])}
      BY <2>4, <3>2
    <3> QED BY <3>2, <3>3, <2>1, <2>2, <2>3, <2>6
  <2> QED BY <2>5, <2>6
<1>8. \A i \in 0..n : i \in P
  <2> HIDE DEF P
  <2> QED BY <1>4, <1>6, <1>7, UpTo
<1>9. \A i \in 1..n : Grows(i)
  <2>1. \A i \in 1..n : i \in 0..n /\ i # 0
    OBVIOUS
  <2> HIDE DEF Grows
  <2> QED BY <2>1, <1>8
<1>10. f \in Emissions(root, st)
  BY <1>3, <1>4, <1>9 DEF Emissions
<1> QED BY <1>2, <1>10 DEF n, root, st

\* The joins of the rest of a plan, taken both ways.
Apart(s, emitted) ==
    LET rest == {<<t.from, t.to>> : t \in emitted \ {s}}
    IN  rest \cup {<<e[2], e[1]>> : e \in rest}

\* What is joined beyond the one side of a join is marked, as long as no join
\* is walked backwards from what is marked.
LEMMA BeyondIsReplicated ==
    ASSUME JoinsOK, NEW root \in Objects, NEW st, Grown({root}, st), NEW F \in Emissions(root, st),
           \A t \in ToSet(st) : t.reversed => Origin(t) \notin Replicated(st),
           NEW s \in F[Len(st)].emitted, ~s.reversed, s.card # "one-to-one",
           NEW m \in Objects, s.to \in Family(Apart(s, F[Len(st)].emitted), m)
    PROVE  m \in Replicated(st)
<1> DEFINE n == Len(st)
<1>1. st \in Seq(Step)
  BY DEF Grown
<1>2. /\ F \in [0..n -> Joined]
      /\ F[0] = [joined |-> {root}, emitted |-> {}]
  BY DEF Emissions
<1> DEFINE Stays(i) == {Origin(st[i]), Brought(st[i])} \subseteq F[i - 1].joined /\ F[i] = F[i - 1]
           Emits(i) == /\ Origin(st[i]) \in F[i - 1].joined
                       /\ Brought(st[i]) \notin F[i - 1].joined
                       /\ F[i].joined = F[i - 1].joined \cup {Brought(st[i])}
                       /\ F[i].emitted = F[i - 1].emitted \cup {st[i]}
<1>3. \A i \in 1..n : Stays(i) \/ Emits(i)
  BY DEF Emissions
<1> DEFINE G == Marked(st)
<1>4. /\ G \in [0..n -> SUBSET Objects]
      /\ \A i \in 1..n :
            G[i] = IF ~st[i].reversed /\ (st[i].card # "one-to-one" \/ st[i].from \in G[i - 1])
                   THEN G[i - 1] \cup {st[i].to} ELSE G[i - 1]
      /\ \A i \in 0..n : G[i] \subseteq Replicated(st)
  <2>1. G \in Marks(st)
    BY <1>1, MarkedIs
  <2>2. \A i \in 0..n : G[i] \subseteq G[n]
    <3> HIDE DEF G
    <3> QED BY <1>1, <2>1, MarksGrow
  <2>3. G[n] = Replicated(st)
    BY DEF Replicated
  <2> HIDE DEF G
  <2> QED BY <2>1, <2>2, <2>3 DEF Marks
<1>5. /\ n \in Nat /\ 0 \in 0..n /\ n \in 0..n
      /\ \A i \in 1..n : i \in 0..n /\ i - 1 \in 0..n /\ st[i] \in ToSet(st) /\ st[i] \in Step
  BY <1>1, ToSetIs
<1>6. \A t \in ToSet(st) :
         /\ Real(t) /\ t.reversed \in BOOLEAN
         /\ {t.from, t.to} = {Origin(t), Brought(t)} /\ t.from # t.to
         /\ t.from \in Objects /\ t.to \in Objects
  BY RealStep DEF Grown
<1>7. Brought(s) = s.to /\ Origin(s) = s.from
  BY DEF Brought, Origin
<1>8. s \in F[n].emitted
  OBVIOUS
<1>9. \A t \in ToSet(st) : t.reversed => Origin(t) \notin Replicated(st)
  OBVIOUS
<1> HIDE DEF n, Stays, Emits, G
<1> DEFINE P == {i \in 0..n : /\ \A t \in F[i].emitted :
                                    /\ t \in ToSet(st)
                                    /\ {Origin(t), Brought(t)} \subseteq F[i].joined
                              /\ s \in F[i].emitted => \E k \in 1..i : st[k] = s /\ Emits(k)}
<1>10. \A i \in 0..n : i \in P
  <2>1. 0 \in P
    BY <1>2, <1>5
  <2>2. ASSUME NEW i \in 1..n, i - 1 \in P PROVE i \in P
    <3>1. /\ \A t \in F[i - 1].emitted :
                t \in ToSet(st) /\ {Origin(t), Brought(t)} \subseteq F[i - 1].joined
          /\ s \in F[i - 1].emitted => \E k \in 1..(i - 1) : st[k] = s /\ Emits(k)
      BY <2>2
    <3>2. i \in 0..n /\ i \in 1..i /\ st[i] \in ToSet(st) /\ \A k \in 1..(i - 1) : k \in 1..i
      BY <1>5
    <3>3. CASE Stays(i)
      <4>1. F[i] = F[i - 1]
        BY <3>3 DEF Stays
      <4> HIDE DEF Emits
      <4> QED BY <3>1, <3>2, <4>1
    <3>4. CASE Emits(i)
      <4>1. /\ Origin(st[i]) \in F[i - 1].joined
            /\ F[i].joined = F[i - 1].joined \cup {Brought(st[i])}
            /\ F[i].emitted = F[i - 1].emitted \cup {st[i]}
        BY <3>4 DEF Emits
      <4>2. \A t \in F[i].emitted :
               t \in ToSet(st) /\ {Origin(t), Brought(t)} \subseteq F[i].joined
        BY <3>1, <3>2, <4>1
      <4>3. s \in F[i].emitted => \E k \in 1..i : st[k] = s /\ Emits(k)
        BY <3>1, <3>2, <3>4, <4>1
      <4> QED BY <3>2, <4>2, <4>3
    <3> QED BY <3>3, <3>4, <1>3
  <2> HIDE DEF P
  <2> QED BY <2>1, <2>2, <1>5, UpTo
<1>11. PICK k \in 1..n : st[k] = s /\ Emits(k)
  <2>1. n \in P
    BY <1>5, <1>10
  <2> QED BY <2>1, <1>8
<1>12. \A i \in 0..n : \A t \in F[i].emitted :
          t \in ToSet(st) /\ {Origin(t), Brought(t)} \subseteq F[i].joined
  BY <1>10
<1> HIDE DEF P
<1> DEFINE Cut(i, X) == /\ X \subseteq F[i].joined /\ X \subseteq G[i] /\ s.to \in X
                        /\ \A t \in F[i].emitted \ {s} : t.from \in X <=> t.to \in X
           Q == {i \in 0..n : i >= k => \E X \in SUBSET Objects : Cut(i, X)}
<1>13. 0 \in Q
  BY <1>5
<1>14. ASSUME NEW i \in 1..n, i - 1 \in Q PROVE i \in Q
  <2>1. i \in 0..n /\ i - 1 \in 0..n /\ st[i] \in ToSet(st) /\ k \in 1..n
    BY <1>5
  <2>2. CASE i < k
    BY <2>1, <2>2
  <2>3. CASE i = k
    <3> DEFINE X == {s.to}
    <3>1. /\ F[i].joined = F[i - 1].joined \cup {Brought(s)}
          /\ F[i].emitted = F[i - 1].emitted \cup {s}
          /\ Brought(s) \notin F[i - 1].joined
      BY <2>3, <1>11 DEF Emits
    <3>2. X \subseteq G[i]
      <4>1. st[i] = s /\ ~st[i].reversed /\ st[i].card # "one-to-one"
        BY <2>3, <1>11
      <4> QED BY <4>1, <1>4
    <3>3. X \subseteq F[i].joined
      BY <3>1, <1>7
    <3>4. ASSUME NEW t \in F[i].emitted \ {s} PROVE t.from \in X <=> t.to \in X
      <4>1. t \in ToSet(st) /\ {Origin(t), Brought(t)} \subseteq F[i - 1].joined
        BY <2>1, <3>1, <1>12
      <4>2. {t.from, t.to} = {Origin(t), Brought(t)}
        BY <4>1, <1>6
      <4> QED BY <4>1, <4>2, <3>1, <1>7
    <3>5. s.to \in Objects
      BY <2>1, <2>3, <1>6, <1>11
    <3>6. Cut(i, X) /\ X \in SUBSET Objects
      BY <3>2, <3>3, <3>4, <3>5
    <3> HIDE DEF X, Cut
    <3> QED BY <2>1, <3>6
  <2>4. CASE i > k
    <3>1. PICK X \in SUBSET Objects : Cut(i - 1, X)
      BY <2>1, <2>4, <1>14
    <3>2. G[i - 1] \subseteq G[i] /\ G[i - 1] \subseteq Replicated(st)
      BY <2>1, <1>4
    <3>3. CASE Stays(i)
      <4>1. F[i] = F[i - 1]
        BY <3>3 DEF Stays
      <4>2. Cut(i, X)
        BY <3>1, <3>2, <4>1
      <4> HIDE DEF Cut
      <4> QED BY <2>1, <4>2
    <3>4. CASE Emits(i)
      <4>1. /\ Origin(st[i]) \in F[i - 1].joined
            /\ Brought(st[i]) \notin F[i - 1].joined
            /\ F[i].joined = F[i - 1].joined \cup {Brought(st[i])}
            /\ F[i].emitted = F[i - 1].emitted \cup {st[i]}
        BY <3>4 DEF Emits
      <4> DEFINE t1 == st[i]
      <4>2. ASSUME NEW t \in F[i - 1].emitted
            PROVE  t.from # Brought(t1) /\ t.to # Brought(t1)
        <5>1. t \in ToSet(st) /\ {Origin(t), Brought(t)} \subseteq F[i - 1].joined
          BY <2>1, <1>12
        <5>2. {t.from, t.to} = {Origin(t), Brought(t)}
          BY <5>1, <1>6
        <5> QED BY <4>1, <5>1, <5>2
      <4>3. {t1.from, t1.to} = {Origin(t1), Brought(t1)} /\ t1.from \in Objects /\ t1.to \in Objects
        BY <2>1, <1>6
      <4>4. CASE Origin(t1) \notin X
        <5>1. Brought(t1) \notin X
          BY <3>1, <4>1
        <5>2. t1.from \notin X /\ t1.to \notin X
          <6>1. \A x \in {t1.from, t1.to} : x \notin X
            BY <5>1, <4>3, <4>4
          <6> QED BY <6>1
        <5>3. Cut(i, X)
          BY <3>1, <3>2, <4>1, <5>2
        <5> HIDE DEF Cut
        <5> QED BY <2>1, <5>3
      <4>5. CASE Origin(t1) \in X
        <5> DEFINE Y == X \cup {Brought(t1)}
        <5>1. ~t1.reversed
          BY <2>1, <3>1, <3>2, <4>5, <1>9
        <5>2. t1.from \in G[i - 1] /\ t1.to = Brought(t1) /\ t1.from = Origin(t1)
          BY <3>1, <4>5, <5>1 DEF Origin, Brought
        <5>3. G[i] = G[i - 1] \cup {t1.to}
          BY <5>1, <5>2, <1>4
        <5>4. Y \subseteq F[i].joined /\ Y \subseteq G[i] /\ s.to \in Y
          BY <3>1, <4>1, <5>2, <5>3
        <5>5. ASSUME NEW t \in F[i].emitted \ {s} PROVE t.from \in Y <=> t.to \in Y
          <6>1. CASE t = t1
            BY <6>1, <4>3, <4>5
          <6>2. CASE t # t1
            <7>1. t \in F[i - 1].emitted \ {s}
              BY <6>2, <4>1
            <7>2. t.from \in X <=> t.to \in X
              BY <7>1, <3>1
            <7> QED BY <7>1, <7>2, <4>2
          <6> QED BY <6>1, <6>2
        <5>6. Cut(i, Y) /\ Y \in SUBSET Objects
          BY <4>3, <5>2, <5>4, <5>5
        <5> HIDE DEF Cut, Y
        <5> QED BY <2>1, <5>6
      <4> QED BY <4>4, <4>5
    <3> HIDE DEF Q
    <3> QED BY <3>3, <3>4, <1>3
  <2> HIDE DEF Q
  <2> QED BY <2>1, <2>2, <2>3, <2>4
<1>15. PICK X \in SUBSET Objects : Cut(n, X)
  <2>1. n \in Q
    <3> HIDE DEF Q
    <3> QED BY <1>5, <1>13, <1>14, UpTo
  <2>2. n >= k
    BY <1>5
  <2> QED BY <2>1, <2>2
<1> DEFINE E == Apart(s, F[n].emitted)
           C == Objects \ X
<1>16. E \subseteq Objects \X Objects
  <2>1. \A t \in F[n].emitted : t.from \in Objects /\ t.to \in Objects
    BY <1>5, <1>6, <1>12
  <2> QED BY <2>1 DEF Apart
<1>17. Closed(E, C)
  <2> SUFFICES ASSUME NEW e \in E, e[1] \in C PROVE e[2] \in C
    BY DEF Closed
  <2>1. PICK t \in F[n].emitted \ {s} : e = <<t.from, t.to>> \/ e = <<t.to, t.from>>
    BY DEF Apart
  <2>2. t.from \in Objects /\ t.to \in Objects /\ (t.from \in X <=> t.to \in X)
    BY <1>5, <1>6, <1>12, <1>15
  <2> QED BY <2>1, <2>2
<1>18. m \in X
  <2> SUFFICES ASSUME m \in C PROVE FALSE
    OBVIOUS
  <2>1. s.to \in Family(E, m)
    BY DEF n
  <2> HIDE DEF E, C
  <2>2. Family(E, m) \subseteq C
    BY <1>16, <1>17, FamilyIs
  <2> QED BY <2>1, <2>2, <1>15 DEF C
<1> QED BY <1>5, <1>15, <1>18, <1>4

-----------------------------------------------------------------------------
(* JoinPlan: the inductive invariant *)

\* The model is one the validator accepted.
ModelKept == joins \in Schemas /\ Acyclic

\* A query is compiled from Ask to ReturnPlan, and nothing of a plan is left
\* from the one before.
QueryKept ==
    /\ phase = "idle" => query = NoQuery
    /\ phase # "idle" => query \in QueryObjects
    /\ phase # "planned" => deduped = {} /\ warned = {} /\ legs = <<>>

\* What is required, and where a union is based.
BaseKept ==
    /\ phase \in {"idle", "asked"} => ~union
    /\ union => base \in query.measures
    /\ phase = "asked" => required = query.measures \cup query.dims
    /\ phase = "based" => required = query.measures \cup query.dims \cup {base}
    /\ phase \in {"joined", "resolved", "planned"} => query.measures \cup query.dims \subseteq required

\* The joins resolution planned, and what it takes for joined.
PathKept ==
    phase \in {"joined", "resolved", "planned"} =>
        /\ reached = {base} \cup {s.to : s \in ToSet(steps)}
        /\ ToSet(steps) \subseteq walked
        /\ \A o \in Sides(ToSet(steps)) : o \in reached \/ BehindBackwardStep(o, reached)
        /\ Grown({base}, steps) \/ \E s \in walked : s.reversed /\ s \notin ToSet(steps)
        /\ ~union /\ refusals = {} => required \subseteq reached

\* The path before the filter's is walked as planned.
FirstPathKept ==
    phase = "joined" =>
        /\ Grown({base}, steps)
        /\ walked = ToSet(steps)
        /\ refusals \subseteq {"ambiguous", "unreachable"}
        /\ reached \subseteq Family(Directed, base) \/ \E s \in walked : s.reversed

\* The filter's object is reached: in a star from what is joined, in a union
\* by some leg.
FilterKept ==
    phase \in {"resolved", "planned"} =>
        /\ refusals = {}
        /\ ~union => \A o \in query.where : o \in reached \/ BehindBackwardStep(o, reached)
        /\ union => \/ \A o \in query.where : \E m \in query.measures : o \in Family(Directed, m)
                    \/ \E s \in walked : s.reversed

\* A query on one fact that some object joins to the rest of it.
OneFactCovered ==
    /\ Cardinality(query.measures) = 1
    /\ \E n \in Objects : query.measures \cup query.dims \cup query.where \subseteq Family(Directed, n)

\* One fact that some object joins to the rest of the query.
OneFactKept ==
    OneFactCovered =>
        /\ phase \in {"based", "joined", "resolved", "planned"} =>
              /\ ~union
              /\ query.measures \cup query.dims \cup query.where \subseteq Family(Directed, base)
        /\ phase = "joined" => "unreachable" \notin refusals \/ \E s \in ToSet(steps) : s.reversed
        /\ phase = "refused" =>
              "ambiguous" \in refusals \/ refusals = {"fanout"} \/ \E s \in ToSet(steps) : s.reversed

\* What a star deduplicates and warns about.
StarKept ==
    phase = "planned" /\ ~union =>
        /\ deduped = query.measures \cap Replicated(steps)
        /\ \A s \in ToSet(steps) : CausesFanout(s) /\ Origin(s) \in query.measures => Origin(s) \in warned

\* A leg grows from its lead and touches all it reads.
SoundLeg(leg, m) ==
    /\ leg.lead \in Objects
    /\ Grown({leg.lead}, leg.path)
    /\ leg.reads \subseteq {leg.lead} \cup Sides(ToSet(leg.path))
    /\ leg.deduped = (m \in Replicated(leg.path))

\* The legs of a union, and what they read together.
LegsKept ==
    phase = "planned" /\ union =>
        /\ \A m \in query.measures : SoundLeg(legs[m], m)
        /\ query.dims \subseteq UNION {legs[m].reads : m \in query.measures}
        /\ \/ query.where \subseteq UNION {legs[m].reads : m \in query.measures}
           \/ \E s \in walked : s.reversed

\* The invariant of a compilation.
PlanInv ==
    /\ PlanTypeOK
    /\ ModelKept
    /\ QueryKept
    /\ BaseKept
    /\ PathKept
    /\ FirstPathKept
    /\ FilterKept
    /\ OneFactKept
    /\ StarKept
    /\ LegsKept

\* The joins of a model, at most one between two objects and none from an
\* object to itself.
LEMMA ModelOK ==
    ASSUME ModelKept
    PROVE  JoinsOK /\ IsFiniteSet(joins)
<1>1. /\ joins \subseteq Join /\ IsFiniteSet(joins)
      /\ \A j, k \in joins : {j.from, j.to} = {k.from, k.to} => j = k
  BY JoinPlanAssumption DEF ModelKept
<1>2. Directed \subseteq Objects \X Objects
  BY <1>1 DEF Directed, Join
<1>3. ASSUME NEW j \in joins PROVE j.from # j.to
  <2> SUFFICES ASSUME j.from = j.to PROVE FALSE
    OBVIOUS
  <2> DEFINE o == j.from
             e == <<j.from, j.to>>
  <2>1. o \in Objects /\ e \in Directed /\ e[1] = o /\ e[2] = o
    BY <1>1 DEF Directed, Join
  <2>2. o \in Family(Directed, o)
    BY <1>2, <2>1, FamilyIs
  <2>3. o \in Family(Directed, e[2])
    BY <2>1, <2>2
  <2> QED BY <2>1, <2>3 DEF ModelKept, Acyclic
<1> QED BY <1>1, <1>3 DEF JoinsOK

\* A query names objects of the model.
LEMMA QueryIs ==
    ASSUME NEW q \in QueryObjects
    PROVE  /\ q.measures \subseteq Objects /\ q.measures # {}
           /\ q.dims \subseteq Objects /\ q.where \subseteq Objects
BY JoinPlanAssumption DEF Query

\* It holds before the first query.
LEMMA PlanInitInv == PlanInit => PlanInv
<1> SUFFICES ASSUME PlanInit PROVE PlanInv
  OBVIOUS
<1>1. 1 \in Objects
  BY NPos DEF Objects
<1>2. PlanTypeOK
  <2>1. <<>> \in Seq(Step)
    OBVIOUS
  <2> QED BY <1>1, <2>1 DEF PlanInit, PlanTypeOK
<1>3. ModelKept /\ QueryKept /\ BaseKept
  BY DEF PlanInit, ModelKept, QueryKept, BaseKept
<1>4. PathKept /\ FirstPathKept /\ FilterKept /\ StarKept /\ LegsKept
  BY DEF PlanInit, PathKept, FirstPathKept, FilterKept, StarKept, LegsKept
<1>5. OneFactKept
  BY DEF PlanInit, OneFactKept
<1> QED BY <1>2, <1>3, <1>4, <1>5 DEF PlanInv

\* Each step of a compilation keeps the invariant.
LEMMA AskKeeps ==
    ASSUME PlanInv, Ask
    PROVE  PlanInv'
<1>1. /\ phase = "idle" /\ phase' = "asked" /\ query' \in QueryObjects
      /\ required' = query'.measures \cup query'.dims
      /\ UNCHANGED <<joins, base, union, steps, reached, walked, refusals, deduped, warned, legs>>
  BY DEF Ask
<1>2. deduped = {} /\ warned = {} /\ legs = <<>> /\ ~union
  BY <1>1 DEF PlanInv, QueryKept, BaseKept
<1>3. query'.measures \subseteq Objects /\ query'.dims \subseteq Objects
  BY <1>1, QueryIs
<1>4. PlanTypeOK'
  BY <1>1, <1>2, <1>3 DEF PlanInv, PlanTypeOK
<1>5. ModelKept'
  BY <1>1 DEF PlanInv, ModelKept, Acyclic, Directed
<1>6. QueryKept' /\ BaseKept'
  BY <1>1, <1>2 DEF QueryKept, BaseKept
<1>7. PathKept' /\ FirstPathKept' /\ FilterKept' /\ StarKept' /\ LegsKept' /\ OneFactKept'
  BY <1>1 DEF PathKept, FirstPathKept, FilterKept, StarKept, LegsKept, OneFactKept
<1> QED BY <1>4, <1>5, <1>6, <1>7 DEF PlanInv

\* The base is a measure's object, or joins everything the query names.
LEMMA ReanchoredIs ==
    ASSUME JoinsOK, Wanted \subseteq Objects, NEW best \in query.measures
    PROVE  LET b == Reanchored(best)
           IN  /\ b \in Objects
               /\ b \in query.measures \/ Wanted \subseteq Family(Directed, b)
               /\ query.measures = {best} /\ (\E n \in Objects : Wanted \subseteq Family(Directed, n))
                     => Wanted \subseteq Family(Directed, b)
<1> DEFINE W == Wanted \cup {best}
           root == CommonRoot(W)
<1>1. best \in Wanted /\ W = Wanted /\ best \in Objects
  BY DEF Wanted
<1>2. /\ root \in Objects
      /\ \A n \in Objects : W \subseteq Family(Directed, n) => W \subseteq Family(Directed, root)
  BY <1>1, CommonRootIs
<1> DEFINE oneFact == query.measures \subseteq Family(Preserving, best)
           moves == /\ oneFact \/ ~(query.where \subseteq Family(Directed, best))
                    /\ ~(Wanted \subseteq Family(Directed, best))
                    /\ Wanted \subseteq Family(Directed, root)
<1>3. Reanchored(best) = IF moves THEN root ELSE best
  BY DEF Reanchored
<1>4. best \in Family(Preserving, best)
  <2>1. Preserving \subseteq Objects \X Objects
    BY Graphs
  <2> QED BY <1>1, <2>1, FamilyIs
<1>5. query.measures = {best} => oneFact
  BY <1>4
<1> HIDE DEF root, oneFact
<1> QED BY <1>1, <1>2, <1>3, <1>5

\* SelectBase keeps it.
LEMMA SelectBaseKeeps ==
    ASSUME PlanInv, SelectBase
    PROVE  PlanInv'
<1>1. /\ phase = "asked" /\ phase' = "based"
      /\ base' = Reanchored(BusiestSource)
      /\ required' = required \cup {base'}
      /\ union' = ~(query.measures \subseteq Family(Directed, base'))
      /\ UNCHANGED <<joins, query, steps, reached, walked, refusals, deduped, warned, legs>>
  BY DEF SelectBase
<1>2. /\ JoinsOK /\ IsFiniteSet(joins)
      /\ query \in QueryObjects
      /\ deduped = {} /\ warned = {} /\ legs = <<>>
      /\ required = query.measures \cup query.dims
  BY <1>1, ModelOK DEF PlanInv, QueryKept, BaseKept
<1>3. /\ query.measures \subseteq Objects /\ query.measures # {}
      /\ query.dims \subseteq Objects /\ query.where \subseteq Objects
  BY <1>2, QueryIs
<1>4. Wanted = query.measures \cup query.dims \cup query.where /\ Wanted \subseteq Objects
  BY <1>2, <1>3 DEF Wanted
<1> DEFINE best == BusiestSource
<1>5. best \in query.measures
  BY <1>2, <1>3, BusiestSourceIs
<1>6. /\ base' \in Objects
      /\ base' \in query.measures \/ Wanted \subseteq Family(Directed, base')
      /\ query.measures = {best} /\ (\E n \in Objects : Wanted \subseteq Family(Directed, n))
            => Wanted \subseteq Family(Directed, base')
  <2> HIDE DEF best
  <2>1. base' = Reanchored(best)
    BY <1>1 DEF best
  <2> QED BY <2>1, <1>2, <1>4, <1>5, ReanchoredIs
<1> HIDE DEF best
<1>7. Directed' = Directed
  BY <1>1 DEF Directed
<1>8. PlanTypeOK'
  BY <1>1, <1>2, <1>3, <1>6 DEF PlanInv, PlanTypeOK
<1>9. ModelKept' /\ QueryKept'
  BY <1>1, <1>2, <1>7 DEF PlanInv, ModelKept, Acyclic, QueryKept
<1>10. BaseKept'
  BY <1>1, <1>2, <1>4, <1>6 DEF BaseKept
<1>11. PathKept' /\ FirstPathKept' /\ FilterKept' /\ StarKept' /\ LegsKept'
  BY <1>1 DEF PathKept, FirstPathKept, FilterKept, StarKept, LegsKept
<1>12. OneFactKept'
  <2> SUFFICES ASSUME OneFactCovered' PROVE ~union' /\ Wanted \subseteq Family(Directed', base')
    BY <1>1, <1>4 DEF OneFactKept
  <2>1. Cardinality(query.measures) = 1 /\ \E n \in Objects : Wanted \subseteq Family(Directed, n)
    BY <1>1, <1>4, <1>7 DEF OneFactCovered
  <2>2. query.measures = {best}
    <3>1. IsFiniteSet(query.measures)
      <4>1. IsFiniteSet(Objects)
        BY NPos, FS_Interval DEF Objects
      <4> QED BY <4>1, <1>3, FS_Subset
    <3>2. \E x : query.measures = {x}
      BY <2>1, <3>1, FS_Singleton
    <3> QED BY <3>2, <1>5
  <2>3. Wanted \subseteq Family(Directed, base')
    BY <2>1, <2>2, <1>6
  <2> QED BY <2>3, <1>1, <1>4, <1>7
<1> QED BY <1>8, <1>9, <1>10, <1>11, <1>12 DEF PlanInv

\* What a path of joins touches is joined, or lies behind a join that may be
\* walked backwards.
LEMMA SidesReached ==
    ASSUME JoinsOK, NEW S, NEW st, Grown(S, st), NEW R, S \subseteq R, {s.to : s \in ToSet(st)} \subseteq R,
           NEW o \in S \cup Sides(ToSet(st))
    PROVE  /\ o \in R \/ BehindBackwardStep(o, R)
           /\ o \in R \/ \E s \in ToSet(st) : s.reversed
<1>1. CASE o \in S
  BY <1>1
<1>2. CASE o \notin S
  <2>1. PICK s \in ToSet(st) : o = s.to \/ (s.reversed /\ BehindBackwardStep(o, {s.to}))
    BY <1>2, TouchedIsReached
  <2>2. s.to \in R
    BY <2>1
  <2>3. BehindBackwardStep(o, {s.to}) => BehindBackwardStep(o, R)
    BY <2>2 DEF BehindBackwardStep
  <2> QED BY <2>1, <2>2, <2>3
<1> QED BY <1>1, <1>2

\* JoinRequired keeps it.
LEMMA JoinRequiredKeeps ==
    ASSUME PlanInv, JoinRequired
    PROVE  PlanInv'
<1>0. PICK path :
      /\ path = JoinPath({base}, required, base)
      /\ phase = "based" /\ phase' = "joined"
      /\ steps' = path.steps
      /\ walked' = ToSet(path.steps)
      /\ reached' = {base} \cup {s.to : s \in ToSet(path.steps)}
      /\ refusals' = {r \in {"ambiguous", "unreachable"} :
                            CASE r = "ambiguous" -> path.ambiguous
                              [] r = "unreachable" -> ~union /\ ~(required \subseteq reached')}
      /\ UNCHANGED <<joins, query, base, required, union, deduped, warned, legs>>
  BY DEF JoinRequired
<1>1. PICK st, R :
      /\ st = path.steps
      /\ R = {base} \cup {s.to : s \in ToSet(st)}
  OBVIOUS
<1>2. /\ refusals' \subseteq {"ambiguous", "unreachable"}
      /\ "unreachable" \in refusals' <=> ~union /\ ~(required \subseteq reached')
  BY <1>0
<1>3. /\ JoinsOK
      /\ query \in QueryObjects
      /\ deduped = {} /\ warned = {} /\ legs = <<>>
      /\ required = query.measures \cup query.dims \cup {base}
      /\ union => base \in query.measures
      /\ required \subseteq Objects /\ base \in Objects /\ union \in BOOLEAN
  BY <1>0, ModelOK DEF PlanInv, QueryKept, BaseKept, PlanTypeOK
<1>4. /\ Grown({base}, st)
      /\ \A t \in required : Reachable({base}, t) => t \in {base} \cup Sides(ToSet(st))
  <2>1. {base} \subseteq Objects
    BY <1>3
  <2> QED BY <2>1, <1>0, <1>1, <1>3, JoinPathIs
<1>5. /\ joins' = joins /\ query' = query /\ base' = base /\ required' = required /\ union' = union
      /\ deduped' = {} /\ warned' = {} /\ legs' = <<>>
  BY <1>0, <1>3
<1>6. phase = "based" /\ phase' = "joined" /\ steps' = st /\ walked' = ToSet(st) /\ reached' = R
  BY <1>0, <1>1
<1>7. st \in Seq(Step) /\ ToSet(st) \subseteq Step /\ \A s \in ToSet(st) : Real(s) /\ s \in Step /\ s.to \in Objects
  <2>1. st \in Seq(Step) /\ \A s \in ToSet(st) : Real(s)
    BY <1>4 DEF Grown
  <2>2. \A s \in ToSet(st) : s \in Step
    BY <2>1 DEF Real
  <2>3. \A s \in Step : s.to \in Objects
    BY DEF Step
  <2> QED BY <2>1, <2>2, <2>3
<1>8. reached' \subseteq Objects
  BY <1>1, <1>3, <1>6, <1>7
<1>9. ASSUME NEW o \in {base} \cup Sides(ToSet(st))
      PROVE  /\ o \in R \/ BehindBackwardStep(o, R)
             /\ o \in R \/ \E s \in ToSet(st) : s.reversed
             /\ o \in Family(Directed, base) \/ \E s \in ToSet(st) : s.reversed
  <2>1. /\ o \in R \/ BehindBackwardStep(o, R)
        /\ o \in R \/ \E s \in ToSet(st) : s.reversed
    <3>1. {base} \subseteq R /\ {s.to : s \in ToSet(st)} \subseteq R
      BY <1>1
    <3> QED BY <3>1, <1>3, <1>4, SidesReached
  <2>2. ASSUME \A s \in ToSet(st) : ~s.reversed PROVE o \in Family(Directed, base)
    <3>1. PICK S : S = {base}
      OBVIOUS
    <3>2. S \subseteq Objects /\ Grown(S, st) /\ o \in S \cup Sides(ToSet(st))
      BY <1>3, <1>4, <3>1
    <3>3. \E r \in S : o \in Family(Directed, r)
      BY <1>3, <2>2, <3>2, ForwardReach
    <3> QED BY <3>1, <3>3
  <2> QED BY <2>1, <2>2
<1>10. \A s \in ToSet(st) : s.to \in Sides(ToSet(st))
  BY DEF Sides
<1>11. \A o \in R : o \in {base} \cup Sides(ToSet(st))
  BY <1>1, <1>10
<1>12. Directed' = Directed
  BY <1>5 DEF Directed
<1>13. PlanTypeOK'
  BY <1>2, <1>3, <1>5, <1>6, <1>7, <1>8 DEF PlanInv, PlanTypeOK
<1>14. ModelKept' /\ QueryKept' /\ BaseKept'
  BY <1>3, <1>5, <1>6, <1>12 DEF PlanInv, ModelKept, Acyclic, QueryKept, BaseKept
<1>15. Grown({base}, steps)'
  BY <1>4, <1>5, <1>6 DEF Grown, Real, Rooted
<1>16. PathKept'
  <2>1. \A o \in Sides(ToSet(st)) : o \in R \/ BehindBackwardStep(o, R)
    BY <1>9
  <2>2. \A o \in Sides(ToSet(steps')) : o \in reached' \/ BehindBackwardStep(o, reached)'
    BY <2>1, <1>5, <1>6 DEF BehindBackwardStep
  <2>3. ~union' /\ refusals' = {} => required' \subseteq reached'
    BY <1>2, <1>5
  <2>4. reached' = {base'} \cup {s.to : s \in ToSet(steps')} /\ ToSet(steps') \subseteq walked'
    BY <1>1, <1>5, <1>6
  <2> QED BY <2>2, <2>3, <2>4, <1>15 DEF PathKept
<1>17. FirstPathKept'
  <2>1. R \subseteq Family(Directed, base) \/ \E s \in ToSet(st) : s.reversed
    <3> QED BY <1>9, <1>11
  <2>2. reached' \subseteq Family(Directed', base') \/ \E s \in walked' : s.reversed
    BY <2>1, <1>5, <1>6, <1>12
  <2> QED BY <2>2, <1>2, <1>6, <1>15 DEF FirstPathKept
<1>18. FilterKept' /\ StarKept' /\ LegsKept'
  BY <1>6 DEF FilterKept, StarKept, LegsKept
<1>19. OneFactKept'
  <2> DEFINE Named == query.measures \cup query.dims \cup query.where
  <2> SUFFICES ASSUME OneFactCovered'
               PROVE  /\ ~union' /\ Named \subseteq Family(Directed, base)
                      /\ "unreachable" \notin refusals' \/ \E s \in ToSet(st) : s.reversed
    BY <1>5, <1>6, <1>12 DEF OneFactKept
  <2>1. OneFactCovered
    BY <1>5, <1>12 DEF OneFactCovered
  <2>2. ~union /\ Named \subseteq Family(Directed, base)
    BY <2>1, <1>6 DEF PlanInv, OneFactKept
  <2>3. ASSUME NEW t \in required PROVE Reachable({base}, t)
    <3>1. Directed \subseteq Traversable /\ Traversable \subseteq Objects \X Objects /\ Directed \subseteq Objects \X Objects
      BY <1>3, Graphs
    <3>2. t \in Family(Directed, base)
      <4>1. base \in Family(Directed, base)
        BY <3>1, <1>3, FamilyIs
      <4> QED BY <4>1, <2>2, <1>3
    <3>3. t \in Family(Traversable, base)
      BY <3>1, <3>2, <1>3, FamilyWidens
    <3> QED BY <3>3 DEF Reachable
  <2>4. \A t \in required : t \in R \/ \E s \in ToSet(st) : s.reversed
    <3> QED BY <2>3, <1>4, <1>9
  <2>5. reached' = R
    BY <1>6
  <2> QED BY <2>2, <2>4, <2>5, <1>2, <1>5
<1> QED BY <1>13, <1>14, <1>16, <1>17, <1>18, <1>19 DEF PlanInv

\* A query names at most one object in its filter.
LEMMA OneFilter ==
    ASSUME NEW q \in QueryObjects, NEW o \in q.where, NEW p \in q.where
    PROVE  o = p
<1>1. q.where \subseteq Objects /\ Cardinality(q.where) <= 1
  BY JoinPlanAssumption DEF Query
<1>2. IsFiniteSet(q.where)
  <2>1. IsFiniteSet(Objects)
    BY NPos, FS_Interval DEF Objects
  <2> QED BY <2>1, <1>1, FS_Subset
<1>3. Cardinality(q.where) \in Nat /\ Cardinality(q.where) # 0
  BY <1>2, FS_CardinalityType, FS_EmptySet
<1>4. Cardinality(q.where) = 1
  BY <1>1, <1>3
<1>5. PICK x : q.where = {x}
  BY <1>2, <1>4, FS_Singleton
<1> QED BY <1>5

\* What resolving the filter leaves, whatever the filter is.
FilterResolved(st, re, wa, rq, rf) ==
    /\ st \in Seq(Step) /\ re \subseteq Objects /\ wa \subseteq Step /\ rq \subseteq Objects
    /\ required \subseteq rq
    /\ refusals \subseteq rf /\ rf \subseteq refusals \cup {"ambiguous", "unreachable filter"}
    /\ re = {base} \cup {s.to : s \in ToSet(st)}
    /\ ToSet(steps) \subseteq ToSet(st) /\ ToSet(st) \subseteq wa
    /\ \A o \in Sides(ToSet(st)) : o \in re \/ BehindBackwardStep(o, re)
    /\ Grown({base}, st) \/ \E s \in wa : s.reversed /\ s \notin ToSet(st)
    /\ ~union /\ rf = {} => rq \subseteq re
    /\ ~union /\ rf = {} => \A o \in query.where : o \in re \/ BehindBackwardStep(o, re)
    /\ union /\ rf = {} => \/ \A o \in query.where : \E m \in query.measures : o \in Family(Directed, m)
                           \/ \E s \in wa : s.reversed
    /\ OneFactCovered => "unreachable filter" \notin rf

\* What resolution has when it turns to the filter.
LEMMA BeforeFilter ==
    ASSUME PlanInv, phase = "joined"
    PROVE  /\ JoinsOK /\ query \in QueryObjects
           /\ query.measures \subseteq Objects /\ query.where \subseteq Objects
           /\ base \in Objects /\ steps \in Seq(Step) /\ reached \subseteq Objects
           /\ walked \subseteq Step /\ required \subseteq Objects /\ union \in BOOLEAN
           /\ Grown({base}, steps)
           /\ walked = ToSet(steps)
           /\ refusals \subseteq {"ambiguous", "unreachable"}
           /\ reached \subseteq Family(Directed, base) \/ \E s \in walked : s.reversed
           /\ reached = {base} \cup {s.to : s \in ToSet(steps)}
           /\ \A o \in Sides(ToSet(steps)) : o \in reached \/ BehindBackwardStep(o, reached)
           /\ ~union /\ refusals = {} => required \subseteq reached
           /\ union => base \in query.measures
           /\ query.measures \cup query.dims \subseteq required
           /\ OneFactCovered => /\ query.where \subseteq Family(Directed, base)
                                /\ ~union
                                /\ "unreachable" \notin refusals \/ \E s \in ToSet(steps) : s.reversed
           /\ deduped = {} /\ warned = {} /\ legs = <<>>
           /\ Directed \subseteq Objects \X Objects /\ Directed \subseteq Traversable
           /\ Traversable \subseteq Objects \X Objects
<1>1. JoinsOK /\ query \in QueryObjects /\ deduped = {} /\ warned = {} /\ legs = <<>>
  BY ModelOK DEF PlanInv, QueryKept
<1>2. query.measures \subseteq Objects /\ query.where \subseteq Objects
  BY <1>1, QueryIs
<1>3. /\ base \in Objects /\ steps \in Seq(Step) /\ reached \subseteq Objects
      /\ walked \subseteq Step /\ required \subseteq Objects /\ union \in BOOLEAN
  BY DEF PlanInv, PlanTypeOK
<1>4. /\ Grown({base}, steps)
      /\ walked = ToSet(steps)
      /\ refusals \subseteq {"ambiguous", "unreachable"}
      /\ reached \subseteq Family(Directed, base) \/ \E s \in walked : s.reversed
  BY DEF PlanInv, FirstPathKept
<1>5. /\ reached = {base} \cup {s.to : s \in ToSet(steps)}
      /\ \A o \in Sides(ToSet(steps)) : o \in reached \/ BehindBackwardStep(o, reached)
      /\ ~union /\ refusals = {} => required \subseteq reached
  BY DEF PlanInv, PathKept
<1>6. (union => base \in query.measures) /\ query.measures \cup query.dims \subseteq required
  BY DEF PlanInv, BaseKept
<1>7. OneFactCovered => /\ query.where \subseteq Family(Directed, base)
                        /\ ~union
                        /\ "unreachable" \notin refusals \/ \E s \in ToSet(steps) : s.reversed
  BY DEF PlanInv, OneFactKept
<1>8. /\ Directed \subseteq Objects \X Objects /\ Directed \subseteq Traversable
      /\ Traversable \subseteq Objects \X Objects
  BY <1>1, Graphs
<1> QED BY <1>1, <1>2, <1>3, <1>4, <1>5, <1>6, <1>7, <1>8

\* The filter's object is joined already.
LEMMA NoFilterKeeps ==
    ASSUME PlanInv, phase = "joined", query.where \subseteq reached
    PROVE  FilterResolved(steps, reached, walked, required, refusals)
<1>1. union => \/ \A o \in query.where : \E m \in query.measures : o \in Family(Directed, m)
               \/ \E s \in walked : s.reversed
  BY BeforeFilter
<1>2. "unreachable filter" \notin refusals
  BY BeforeFilter
<1> QED BY <1>1, <1>2, BeforeFilter DEF FilterResolved

\* The filter's path is ambiguous.
LEMMA AmbiguousFilterKeeps ==
    ASSUME PlanInv, phase = "joined"
    PROVE  FilterResolved(steps, reached, walked, required, refusals \cup {"ambiguous"})
<1>1. "unreachable filter" \notin refusals \cup {"ambiguous"}
  BY BeforeFilter
<1> QED BY <1>1, BeforeFilter DEF FilterResolved

\* No object joined and no leg reaches the filter's.
LEMMA UnreachableFilterKeeps ==
    ASSUME PlanInv, phase = "joined", NEW o \in query.where \ reached,
           ~ \E r \in reached : o \in Descendants(Directed, r)
    PROVE  FilterResolved(steps, reached, walked, required, refusals \cup {"unreachable filter"})
<1>1. ~OneFactCovered
  <2> SUFFICES ASSUME OneFactCovered PROVE FALSE
    OBVIOUS
  <2>1. o \in Family(Directed, base) /\ base \in reached
    BY BeforeFilter
  <2> QED BY <2>1 DEF Descendants
<1> QED BY <1>1, BeforeFilter DEF FilterResolved

\* The filter is left to the legs that reach its object.
LEMMA LegFilterKeeps ==
    ASSUME PlanInv, phase = "joined", NEW o \in query.where \ reached, union,
           NEW roots, roots = {m \in query.measures : o \in Family(Directed, m)}, roots # {},
           NEW rq, rq = required \cup roots \cup
                           UNION {Sides(ToSet(JoinPath({m}, {m, o}, m).steps)) : m \in roots}
    PROVE  FilterResolved(steps, reached, walked, rq, refusals)
<1>1. ASSUME NEW m \in roots PROVE Sides(ToSet(JoinPath({m}, {m, o}, m).steps)) \subseteq Objects
  <2> DEFINE st == JoinPath({m}, {m, o}, m).steps
  <2>1. m \in Objects /\ o \in Objects /\ {m} \subseteq Objects /\ {m, o} \subseteq Objects
    BY BeforeFilter
  <2>2. Grown({m}, st)
    <3>1. JoinsOK
      BY BeforeFilter
    <3> QED BY <2>1, <3>1, JoinPathIs
  <2> HIDE DEF st
  <2>3. \A s \in ToSet(st) : s.from \in Objects /\ s.to \in Objects
    BY <2>2 DEF Grown, Real, Step
  <2>4. Sides(ToSet(st)) \subseteq Objects
    BY <2>3 DEF Sides
  <2> QED BY <2>4 DEF st
<1>2. rq \subseteq Objects
  <2>1. UNION {Sides(ToSet(JoinPath({m}, {m, o}, m).steps)) : m \in roots} \subseteq Objects
    BY <1>1
  <2> QED BY <2>1, BeforeFilter
<1>3. \A p \in query.where : \E m \in query.measures : p \in Family(Directed, m)
  <2>1. \A p \in query.where : p = o
    BY BeforeFilter, OneFilter
  <2> QED BY <2>1
<1>4. "unreachable filter" \notin refusals /\ required \subseteq rq
  BY BeforeFilter
<1> QED BY <1>2, <1>3, <1>4, BeforeFilter DEF FilterResolved

\* The filter's object is joined.
LEMMA JoinedFilterKeeps ==
    ASSUME PlanInv, phase = "joined", NEW o \in query.where \ reached,
           \E r \in reached : o \in Descendants(Directed, r),
           NEW path, path = JoinPath(reached, {o}, base).steps,
           NEW st, st = WithFilter(path).steps, NEW re, re = WithFilter(path).reached
    PROVE  FilterResolved(st, re, walked \cup ToSet(path), required \cup (re \ reached), refusals)
<1>1. /\ JoinsOK /\ query \in QueryObjects /\ o \in Objects
      /\ base \in Objects /\ steps \in Seq(Step) /\ reached \subseteq Objects
      /\ Grown({base}, steps)
      /\ reached = {base} \cup {s.to : s \in ToSet(steps)}
      /\ walked = ToSet(steps)
  BY BeforeFilter
<1>2. PICK r \in reached : o \in Family(Directed, r)
  BY DEF Descendants
<1>3. r \in Objects /\ Directed \subseteq Objects \X Objects /\ Directed \subseteq Traversable
      /\ Traversable \subseteq Objects \X Objects
  BY <1>1, BeforeFilter
<1>4. Grown(reached, path) /\ o \in reached \cup Sides(ToSet(path))
  <2>1. o \in Family(Traversable, r)
    BY <1>2, <1>3, FamilyWidens
  <2>2. Reachable(reached, o)
    BY <1>2, <2>1 DEF Reachable
  <2>3. {o} \subseteq Objects
    BY <1>1
  <2> QED BY <2>2, <2>3, <1>1, JoinPathIs
<1>5. path \in Seq(Step) /\ ToSet(path) \subseteq Step
  <2>1. path \in Seq(Step) /\ \A s \in ToSet(path) : s \in Step
    BY <1>4 DEF Grown, Real
  <2> QED BY <2>1
<1>6. /\ st \in Seq(Step)
      /\ re = reached \cup {s.to : s \in ToSet(path)}
      /\ ToSet(steps) \subseteq ToSet(st)
      /\ ToSet(st) \subseteq ToSet(steps) \cup ToSet(path)
      /\ re = {base} \cup {s.to : s \in ToSet(st)}
  BY <1>1, <1>5, FilterReaches
<1>7. re \subseteq Objects
  <2>1. \A s \in Step : s.to \in Objects
    BY DEF Step
  <2> QED BY <2>1, <1>1, <1>5, <1>6
<1>8. ASSUME NEW p \in reached \cup Sides(ToSet(path)) PROVE p \in re \/ BehindBackwardStep(p, re)
  <2>1. reached \subseteq re /\ {s.to : s \in ToSet(path)} \subseteq re
    BY <1>6
  <2> QED BY <2>1, <1>1, <1>4, SidesReached
<1>9. \A p \in Sides(ToSet(st)) : p \in re \/ BehindBackwardStep(p, re)
  <2>1. ASSUME NEW p \in Sides(ToSet(steps)) PROVE p \in re \/ BehindBackwardStep(p, re)
    <3>1. p \in reached \/ BehindBackwardStep(p, reached)
      BY BeforeFilter
    <3>2. reached \subseteq re
      BY <1>6
    <3> QED BY <3>1, <3>2 DEF BehindBackwardStep
  <2>2. Sides(ToSet(st)) \subseteq Sides(ToSet(steps)) \cup Sides(ToSet(path))
    BY <1>6 DEF Sides
  <2> QED BY <2>1, <2>2, <1>8
<1>10. Grown({base}, st) \/ \E s \in walked \cup ToSet(path) : s.reversed /\ s \notin ToSet(st)
  <2> SUFFICES ASSUME \A s \in ToSet(path) : s.reversed => s \in ToSet(st)
               PROVE  Grown({base}, st)
    OBVIOUS
  <2>1. PICK S : S = {base}
    OBVIOUS
  <2>2. Grown(S, steps)
    BY <2>1, <1>1
  <2>3. reached \subseteq S \cup Sides(ToSet(steps))
    BY <2>1, <1>1 DEF Sides
  <2>4. \A s \in ToSet(path) : s.reversed => s \in ToSet(WithFilter(path).steps)
    OBVIOUS
  <2>5. Grown(S, WithFilter(path).steps)
    BY <2>2, <2>3, <2>4, <1>1, <1>4, FilterGrows
  <2> QED BY <2>1, <2>5
<1>11. \A p \in query.where : p = o
  BY <1>1, OneFilter
<1>12. union => \/ \A p \in query.where : \E m \in query.measures : p \in Family(Directed, m)
                \/ \E s \in walked \cup ToSet(path) : s.reversed
  <2> SUFFICES ASSUME union, \A s \in walked : ~s.reversed
               PROVE  \E m \in query.measures : o \in Family(Directed, m)
    BY <1>11
  <2>1. base \in query.measures /\ r \in Family(Directed, base)
    BY BeforeFilter
  <2>2. o \in Family(Directed, base)
    BY <1>1, <1>2, <1>3, <2>1, FamilyNests
  <2> QED BY <2>1, <2>2
<1>13. ~union /\ refusals = {} => required \cup (re \ reached) \subseteq re
  <2>1. ~union /\ refusals = {} => required \subseteq reached
    BY BeforeFilter
  <2> QED BY <2>1, <1>6
<1>14. required \cup (re \ reached) \subseteq Objects /\ walked \cup ToSet(path) \subseteq Step
  BY <1>5, <1>7, BeforeFilter
<1>15. "unreachable filter" \notin refusals
  BY BeforeFilter
<1>16. ToSet(st) \subseteq walked \cup ToSet(path)
  BY <1>1, <1>6
<1>17. \A p \in query.where : p \in re \/ BehindBackwardStep(p, re)
  BY <1>4, <1>8, <1>11
<1> QED BY <1>6, <1>7, <1>9, <1>10, <1>12, <1>13, <1>14, <1>15, <1>16, <1>17 DEF FilterResolved

\* ResolveFilter leaves one of these.
LEMMA ResolveFilterFinds ==
    ASSUME PlanInv, ResolveFilter
    PROVE  \E st, re, wa, rq, rf :
              /\ steps' = st /\ reached' = re /\ walked' = wa /\ required' = rq /\ refusals' = rf
              /\ FilterResolved(st, re, wa, rq, rf)
<1>1. phase = "joined"
  BY DEF ResolveFilter
<1>2. CASE NoFilterToJoin
  BY <1>1, <1>2, NoFilterKeeps DEF NoFilterToJoin
<1>3. ASSUME NEW o \in query.where \ reached, JoinFilter(o)
      PROVE  \E st, re, wa, rq, rf :
              /\ steps' = st /\ reached' = re /\ walked' = wa /\ required' = rq /\ refusals' = rf
              /\ FilterResolved(st, re, wa, rq, rf)
  <2>1. \E r \in reached : o \in Descendants(Directed, r)
    BY <1>3 DEF JoinFilter
  <2>2. CASE Cardinality(Entries(Roles(reached, o, base))) > 1
    <3>1. /\ refusals' = refusals \cup {"ambiguous"}
          /\ UNCHANGED <<required, steps, reached, walked>>
      BY <1>3, <2>2 DEF JoinFilter
    <3> QED BY <3>1, <1>1, AmbiguousFilterKeeps
  <2>3. CASE ~(Cardinality(Entries(Roles(reached, o, base))) > 1)
    <3>1. PICK path, joined :
             /\ path = JoinPath(reached, {o}, base).steps
             /\ walked' = walked \cup ToSet(path)
             /\ joined = WithFilter(path)
             /\ steps' = joined.steps
             /\ reached' = joined.reached
             /\ required' = required \cup (reached' \ reached)
             /\ UNCHANGED refusals
      BY <1>3, <2>3 DEF JoinFilter
    <3>2. PICK st, re : st = WithFilter(path).steps /\ re = WithFilter(path).reached
      OBVIOUS
    <3>3. FilterResolved(st, re, walked \cup ToSet(path), required \cup (re \ reached), refusals)
      BY <1>1, <2>1, <3>1, <3>2, JoinedFilterKeeps
    <3> QED BY <3>1, <3>2, <3>3
  <2> QED BY <2>2, <2>3
<1>4. ASSUME NEW o \in query.where \ reached, LeaveFilterToLegs(o)
      PROVE  \E st, re, wa, rq, rf :
              /\ steps' = st /\ reached' = re /\ walked' = wa /\ required' = rq /\ refusals' = rf
              /\ FilterResolved(st, re, wa, rq, rf)
  <2>1. PICK roots : roots = {m \in query.measures : o \in Family(Directed, m)}
    OBVIOUS
  <2>2. ~ \E r \in reached : o \in Descendants(Directed, r)
    BY <1>4 DEF LeaveFilterToLegs
  <2>3. CASE union /\ roots # {}
    <3>1. PICK rq : rq = required \cup roots \cup
                           UNION {Sides(ToSet(JoinPath({m}, {m, o}, m).steps)) : m \in roots}
      OBVIOUS
    <3>2. required' = rq /\ UNCHANGED <<steps, reached, walked, refusals>>
      BY <1>4, <2>1, <2>3, <3>1 DEF LeaveFilterToLegs
    <3>3. FilterResolved(steps, reached, walked, rq, refusals)
      BY <1>1, <2>1, <2>3, <3>1, LegFilterKeeps
    <3> QED BY <3>2, <3>3
  <2>4. CASE ~(union /\ roots # {})
    <3>1. /\ refusals' = refusals \cup {"unreachable filter"}
          /\ UNCHANGED <<required, steps, reached, walked>>
      BY <1>4, <2>1, <2>4 DEF LeaveFilterToLegs
    <3>2. FilterResolved(steps, reached, walked, required, refusals \cup {"unreachable filter"})
      BY <1>1, <2>2, UnreachableFilterKeeps
    <3> QED BY <3>1, <3>2
  <2> QED BY <2>3, <2>4
<1>5. NoFilterToJoin \/ \E o \in query.where \ reached : JoinFilter(o) \/ LeaveFilterToLegs(o)
  BY DEF ResolveFilter
<1> QED BY <1>2, <1>3, <1>4, <1>5

\* ResolveFilter keeps the invariant.
LEMMA ResolveFilterKeeps ==
    ASSUME PlanInv, ResolveFilter
    PROVE  PlanInv'
<1>1. PICK st, re, wa, rq, rf :
         /\ steps' = st /\ reached' = re /\ walked' = wa /\ required' = rq /\ refusals' = rf
         /\ FilterResolved(st, re, wa, rq, rf)
  BY ResolveFilterFinds
<1>2. /\ phase = "joined"
      /\ phase' = IF rf = {} THEN "resolved" ELSE "refused"
      /\ joins' = joins /\ query' = query /\ base' = base /\ union' = union
      /\ deduped' = deduped /\ warned' = warned /\ legs' = legs
  BY <1>1 DEF ResolveFilter
<1>3. /\ JoinsOK /\ query \in QueryObjects
      /\ deduped = {} /\ warned = {} /\ legs = <<>>
      /\ union => base \in query.measures
      /\ query.measures \cup query.dims \subseteq required
      /\ refusals \subseteq {"ambiguous", "unreachable"}
  BY <1>2, BeforeFilter
<1>4. /\ st \in Seq(Step) /\ re \subseteq Objects /\ wa \subseteq Step /\ rq \subseteq Objects
      /\ required \subseteq rq
      /\ refusals \subseteq rf /\ rf \subseteq refusals \cup {"ambiguous", "unreachable filter"}
      /\ re = {base} \cup {s.to : s \in ToSet(st)}
      /\ ToSet(steps) \subseteq ToSet(st) /\ ToSet(st) \subseteq wa
      /\ \A o \in Sides(ToSet(st)) : o \in re \/ BehindBackwardStep(o, re)
      /\ Grown({base}, st) \/ \E s \in wa : s.reversed /\ s \notin ToSet(st)
      /\ ~union /\ rf = {} => rq \subseteq re
      /\ ~union /\ rf = {} => \A o \in query.where : o \in re \/ BehindBackwardStep(o, re)
      /\ union /\ rf = {} => \/ \A o \in query.where : \E m \in query.measures : o \in Family(Directed, m)
                             \/ \E s \in wa : s.reversed
      /\ OneFactCovered => "unreachable filter" \notin rf
  BY <1>1 DEF FilterResolved
<1>5. Directed' = Directed /\ \A o : BehindBackwardStep(o, re)' = BehindBackwardStep(o, re)
  BY <1>2 DEF Directed, BehindBackwardStep
<1>6. phase' \in {"resolved", "refused"} /\ (phase' = "resolved" <=> rf = {})
  BY <1>2
<1>7. PlanTypeOK'
  BY <1>1, <1>2, <1>3, <1>4, <1>6 DEF PlanInv, PlanTypeOK
<1>8. ModelKept' /\ QueryKept' /\ BaseKept'
  BY <1>1, <1>2, <1>3, <1>4, <1>5, <1>6 DEF PlanInv, ModelKept, Acyclic, QueryKept, BaseKept
<1>9. PathKept'
  <2>1. Grown({base}, steps)' \/ \E s \in wa : s.reversed /\ s \notin ToSet(st)
    BY <1>1, <1>2, <1>4 DEF Grown, Real, Rooted
  <2>2. \A o \in Sides(ToSet(steps')) : o \in reached' \/ BehindBackwardStep(o, reached)'
    BY <1>1, <1>2, <1>4 DEF BehindBackwardStep
  <2>3. /\ reached' = {base'} \cup {s.to : s \in ToSet(steps')}
        /\ ToSet(steps') \subseteq walked'
        /\ ~union' /\ refusals' = {} => required' \subseteq reached'
    BY <1>1, <1>2, <1>4
  <2> QED BY <2>1, <2>2, <2>3, <1>1 DEF PathKept
<1>10. FirstPathKept' /\ StarKept' /\ LegsKept'
  BY <1>6 DEF FirstPathKept, StarKept, LegsKept
<1>11. FilterKept'
  <2>1. ASSUME ~union, rf = {}
        PROVE  \A o \in query.where : o \in reached' \/ BehindBackwardStep(o, reached)'
    BY <1>1, <1>2, <1>4, <2>1 DEF BehindBackwardStep
  <2>2. ASSUME union, rf = {}
        PROVE  \/ \A o \in query.where : \E m \in query.measures : o \in Family(Directed', m)
               \/ \E s \in walked' : s.reversed
    BY <1>1, <1>4, <1>5, <2>2
  <2> QED BY <2>1, <2>2, <1>1, <1>2, <1>6 DEF FilterKept
<1>12. OneFactKept'
  <2> SUFFICES ASSUME OneFactCovered'
               PROVE  /\ phase' = "resolved" =>
                            /\ ~union
                            /\ query.measures \cup query.dims \cup query.where \subseteq Family(Directed, base)
                      /\ phase' = "refused" => \/ "ambiguous" \in rf
                                               \/ \E s \in ToSet(st) : s.reversed
    BY <1>1, <1>2, <1>5, <1>6 DEF OneFactKept
  <2>1. OneFactCovered
    BY <1>2, <1>5 DEF OneFactCovered
  <2>2. /\ ~union
        /\ query.measures \cup query.dims \cup query.where \subseteq Family(Directed, base)
        /\ "unreachable" \notin refusals \/ \E s \in ToSet(steps) : s.reversed
    BY <2>1, <1>2 DEF PlanInv, OneFactKept
  <2>3. ASSUME rf # {}, "ambiguous" \notin rf PROVE "unreachable" \in refusals
    BY <2>1, <2>3, <1>3, <1>4
  <2> QED BY <2>2, <2>3, <1>4, <1>6
<1> QED BY <1>7, <1>8, <1>9, <1>10, <1>11, <1>12 DEF PlanInv

\* Planning reads what resolution left, and changes none of it.
LEMMA ResolutionStays ==
    ASSUME PlanInv, phase = "resolved", phase' = "planned",
           UNCHANGED <<joins, query, base, required, union, steps, reached, walked, refusals>>
    PROVE  /\ ModelKept' /\ BaseKept' /\ PathKept' /\ FirstPathKept' /\ FilterKept' /\ OneFactKept'
           /\ query \in QueryObjects /\ JoinsOK /\ refusals = {}
           /\ deduped = {} /\ warned = {} /\ legs = <<>>
<1>1. Directed' = Directed
  BY DEF Directed
<1>2. query \in QueryObjects /\ JoinsOK /\ refusals = {} /\ deduped = {} /\ warned = {} /\ legs = <<>>
  BY ModelOK DEF PlanInv, QueryKept, FilterKept
<1>3. ModelKept' /\ BaseKept'
  BY <1>1 DEF PlanInv, ModelKept, Acyclic, BaseKept
<1>4. PathKept'
  <2>1. /\ reached = {base} \cup {s.to : s \in ToSet(steps)}
        /\ ToSet(steps) \subseteq walked
        /\ \A o \in Sides(ToSet(steps)) : o \in reached \/ BehindBackwardStep(o, reached)
        /\ Grown({base}, steps) \/ \E s \in walked : s.reversed /\ s \notin ToSet(steps)
        /\ ~union /\ refusals = {} => required \subseteq reached
    BY DEF PlanInv, PathKept
  <2>2. Grown({base}, steps)' \/ \E s \in walked' : s.reversed /\ s \notin ToSet(steps')
    BY <2>1 DEF Grown, Real, Rooted
  <2>3. \A o \in Sides(ToSet(steps')) : o \in reached' \/ BehindBackwardStep(o, reached)'
    BY <2>1 DEF BehindBackwardStep
  <2>4. /\ reached' = {base'} \cup {s.to : s \in ToSet(steps')}
        /\ ToSet(steps') \subseteq walked'
        /\ ~union' /\ refusals' = {} => required' \subseteq reached'
    BY <2>1
  <2> QED BY <2>2, <2>3, <2>4 DEF PathKept
<1>5. FirstPathKept'
  BY DEF FirstPathKept
<1>6. FilterKept'
  <2>1. /\ ~union => \A o \in query.where : o \in reached \/ BehindBackwardStep(o, reached)
        /\ union => \/ \A o \in query.where : \E m \in query.measures : o \in Family(Directed, m)
                    \/ \E s \in walked : s.reversed
    BY DEF PlanInv, FilterKept
  <2>2. ~union' => \A o \in query'.where : o \in reached' \/ BehindBackwardStep(o, reached)'
    BY <2>1 DEF BehindBackwardStep
  <2>3. union' => \/ \A o \in query'.where : \E m \in query'.measures : o \in Family(Directed', m)
                  \/ \E s \in walked' : s.reversed
    BY <2>1, <1>1
  <2> QED BY <2>2, <2>3, <1>2 DEF FilterKept
<1>7. OneFactKept'
  BY <1>1 DEF PlanInv, OneFactKept, OneFactCovered
<1> QED BY <1>2, <1>3, <1>4, <1>5, <1>6, <1>7

\* A refused query keeps only why it is refused.
LEMMA RefusedKeeps ==
    ASSUME PlanInv, phase # "idle", phase' = "refused",
           refusals' \subseteq {"ambiguous", "unreachable", "unreachable filter", "fanout"},
           UNCHANGED <<joins, query, base, required, union, steps, reached, walked, legs, deduped, warned>>,
           phase # "planned", union => base \in query.measures,
           OneFactCovered => refusals' = {"fanout"}
    PROVE  PlanInv'
<1>1. Directed' = Directed
  BY DEF Directed
<1>2. PlanTypeOK'
  BY DEF PlanInv, PlanTypeOK
<1>3. ModelKept' /\ QueryKept' /\ BaseKept'
  BY <1>1 DEF PlanInv, ModelKept, Acyclic, QueryKept, BaseKept
<1>4. PathKept' /\ FirstPathKept' /\ FilterKept' /\ StarKept' /\ LegsKept'
  BY DEF PathKept, FirstPathKept, FilterKept, StarKept, LegsKept
<1>5. OneFactKept'
  <2>1. OneFactCovered' => OneFactCovered
    BY <1>1 DEF OneFactCovered
  <2> QED BY <2>1 DEF OneFactKept
<1> QED BY <1>2, <1>3, <1>4, <1>5 DEF PlanInv

\* DetectReplication keeps it.
LEMMA DetectReplicationKeeps ==
    ASSUME PlanInv, DetectReplication
    PROVE  PlanInv'
<1> DEFINE refused == {m \in query.measures : \E s \in FanoutOf(m) : ~ResolvedByGroupBy(s)}
<1>1. /\ phase = "resolved" /\ ~union
      /\ UNCHANGED <<joins, query, base, required, union, steps, reached, walked, legs>>
      /\ \/ refused # {} /\ phase' = "refused" /\ refusals' = {"fanout"} /\ UNCHANGED <<deduped, warned>>
         \/ /\ phase' = "planned"
            /\ warned' = {m \in query.measures : FanoutOf(m) # {}}
            /\ deduped' = query.measures \cap Replicated(steps)
            /\ UNCHANGED refusals
  BY DEF DetectReplication
<1> HIDE DEF refused
<1>2. CASE phase' = "refused" /\ refusals' = {"fanout"} /\ UNCHANGED <<deduped, warned>>
  BY <1>1, <1>2, RefusedKeeps
<1>3. CASE /\ phase' = "planned"
           /\ warned' = {m \in query.measures : FanoutOf(m) # {}}
           /\ deduped' = query.measures \cap Replicated(steps)
           /\ UNCHANGED refusals
  <2>1. /\ ModelKept' /\ BaseKept' /\ PathKept' /\ FirstPathKept' /\ FilterKept' /\ OneFactKept'
        /\ query \in QueryObjects /\ JoinsOK /\ refusals = {}
        /\ deduped = {} /\ warned = {} /\ legs = <<>>
    BY <1>1, <1>3, ResolutionStays
  <2>2. deduped' \subseteq query'.measures /\ warned' \subseteq query'.measures /\ legs' = <<>>
    BY <1>1, <1>3, <2>1
  <2>3. PlanTypeOK'
    BY <1>1, <1>3, <2>1, <2>2 DEF PlanInv, PlanTypeOK
  <2>4. QueryKept'
    BY <1>1, <1>3, <2>1 DEF QueryKept
  <2>5. StarKept'
    <3>1. ASSUME NEW s \in ToSet(steps), CausesFanout(s), Origin(s) \in query.measures
          PROVE  Origin(s) \in warned'
      <4>1. s \in FanoutOf(Origin(s))
        BY <3>1 DEF FanoutOf
      <4> QED BY <4>1, <3>1, <1>3
    <3>2. deduped' = query'.measures \cap Replicated(steps')
      BY <1>1, <1>3
    <3>3. \A s \in ToSet(steps') : CausesFanout(s) /\ Origin(s) \in query'.measures => Origin(s) \in warned'
      BY <3>1, <1>1
    <3> QED BY <3>2, <3>3 DEF StarKept
  <2>6. LegsKept'
    BY <1>1 DEF LegsKept
  <2> QED BY <2>1, <2>3, <2>4, <2>5, <2>6 DEF PlanInv
<1> QED BY <1>1, <1>2, <1>3

\* The type of a leg.
Legs == [reads : SUBSET Objects, lead : Objects, path : Seq(Step), deduped : BOOLEAN]

\* A leg joins all it reads, and reads whatever its measure reaches.
LEMMA LegIs ==
    ASSUME JoinsOK, query \in QueryObjects, NEW m \in query.measures
    PROVE  /\ Leg(m) \in Legs
           /\ SoundLeg(Leg(m), m)
           /\ (query.dims \cup query.where) \cap Family(Directed, m) \subseteq Leg(m).reads
<1> DEFINE wants == {m} \cup query.dims \cup query.where
           reads == {m} \cup (LegReach(m) \cap (query.dims \cup query.where))
           lead == CommonRoot(reads)
           path == JoinPath({lead}, reads, lead).steps
           twice == m \in Replicated(path)
<1>1. m \in Objects /\ query.dims \subseteq Objects /\ query.where \subseteq Objects
  BY QueryIs
<1>2. Directed \subseteq Objects \X Objects /\ Directed \subseteq Traversable
      /\ Traversable \subseteq Objects \X Objects
  BY Graphs
<1>3. \E n \in Objects : /\ LegReach(m) = Family(Directed, n)
                         /\ m \in LegReach(m)
                         /\ Family(Directed, m) \subseteq LegReach(m)
  <2>1. CommonRoot(wants) \in Objects
    <3>1. wants \subseteq Objects /\ wants # {}
      BY <1>1
    <3> HIDE DEF wants
    <3> QED BY <3>1, CommonRootIs
  <2>2. m \in Family(Directed, m)
    BY <1>1, <1>2, FamilyIs
  <2>3. LegReach(m) = IF m \in Family(Directed, CommonRoot(wants))
                      THEN Family(Directed, CommonRoot(wants)) ELSE Family(Directed, m)
    BY DEF LegReach
  <2> HIDE DEF wants
  <2>4. m \in Family(Directed, CommonRoot(wants)) =>
            Family(Directed, m) \subseteq Family(Directed, CommonRoot(wants))
    BY <2>1, <1>2, FamilyNests
  <2> QED BY <2>1, <2>2, <2>3, <2>4, <1>1
<1>4. reads \subseteq Objects /\ m \in reads
  BY <1>1
<1>5. \E n \in Objects : reads \subseteq Family(Directed, n)
  BY <1>3
<1>6. (query.dims \cup query.where) \cap Family(Directed, m) \subseteq reads
  BY <1>3
<1>7. Leg(m) = [reads |-> reads, lead |-> lead, path |-> path, deduped |-> twice]
  BY DEF Leg
<1> HIDE DEF reads
<1>8. lead \in Objects /\ reads \subseteq Family(Directed, lead)
  BY <1>4, <1>5, CommonRootIs
<1> HIDE DEF lead
<1>9. Grown({lead}, path) /\ reads \subseteq {lead} \cup Sides(ToSet(path))
  <2>1. \A t \in reads : Reachable({lead}, t)
    <3> TAKE t \in reads
    <3>1. t \in Family(Traversable, lead)
      BY <1>2, <1>8, FamilyWidens
    <3> QED BY <3>1 DEF Reachable
  <2>2. {lead} \subseteq Objects
    BY <1>8
  <2> QED BY <2>1, <2>2, <1>4, <1>8, JoinPathIs
<1> HIDE DEF path
<1>10. path \in Seq(Step)
  BY <1>9 DEF Grown
<1>11. twice \in BOOLEAN
  OBVIOUS
<1>12. Leg(m).reads = reads /\ Leg(m).lead = lead /\ Leg(m).path = path /\ Leg(m).deduped = twice
  <2> HIDE DEF twice
  <2> QED BY <1>7
<1>13. Leg(m) \in Legs
  <2> HIDE DEF twice
  <2> QED BY <1>4, <1>7, <1>8, <1>10, <1>11 DEF Legs
<1>14. SoundLeg(Leg(m), m)
  BY <1>8, <1>9, <1>12 DEF SoundLeg
<1> QED BY <1>6, <1>12, <1>13, <1>14

\* PlanUnion keeps it.
LEMMA PlanUnionKeeps ==
    ASSUME PlanInv, PlanUnion
    PROVE  PlanInv'
<1>1. /\ phase = "resolved" /\ union
      /\ UNCHANGED <<joins, query, base, required, union, steps, reached, walked, deduped, warned>>
      /\ \/ phase' = "refused" /\ refusals' = {"unreachable"} /\ UNCHANGED legs
         \/ /\ query.dims \subseteq UNION {Family(Directed, m) : m \in query.measures}
            /\ phase' = "planned"
            /\ legs' = [m \in query.measures |-> Leg(m)]
            /\ UNCHANGED refusals
  BY DEF PlanUnion
<1>2. CASE phase' = "refused" /\ refusals' = {"unreachable"} /\ UNCHANGED legs
  <2>1. ~OneFactCovered /\ base \in query.measures
    BY <1>1 DEF PlanInv, OneFactKept, BaseKept
  <2> QED BY <1>1, <1>2, <2>1, RefusedKeeps
<1>3. CASE /\ query.dims \subseteq UNION {Family(Directed, m) : m \in query.measures}
           /\ phase' = "planned"
           /\ legs' = [m \in query.measures |-> Leg(m)]
           /\ UNCHANGED refusals
  <2>1. /\ ModelKept' /\ BaseKept' /\ PathKept' /\ FirstPathKept' /\ FilterKept' /\ OneFactKept'
        /\ query \in QueryObjects /\ JoinsOK /\ refusals = {}
        /\ deduped = {} /\ warned = {} /\ legs = <<>>
    BY <1>1, <1>3, ResolutionStays
  <2>2. \A m \in query.measures :
           /\ Leg(m) \in Legs
           /\ SoundLeg(Leg(m), m)
           /\ (query.dims \cup query.where) \cap Family(Directed, m) \subseteq Leg(m).reads
    BY <2>1, LegIs
  <2>3. PICK L : L = [m \in query.measures |-> Leg(m)]
    OBVIOUS
  <2>4. L \in [query.measures -> Legs]
    BY <2>2, <2>3
  <2>5. \A m \in query.measures :
           /\ SoundLeg(L[m], m)
           /\ (query.dims \cup query.where) \cap Family(Directed, m) \subseteq L[m].reads
    BY <2>2, <2>3
  <2>6. legs' = L
    BY <1>3, <2>3
  <2>7. legs' \in [query'.measures -> [reads : SUBSET Objects, lead : Objects,
                                       path : Seq(Step), deduped : BOOLEAN]]
    BY <1>1, <2>4, <2>6 DEF Legs
  <2>8. PlanTypeOK'
    BY <1>1, <1>3, <2>1, <2>7 DEF PlanInv, PlanTypeOK
  <2>9. QueryKept'
    BY <1>1, <1>3, <2>1 DEF QueryKept
  <2>10. StarKept'
    BY <1>1 DEF StarKept
  <2>11. LegsKept'
    <3>1. \A m \in query'.measures : SoundLeg(legs[m], m)'
      <4> TAKE m \in query'.measures
      <4>1. SoundLeg(L[m], m)
        BY <1>1, <2>5
      <4> QED BY <4>1, <1>1, <2>6 DEF SoundLeg, Grown, Real, Rooted
    <3>2. query'.dims \subseteq UNION {legs'[m].reads : m \in query'.measures}
      <4>1. \A d \in query.dims : \E m \in query.measures : d \in L[m].reads
        BY <1>3, <2>5
      <4> QED BY <4>1, <1>1, <2>6
    <3>3. \/ query'.where \subseteq UNION {legs'[m].reads : m \in query'.measures}
          \/ \E s \in walked' : s.reversed
      <4>1. \/ \A o \in query.where : \E m \in query.measures : o \in Family(Directed, m)
            \/ \E s \in walked : s.reversed
        BY <1>1 DEF PlanInv, FilterKept
      <4>2. \/ \A o \in query.where : \E m \in query.measures : o \in L[m].reads
            \/ \E s \in walked : s.reversed
        BY <4>1, <2>5
      <4> QED BY <4>2, <1>1, <2>6
    <3> QED BY <3>1, <3>2, <3>3 DEF LegsKept
  <2> QED BY <2>1, <2>8, <2>9, <2>10, <2>11 DEF PlanInv
<1> QED BY <1>1, <1>2, <1>3

\* ReturnPlan keeps it.
LEMMA ReturnPlanKeeps ==
    ASSUME PlanInv, ReturnPlan
    PROVE  PlanInv'
<1>1. /\ phase' = "idle" /\ query' = NoQuery /\ base' = 1 /\ required' = {} /\ union' = FALSE
      /\ steps' = <<>> /\ reached' = {} /\ walked' = {} /\ refusals' = {} /\ deduped' = {}
      /\ warned' = {} /\ legs' = <<>> /\ joins' = joins
  BY DEF ReturnPlan
<1>2. PlanTypeOK'
  <2>1. 1 \in Objects
    BY NPos DEF Objects
  <2>2. <<>> \in Seq(Step)
    OBVIOUS
  <2> QED BY <1>1, <2>1, <2>2 DEF PlanInv, PlanTypeOK
<1>3. ModelKept'
  BY <1>1 DEF PlanInv, ModelKept, Acyclic, Directed
<1>4. QueryKept' /\ BaseKept'
  BY <1>1 DEF QueryKept, BaseKept
<1>5. PathKept' /\ FirstPathKept' /\ FilterKept' /\ StarKept' /\ LegsKept' /\ OneFactKept'
  BY <1>1 DEF PathKept, FirstPathKept, FilterKept, StarKept, LegsKept, OneFactKept
<1> QED BY <1>2, <1>3, <1>4, <1>5 DEF PlanInv

\* A step of others keeps it.
LEMMA PlanStutterKeeps ==
    ASSUME PlanInv, UNCHANGED planVars
    PROVE  PlanInv'
<1>1. /\ joins' = joins /\ query' = query /\ phase' = phase /\ base' = base /\ required' = required
      /\ union' = union /\ steps' = steps /\ reached' = reached /\ walked' = walked
      /\ refusals' = refusals /\ deduped' = deduped /\ warned' = warned /\ legs' = legs
  BY DEF planVars
<1>2. PlanTypeOK' /\ ModelKept' /\ QueryKept' /\ BaseKept'
  BY <1>1 DEF PlanInv, PlanTypeOK, ModelKept, Acyclic, Directed, QueryKept, BaseKept
<1>3. PathKept' /\ FirstPathKept'
  BY <1>1 DEF PlanInv, PathKept, FirstPathKept, Grown, Real, Rooted, BehindBackwardStep, Directed
<1>4. FilterKept' /\ OneFactKept' /\ StarKept'
  BY <1>1 DEF PlanInv, FilterKept, BehindBackwardStep, OneFactKept, OneFactCovered, StarKept, Directed
<1>5. LegsKept'
  BY <1>1 DEF PlanInv, LegsKept, SoundLeg, Grown, Real, Rooted
<1> QED BY <1>2, <1>3, <1>4, <1>5 DEF PlanInv

\* PlanInv is an invariant of every compilation, for every model and query.
THEOREM PlanInvariance == PlanSpec => []PlanInv
<1>1. PlanInit => PlanInv
  BY PlanInitInv
<1>2. PlanInv /\ [PlanNext]_planVars => PlanInv'
  BY AskKeeps, SelectBaseKeeps, JoinRequiredKeeps, ResolveFilterKeeps, DetectReplicationKeeps,
     PlanUnionKeeps, ReturnPlanKeeps, PlanStutterKeeps DEF PlanNext
<1> QED BY <1>1, <1>2, PTL DEF PlanSpec

\* PlanTypeOK holds: every variable of a compilation has its type.
THEOREM PlanTypesHold == PlanSpec => []PlanTypeOK
<1>1. PlanInv => PlanTypeOK
  BY DEF PlanInv
<1> QED BY <1>1, PlanInvariance, PTL

\* CommonRootSuffices holds: one fact is not refused as unreachable where some
\* object reaches all the query names, but for a path walked backwards.
THEOREM CommonRootAlwaysSuffices == PlanSpec => []CommonRootSuffices
<1>1. PlanInv => CommonRootSuffices
  <2> SUFFICES ASSUME PlanInv, phase = "refused", Cardinality(query.measures) = 1,
                      "ambiguous" \notin refusals,
                      NEW n \in Objects,
                      query.measures \cup query.dims \cup query.where \subseteq Family(Directed, n)
               PROVE  refusals = {"fanout"} \/ \E s \in ToSet(steps) : s.reversed
    BY DEF CommonRootSuffices
  <2>1. OneFactCovered
    BY DEF OneFactCovered
  <2> QED BY <2>1 DEF PlanInv, OneFactKept
<1> QED BY <1>1, PlanInvariance, PTL

\* What a piece of SQL joins holds all it reads, but for what lies behind a
\* join walked backwards.
LEMMA JoinsAreHeld ==
    ASSUME JoinsOK, NEW reads, NEW from, NEW R, R \subseteq from.joined, NEW st, from.emitted \subseteq ToSet(st),
           \A o \in reads \cup Sides(ToSet(st)) : o \in R \/ BehindBackwardStep(o, R)
    PROVE  JoinsHold(reads, from)
<1>1. Sides(from.emitted) \subseteq Sides(ToSet(st))
  BY SidesGrow
<1>2. \A o : BehindBackwardStep(o, R) => BehindBackwardStep(o, from.joined)
  BY DEF BehindBackwardStep
<1> QED BY <1>1, <1>2 DEF JoinsHold

\* ReadsAreJoined holds: the SQL of every plan reads only what it joins.
THEOREM ReadsAreAlwaysJoined == PlanSpec => []ReadsAreJoined
<1>1. ASSUME PlanInv, Planned, ~union
      PROVE  /\ JoinsHold(query.where, StarJoins)
             /\ query.measures \cup query.dims \subseteq StarJoins.joined
  <2>1. phase = "planned"
    BY <1>1 DEF Planned
  <2>2. /\ JoinsOK /\ steps \in Seq(Step) /\ base \in Objects
        /\ reached = {base} \cup {s.to : s \in ToSet(steps)}
        /\ \A o \in Sides(ToSet(steps)) : o \in reached \/ BehindBackwardStep(o, reached)
        /\ refusals = {} /\ required \subseteq reached
        /\ \A o \in query.where : o \in reached \/ BehindBackwardStep(o, reached)
        /\ query.measures \cup query.dims \subseteq required
    BY <1>1, <2>1, ModelOK DEF PlanInv, PlanTypeOK, PathKept, FilterKept, BaseKept
  <2>3. reached \subseteq StarJoins.joined /\ StarJoins.emitted \subseteq ToSet(steps)
    BY <2>2, StarReaches
  <2>4. \A o \in query.where \cup Sides(ToSet(steps)) : o \in reached \/ BehindBackwardStep(o, reached)
    BY <2>2
  <2>5. JoinsHold(query.where, StarJoins)
    BY <2>2, <2>3, <2>4, JoinsAreHeld
  <2> QED BY <2>2, <2>3, <2>5
<1>2. ASSUME PlanInv, Planned, union
      PROVE  /\ \A m \in query.measures : JoinsHold(legs[m].reads, LegJoins(legs[m]))
             /\ query.dims \subseteq UNION {legs[m].reads : m \in query.measures}
             /\ \/ query.where \subseteq UNION {legs[m].reads : m \in query.measures}
                \/ \E s \in walked : s.reversed
  <2>1. phase = "planned" /\ JoinsOK
    BY <1>2, ModelOK DEF Planned, PlanInv
  <2>2. /\ \A m \in query.measures : SoundLeg(legs[m], m)
        /\ query.dims \subseteq UNION {legs[m].reads : m \in query.measures}
        /\ \/ query.where \subseteq UNION {legs[m].reads : m \in query.measures}
           \/ \E s \in walked : s.reversed
    BY <1>2, <2>1 DEF PlanInv, LegsKept
  <2>3. ASSUME NEW m \in query.measures
        PROVE  JoinsHold(legs[m].reads, LegJoins(legs[m]))
    <3>1. PICK leg, S : leg = legs[m] /\ S = {leg.lead}
      OBVIOUS
    <3>2. /\ leg.lead \in Objects
          /\ Grown(S, leg.path)
          /\ leg.reads \subseteq S \cup Sides(ToSet(leg.path))
          /\ leg.path \in Seq(Step)
      BY <2>2, <3>1 DEF SoundLeg, Grown
    <3>3. PICK R : R = S \cup {s.to : s \in ToSet(leg.path)}
      OBVIOUS
    <3>4. R \subseteq LegJoins(leg).joined /\ LegJoins(leg).emitted \subseteq ToSet(leg.path)
      BY <3>1, <3>2, <3>3, LegReaches
    <3>5. S \subseteq R /\ {s.to : s \in ToSet(leg.path)} \subseteq R
      BY <3>3
    <3>6. \A o \in S \cup Sides(ToSet(leg.path)) : o \in R \/ BehindBackwardStep(o, R)
      BY <2>1, <3>2, <3>5, SidesReached
    <3>7. \A o \in leg.reads \cup Sides(ToSet(leg.path)) : o \in R \/ BehindBackwardStep(o, R)
      BY <3>2, <3>6
    <3>8. JoinsHold(leg.reads, LegJoins(leg))
      BY <2>1, <3>4, <3>7, JoinsAreHeld
    <3> QED BY <3>1, <3>8
  <2> QED BY <2>2, <2>3
<1>3. PlanInv => ReadsAreJoined
  BY <1>1, <1>2 DEF ReadsAreJoined
<1> QED BY <1>3, PlanInvariance, PTL

\* In a star, the sum repeated by a many-to-one join is deduplicated.
LEMMA StarSumsWhole ==
    ASSUME PlanInv, Planned, ~union, NEW m \in query.measures \ (deduped \cup warned),
           Repeated(m, StarJoins.emitted),
           \A s \in StarJoins.emitted : s.card = "many-to-many" => Origin(s) = m
    PROVE  LosesReplication
<1> SUFFICES ASSUME ~LosesReplication PROVE FALSE
  OBVIOUS
<1>1. phase = "planned" /\ JoinsOK /\ steps \in Seq(Step) /\ base \in Objects /\ query \in QueryObjects
  BY ModelOK DEF Planned, PlanInv, PlanTypeOK, QueryKept
<1>2. /\ ToSet(steps) \subseteq walked
      /\ Grown({base}, steps) \/ \E s \in walked : s.reversed /\ s \notin ToSet(steps)
      /\ deduped = query.measures \cap Replicated(steps)
      /\ \A s \in ToSet(steps) : CausesFanout(s) /\ Origin(s) \in query.measures => Origin(s) \in warned
  BY <1>1 DEF PlanInv, PathKept, StarKept
<1>3. \A s \in walked : s.reversed => s \in ToSet(steps) /\ Origin(s) \notin Replicated(steps)
  BY DEF LosesReplication
<1>4. Grown({base}, steps) /\ \A s \in ToSet(steps) : s.reversed => Origin(s) \notin Replicated(steps)
  BY <1>2, <1>3
<1>5. StarJoins.emitted \subseteq ToSet(steps)
  BY <1>1, StarReaches
<1>6. PICK f \in Emissions(base, steps) : StarJoins = f[Len(steps)]
  BY <1>1, <1>4, StarEmits
<1>7. m \in Objects
  BY <1>1, QueryIs
<1>8. PICK s \in StarJoins.emitted :
          \/ s.card = "many-to-many"
          \/ s.card = "many-to-one" /\ s.to \in Family(Apart(s, StarJoins.emitted), m)
  BY DEF Repeated, Apart
<1>9. s \in ToSet(steps) /\ Real(s)
  BY <1>4, <1>5 DEF Grown
<1>10. CASE s.card = "many-to-many"
  <2>1. CausesFanout(s) /\ Origin(s) = m
    BY <1>10 DEF CausesFanout
  <2> QED BY <2>1, <1>2, <1>9
<1>11. CASE s.card = "many-to-one" /\ s.to \in Family(Apart(s, StarJoins.emitted), m)
  <2>1. ~s.reversed /\ s.card # "one-to-one"
    BY <1>9, <1>11 DEF Real
  <2>2. s \in f[Len(steps)].emitted /\ s.to \in Family(Apart(s, f[Len(steps)].emitted), m)
    BY <1>6, <1>11
  <2>3. m \in Replicated(steps)
    BY <2>1, <2>2, <1>1, <1>4, <1>7, BeyondIsReplicated
  <2> QED BY <2>3, <1>2
<1> QED BY <1>8, <1>10, <1>11

\* In a leg likewise.
LEMMA LegSumsWhole ==
    ASSUME JoinsOK, NEW leg, NEW m \in Objects, SoundLeg(leg, m), ~leg.deduped,
           Repeated(m, LegJoins(leg).emitted),
           \A s \in LegJoins(leg).emitted : s.card # "many-to-many"
    PROVE  \E s \in ToSet(leg.path) : s.reversed
<1> SUFFICES ASSUME \A s \in ToSet(leg.path) : ~s.reversed PROVE FALSE
  OBVIOUS
<1>1. leg.lead \in Objects /\ Grown({leg.lead}, leg.path) /\ leg.path \in Seq(Step)
      /\ m \notin Replicated(leg.path)
  BY DEF SoundLeg, Grown
<1>2. LegJoins(leg).emitted \subseteq ToSet(leg.path)
  BY <1>1, LegReaches
<1>3. PICK f \in Emissions(leg.lead, leg.path) : LegJoins(leg) = f[Len(leg.path)]
  BY <1>1, LegEmits
<1>4. PICK s \in LegJoins(leg).emitted :
          s.card = "many-to-one" /\ s.to \in Family(Apart(s, LegJoins(leg).emitted), m)
  BY DEF Repeated, Apart
<1>5. ~s.reversed /\ s.card # "one-to-one"
  BY <1>2, <1>4
<1>6. s \in f[Len(leg.path)].emitted /\ s.to \in Family(Apart(s, f[Len(leg.path)].emitted), m)
  BY <1>3, <1>4
<1> QED BY <1>1, <1>5, <1>6, BeyondIsReplicated

\* SumsWhole holds: a planned sum counts each row of its object once.
THEOREM SumsAreWhole == PlanSpec => []SumsWhole
<1>1. ASSUME PlanInv, Planned, NEW m \in Inflated, union
      PROVE  \/ \E s \in LegJoins(legs[m]).emitted : s.card = "many-to-many"
             \/ \E s \in ToSet(legs[m].path) : s.reversed
  <2>1. phase = "planned" /\ JoinsOK /\ query \in QueryObjects
    BY <1>1, ModelOK DEF Planned, PlanInv, QueryKept
  <2>2. m \in query.measures /\ ~legs[m].deduped /\ Repeated(m, LegJoins(legs[m]).emitted)
    BY <1>1 DEF Inflated
  <2>3. SoundLeg(legs[m], m) /\ m \in Objects
    BY <1>1, <2>1, <2>2, QueryIs DEF PlanInv, LegsKept
  <2> QED BY <2>1, <2>2, <2>3, LegSumsWhole
<1>2. ASSUME PlanInv, Planned, NEW m \in Inflated, ~union
      PROVE  \/ \E s \in StarJoins.emitted : s.card = "many-to-many" /\ Origin(s) # m
             \/ LosesReplication
  <2>1. m \in query.measures \ (deduped \cup warned) /\ Repeated(m, StarJoins.emitted)
    BY <1>2 DEF Inflated
  <2> QED BY <1>2, <2>1, StarSumsWhole
<1>3. PlanInv => SumsWhole
  BY <1>1, <1>2 DEF SumsWhole
<1> QED BY <1>3, PlanInvariance, PTL
=============================================================================
