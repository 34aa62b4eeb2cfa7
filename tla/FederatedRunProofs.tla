------------------------- MODULE FederatedRunProofs -------------------------
(***************************************************************************)
(* FederatedRun: its types, that work is never left behind by the slot it  *)
(* runs under, and that connections and threads are accounted for exactly, *)
(* for any number of queries, legs, sources and threads.                   *)
(***************************************************************************)
EXTENDS FederatedRun, SequenceTheorems, FiniteSetTheorems, TLAPS

-----------------------------------------------------------------------------
(* Lines: what joining, serving the head of and leaving one do to it       *)

\* The line s has nobody twice, and u in front of c.
Once(s) == \A j, k \in 1..Len(s) : s[j] = s[k] => j = k
Precedes(s, u, c) == \E k \in 1..Len(s) : \E j \in 1..(k - 1) : s[j] = u /\ s[k] = c

\* Who joins a line comes behind everybody in it.
LEMMA Joined ==
    ASSUME NEW S, NEW s \in Seq(S), NEW t \in S, t \notin ToSet(s), Once(s)
    PROVE  LET r == Append(s, t) IN
           /\ r \in Seq(S) /\ Once(r)
           /\ ToSet(r) = ToSet(s) \cup {t}
           /\ \A u, c : Precedes(r, u, c) <=> IF c = t THEN u \in ToSet(s) ELSE Precedes(s, u, c)
<1> DEFINE r == Append(s, t)
<1>1. /\ r \in Seq(S) /\ Len(s) \in Nat /\ Len(r) = Len(s) + 1
      /\ DOMAIN r = 1..(Len(s) + 1) /\ DOMAIN s = 1..Len(s)
      /\ \A k \in 1..Len(s) : r[k] = s[k]
      /\ r[Len(s) + 1] = t
  OBVIOUS
<1> HIDE DEF r
<1>2. ToSet(r) = ToSet(s) \cup {t} /\ \A k \in 1..Len(s) : s[k] # t
  BY <1>1 DEF ToSet
<1>3. Once(r)
  BY <1>1, <1>2 DEF Once
<1>4. ASSUME NEW u, NEW c
      PROVE  Precedes(r, u, c) <=> IF c = t THEN u \in ToSet(s) ELSE Precedes(s, u, c)
  <2>1. u \in ToSet(s) <=> \E j \in 1..Len(s) : s[j] = u
    BY <1>1 DEF ToSet
  <2>2. CASE c = t
    <3>1. Precedes(r, u, t) <=> \E j \in 1..Len(s) : s[j] = u
      BY <1>1, <1>2 DEF Precedes
    <3> QED BY <2>1, <2>2, <3>1
  <2>3. CASE c # t
    <3>1. Precedes(r, u, c) => Precedes(s, u, c)
      BY <1>1, <2>3 DEF Precedes
    <3>2. Precedes(s, u, c) => Precedes(r, u, c)
      BY <1>1 DEF Precedes
    <3> QED BY <2>3, <3>1, <3>2
  <2> QED BY <2>2, <2>3
<1> QED BY <1>1, <1>2, <1>3, <1>4 DEF r

\* Who leaves a line, from any place in it, changes nothing for the others.
LEMMA Dropped ==
    ASSUME NEW S, NEW s \in Seq(S), Once(s), NEW k \in 1..Len(s),
           NEW r \in Seq(S), Len(r) = Len(s) - 1,
           \A i \in 1..Len(r) : r[i] = IF i < k THEN s[i] ELSE s[i + 1]
    PROVE  /\ Once(r)
           /\ ToSet(r) = ToSet(s) \ {s[k]}
           /\ \A u, c : Precedes(r, u, c) <=> u # s[k] /\ c # s[k] /\ Precedes(s, u, c)
<1> DEFINE Old(i) == IF i < k THEN i ELSE i + 1
<1>1. /\ Len(s) \in Nat /\ Len(r) \in Nat /\ k \in Nat /\ k >= 1 /\ k <= Len(s)
      /\ DOMAIN s = 1..Len(s) /\ DOMAIN r = 1..Len(r)
  OBVIOUS
<1>2. \A i \in 1..Len(r) : Old(i) \in 1..Len(s) /\ r[i] = s[Old(i)] /\ s[Old(i)] # s[k]
  BY <1>1 DEF Once
<1>3. \A i, j \in 1..Len(r) : i < j <=> Old(i) < Old(j)
  BY <1>1
<1>4. \A i \in 1..Len(s) : i # k => \E j \in 1..Len(r) : Old(j) = i
  <2> SUFFICES ASSUME NEW i \in 1..Len(s), i # k PROVE \E j \in 1..Len(r) : Old(j) = i
    OBVIOUS
  <2>1. CASE i < k
    <3>1. i \in 1..Len(r) /\ Old(i) = i
      BY <1>1, <2>1
    <3> QED BY <3>1
  <2>2. CASE i > k
    <3>1. i - 1 \in 1..Len(r) /\ Old(i - 1) = i
      BY <1>1, <2>2
    <3> QED BY <3>1
  <2> QED BY <2>1, <2>2
<1>5. \A i \in 1..Len(r) : Old(i) \in Nat /\ i \in Nat
  BY <1>1
<1>6. \A i, j \in 1..Len(r) : Old(i) = Old(j) => i = j
  BY <1>1
<1> HIDE DEF Old
<1>7. Once(r)
  BY <1>2, <1>6 DEF Once
<1>8. ToSet(r) = ToSet(s) \ {s[k]}
  <2>1. \A x \in ToSet(r) : x \in ToSet(s) /\ x # s[k]
    BY <1>1, <1>2 DEF ToSet
  <2>2. ASSUME NEW i \in 1..Len(s), s[i] # s[k] PROVE s[i] \in ToSet(r)
    <3>1. PICK j \in 1..Len(r) : Old(j) = i
      BY <1>4, <2>2
    <3> QED BY <1>1, <1>2, <3>1 DEF ToSet
  <2>3. \A x \in ToSet(s) : x # s[k] => x \in ToSet(r)
    BY <1>1, <2>2 DEF ToSet
  <2> QED BY <2>1, <2>3
<1>9. ASSUME NEW u, NEW c
      PROVE  Precedes(r, u, c) <=> u # s[k] /\ c # s[k] /\ Precedes(s, u, c)
  <2>1. ASSUME Precedes(r, u, c) PROVE u # s[k] /\ c # s[k] /\ Precedes(s, u, c)
    <3>1. PICK b \in 1..Len(r) : \E a \in 1..(b - 1) : r[a] = u /\ r[b] = c
      BY <2>1 DEF Precedes
    <3>2. PICK a \in 1..(b - 1) : r[a] = u /\ r[b] = c
      BY <3>1
    <3>3. a \in 1..Len(r) /\ a < b
      BY <1>1
    <3>4. Old(a) \in 1..(Old(b) - 1)
      BY <1>2, <1>3, <1>5, <3>3
    <3> QED BY <1>2, <3>2, <3>3, <3>4 DEF Precedes
  <2>2. ASSUME u # s[k], c # s[k], Precedes(s, u, c) PROVE Precedes(r, u, c)
    <3>1. PICK b \in 1..Len(s) : \E a \in 1..(b - 1) : s[a] = u /\ s[b] = c
      BY <2>2 DEF Precedes
    <3>2. PICK a \in 1..(b - 1) : s[a] = u /\ s[b] = c
      BY <3>1
    <3>3. a \in 1..Len(s) /\ a < b /\ a # k /\ b # k
      BY <1>1, <2>2, <3>2
    <3>4. PICK i \in 1..Len(r) : Old(i) = a
      BY <1>4, <3>3
    <3>5. PICK j \in 1..Len(r) : Old(j) = b
      BY <1>4, <3>3
    <3>6. i \in 1..(j - 1)
      BY <1>1, <1>3, <3>3, <3>4, <3>5
    <3> QED BY <1>2, <3>2, <3>4, <3>5, <3>6 DEF Precedes
  <2> QED BY <2>1, <2>2
<1> QED BY <1>7, <1>8, <1>9

\* The first in line leaves it: nobody was in front of it.
LEMMA HeadDropped ==
    ASSUME NEW S, NEW s \in Seq(S), Once(s), s # <<>>
    PROVE  /\ Tail(s) \in Seq(S) /\ Once(Tail(s))
           /\ Head(s) \in S /\ Head(s) \in ToSet(s)
           /\ ToSet(Tail(s)) = ToSet(s) \ {Head(s)}
           /\ \A u, c : Precedes(Tail(s), u, c) <=>
                           u # Head(s) /\ c # Head(s) /\ Precedes(s, u, c)
           /\ \A u : ~Precedes(s, u, Head(s))
<1>1. /\ 1 \in 1..Len(s) /\ Head(s) = s[1] /\ s[1] \in S /\ DOMAIN s = 1..Len(s)
      /\ Tail(s) \in Seq(S) /\ Len(Tail(s)) = Len(s) - 1 /\ Len(s) \in Nat
      /\ \A i \in 1..Len(Tail(s)) : Tail(s)[i] = s[i + 1]
  OBVIOUS
<1>2. \A i \in 1..Len(Tail(s)) : Tail(s)[i] = IF i < 1 THEN s[i] ELSE s[i + 1]
  BY <1>1
<1>3. /\ Once(Tail(s)) /\ ToSet(Tail(s)) = ToSet(s) \ {s[1]}
      /\ \A u, c : Precedes(Tail(s), u, c) <=> u # s[1] /\ c # s[1] /\ Precedes(s, u, c)
  BY <1>1, <1>2, Dropped
<1>4. \A u : ~Precedes(s, u, s[1])
  BY <1>1 DEF Precedes, Once
<1>5. s[1] \in ToSet(s)
  BY <1>1 DEF ToSet
<1> QED BY <1>1, <1>3, <1>4, <1>5

\* RemoveAt takes one out of the line.
LEMMA PlaceDropped ==
    ASSUME NEW S, NEW s \in Seq(S), Once(s), NEW k \in 1..Len(s)
    PROVE  /\ RemoveAt(s, k) \in Seq(S) /\ Once(RemoveAt(s, k))
           /\ s[k] \in S /\ s[k] \in ToSet(s)
           /\ ToSet(RemoveAt(s, k)) = ToSet(s) \ {s[k]}
           /\ \A u, c : Precedes(RemoveAt(s, k), u, c) <=>
                           u # s[k] /\ c # s[k] /\ Precedes(s, u, c)
<1> DEFINE a == SubSeq(s, 1, k - 1)
           b == SubSeq(s, k + 1, Len(s))
           r == RemoveAt(s, k)
<1>1. /\ a \in Seq(S) /\ Len(a) = k - 1 /\ \A i \in 1..(k - 1) : a[i] = s[i]
      /\ b \in Seq(S) /\ Len(b) = Len(s) - k
      /\ \A i \in 1..(Len(s) - k) : b[i] = s[k + i]
      /\ s[k] \in S /\ DOMAIN s = 1..Len(s) /\ Len(s) \in Nat
  OBVIOUS
<1> HIDE DEF a, b
<1>2. /\ a \o b \in Seq(S) /\ Len(a \o b) = Len(s) - 1
      /\ \A i \in 1..(Len(s) - 1) : (a \o b)[i] = IF i <= k - 1 THEN a[i] ELSE b[i - (k - 1)]
  <2>1. /\ a \o b \in Seq(S) /\ Len(a \o b) = Len(a) + Len(b)
        /\ \A i \in 1..(Len(a) + Len(b)) :
              (a \o b)[i] = IF i <= Len(a) THEN a[i] ELSE b[i - Len(a)]
    BY <1>1, ConcatProperties
  <2>2. Len(a) + Len(b) = Len(s) - 1
    BY <1>1
  <2> QED BY <1>1, <2>1, <2>2
<1>3. r = a \o b
  BY DEF RemoveAt, a, b
<1> HIDE DEF r
<1>4. \A i \in 1..Len(r) : r[i] = IF i < k THEN s[i] ELSE s[i + 1]
  <2> SUFFICES ASSUME NEW i \in 1..(Len(s) - 1)
               PROVE  (a \o b)[i] = IF i < k THEN s[i] ELSE s[i + 1]
    BY <1>2, <1>3
  <2>1. CASE i < k
    BY <1>1, <1>2, <2>1
  <2>2. CASE ~(i < k)
    <3>1. i - (k - 1) \in 1..(Len(s) - k) /\ k + (i - (k - 1)) = i + 1
      BY <1>1, <2>2
    <3> QED BY <1>1, <1>2, <2>2, <3>1
  <2> QED BY <2>1, <2>2
<1>5. r \in Seq(S) /\ Len(r) = Len(s) - 1
  BY <1>2, <1>3
<1>6. /\ Once(r) /\ ToSet(r) = ToSet(s) \ {s[k]}
      /\ \A u, c : Precedes(r, u, c) <=> u # s[k] /\ c # s[k] /\ Precedes(s, u, c)
  BY <1>4, <1>5, Dropped
<1>7. s[k] \in ToSet(s)
  BY <1>1 DEF ToSet
<1> QED BY <1>1, <1>5, <1>6, <1>7 DEF r

-----------------------------------------------------------------------------
(* The inductive invariant                                                 *)

\* Who has to do with a limiter: no client is in it twice.
Members(slots) == slots.holders \cup ToSet(slots.line)
Sound(slots) ==
    /\ slots.holders \cap ToSet(slots.line) = {}
    /\ \A j, k \in 1..Len(slots.line) : slots.line[j] = slots.line[k] => j = k

\* A query is at the gate from request to release, with a slot once it runs.
GateInv ==
    /\ Sound(gate)
    /\ \A q \in Queries :
          /\ q \in Members(gate) <=> stage[q] # "idle"
          /\ stage[q] \notin {"idle", "waiting"} => q \in gate.holders

Active == {"asked", "queued", "running", "spilling"}

\* A leg is at work only in the gather its query waits for, the combine step
\* only while the query waits for it.
WorkInv ==
    /\ \A t \in LegTasks :
          at[t] \in Active => stage[t[1]] \in {"first", "rest"} /\ t \in Gathered(t[1])
    /\ \A q \in Queries :
          /\ at[<<q, Combine>>] \in {"none", "queued", "running", "done"}
          /\ at[<<q, Combine>>] \in {"queued", "running"} => stage[q] = "combine"

\* The pool's queue holds the queued tasks, each once.
PoolInv ==
    /\ \A k \in 1..Len(pool) : at[pool[k]] = "queued"
    /\ \A j, k \in 1..Len(pool) : pool[j] = pool[k] => j = k

\* A leg is in its source's line or has one of its slots while it is on a
\* thread; it spills only with a slot.
ConnInv ==
    /\ \A s \in Sources : Sound(conn[s])
    /\ \A s \in Sources, t \in LegTasks :
          t \in Members(conn[s]) <=> s = SourceOf(t) /\ at[t] \in {"running", "spilling"}
    /\ \A t \in LegTasks : at[t] = "spilling" => Holding(t)

ThreadInv == Cardinality(OnThreads) <= Threads

Inv == TypeOK /\ GateInv /\ WorkInv /\ PoolInv /\ ConnInv /\ ThreadInv

-----------------------------------------------------------------------------
(* Limiters                                                                *)

LEMMA EnteredSlots ==
    ASSUME NEW S, NEW slots \in Slots(S), Sound(slots), NEW c \in S,
           c \notin Members(slots), NEW limit \in Nat
    PROVE  LET r == Entered(slots, c, limit) IN
           /\ r \in Slots(S) /\ Sound(r)
           /\ Members(r) = Members(slots) \cup {c}
           /\ slots.holders \subseteq r.holders
<1> DEFINE r == Entered(slots, c, limit)
<1>1. CASE limit = 0 \/ (Cardinality(slots.holders) < limit /\ slots.line = <<>>)
  <2>1. r = [holders |-> slots.holders \cup {c}, line |-> slots.line]
    BY <1>1 DEF Entered, Slots
  <2> QED BY <2>1 DEF Slots, Sound, Members
<1>2. CASE ~(limit = 0 \/ (Cardinality(slots.holders) < limit /\ slots.line = <<>>))
  <2> DEFINE line == Append(slots.line, c)
  <2>1. r = [holders |-> slots.holders, line |-> line]
    BY <1>2 DEF Entered, Slots
  <2>2. slots.line \in Seq(S)
    BY DEF Slots
  <2>3. /\ line \in Seq(S) /\ ToSet(line) = ToSet(slots.line) \cup {c}
        /\ Once(line)
    <3>1. c \notin ToSet(slots.line) /\ Once(slots.line)
      BY DEF Members, Sound, Once
    <3> QED BY <2>2, <3>1, Joined
  <2>6. c \notin slots.holders /\ slots.holders \cap ToSet(slots.line) = {}
    BY DEF Members, Sound
  <2> HIDE DEF line
  <2> QED BY <2>1, <2>3, <2>6 DEF Slots, Sound, Members, Once
<1> QED BY <1>1, <1>2

LEMMA LeftSlots ==
    ASSUME NEW S, NEW slots \in Slots(S), Sound(slots), NEW c \in slots.holders
    PROVE  LET r == Left(slots, c) IN
           /\ r \in Slots(S) /\ Sound(r)
           /\ Members(r) = Members(slots) \ {c}
           /\ slots.holders \ {c} \subseteq r.holders
<1> DEFINE r == Left(slots, c)
<1>0. slots.line \in Seq(S) /\ slots.holders \subseteq S /\ c \notin ToSet(slots.line)
  BY DEF Slots, Sound
<1>1. CASE slots.line = <<>>
  <2>1. r = [holders |-> slots.holders \ {c}, line |-> slots.line]
    BY <1>1 DEF Left, Slots
  <2> QED BY <1>0, <2>1 DEF Slots, Sound, Members
<1>2. CASE slots.line # <<>>
  <2> DEFINE line == Tail(slots.line)
             first == Head(slots.line)
  <2>1. r = [holders |-> (slots.holders \ {c}) \cup {first}, line |-> line]
    BY <1>2 DEF Left
  <2>2. /\ line \in Seq(S) /\ first \in S /\ first \in ToSet(slots.line)
        /\ ToSet(line) = ToSet(slots.line) \ {first}
        /\ \A j, k \in 1..Len(line) : line[j] = line[k] => j = k
    BY <1>0, <1>2, HeadDropped DEF Sound, Once
  <2>3. slots.holders \cap ToSet(slots.line) = {}
    BY DEF Sound
  <2> HIDE DEF line, first
  <2> QED BY <1>0, <2>1, <2>2, <2>3 DEF Slots, Sound, Members
<1> QED BY <1>1, <1>2

LEMMA GaveUpSlots ==
    ASSUME NEW S, NEW slots \in Slots(S), Sound(slots), NEW c, InLine(slots, c)
    PROVE  LET r == GaveUp(slots, c) IN
           /\ r \in Slots(S) /\ Sound(r)
           /\ Members(r) = Members(slots) \ {c}
           /\ r.holders = slots.holders
<1> DEFINE k == CHOOSE i \in 1..Len(slots.line) : slots.line[i] = c
           line == RemoveAt(slots.line, k)
           r == GaveUp(slots, c)
<1>1. k \in 1..Len(slots.line) /\ slots.line[k] = c
  BY DEF InLine
<1>2. slots.line \in Seq(S)
  BY DEF Slots
<1>3. r = [holders |-> slots.holders, line |-> line]
  BY DEF GaveUp, Slots
<1> HIDE DEF k
<1>4. line \in Seq(S) /\ ToSet(line) = ToSet(slots.line) \ {c} /\ Once(line)
  <2>1. Once(slots.line)
    BY DEF Sound, Once
  <2> QED BY <1>1, <1>2, <2>1, PlaceDropped
<1>5. c \notin slots.holders
  BY <1>1, <1>2 DEF Sound, ToSet
<1> HIDE DEF line, r
<1> QED BY <1>3, <1>4, <1>5 DEF Slots, Sound, Members, Once, r

-----------------------------------------------------------------------------
(* Tasks                                                                   *)

LEMMA TaskShape ==
    /\ LegTasks \subseteq Tasks
    /\ \A t \in LegTasks : /\ t[1] \in Queries /\ t[2] \in Legs /\ t = <<t[1], t[2]>>
                           /\ SourceOf(t) \in Sources
    /\ \A t \in Tasks : t \in LegTasks \/ \E q \in Queries : t = <<q, Combine>>
    /\ \A q \in Queries : <<q, Combine>> \in Tasks /\ <<q, Combine>> \notin LegTasks
    /\ IsFiniteSet(Tasks) /\ LegTasks \cap Others = {}
    /\ GateLimit \in Nat /\ Threads \in Nat \ {0}
<1>1. IsFiniteSet(Legs \cup {Combine})
  BY FederatedRunAssumption, FS_AddElement
<1>2. IsFiniteSet(Tasks)
  BY <1>1, FederatedRunAssumption, FS_Product DEF Tasks
<1>3. GateLimit \in Nat /\ Threads \in Nat \ {0}
  BY FederatedRunAssumption DEF GateLimit, Threads
<1>4. \A t \in LegTasks : /\ t[1] \in Queries /\ t[2] \in Legs /\ t = <<t[1], t[2]>>
                          /\ SourceOf(t) \in Sources
  BY FederatedRunAssumption DEF LegTasks, SourceOf
<1>5. \A t \in Tasks : t \in LegTasks \/ \E q \in Queries : t = <<q, Combine>>
  BY DEF LegTasks, Tasks
<1>6. \A q \in Queries : <<q, Combine>> \in Tasks /\ <<q, Combine>> \notin LegTasks
  BY FederatedRunAssumption DEF LegTasks, Tasks
<1>7. LegTasks \subseteq Tasks /\ LegTasks \cap Others = {}
  BY FederatedRunAssumption DEF LegTasks, Tasks
<1> QED BY <1>2, <1>3, <1>4, <1>5, <1>6, <1>7

-----------------------------------------------------------------------------
(* What the actions of a leg do to the shared state                        *)

Steps == {"none", "asked", "queued", "running", "spilling", "done", "failed"}

\* The leg ends on its thread and gives its connection back.
LegEnds(t) ==
    /\ at[t] \in {"running", "spilling"} /\ Holding(t)
    /\ \E step \in {"done", "failed"} : Move(t, step)
    /\ Disconnect(t)
    /\ UNCHANGED <<gate, pool, stage, keyed>>

\* It ends on the event loop, from the cache.
LegAnswered(t) ==
    /\ at[t] = "asked"
    /\ \E step \in {"done", "failed"} : Move(t, step)
    /\ UNCHANGED <<gate, conn, pool, stage, keyed>>

\* It streams on.
LegStreams(t) ==
    /\ at[t] \in {"running", "spilling"} /\ Holding(t)
    /\ at' = at \/ Move(t, "spilling")
    /\ UNCHANGED <<gate, conn, pool, stage, keyed>>

LEMMA LegCases ==
    ASSUME Inv, NEW t \in LegTasks, OfLeg(t)
    PROVE  LegEnds(t) \/ LegAnswered(t) \/ LegStreams(t) \/ Submit(t) \/ TakeLeg(t)
<1>1. at[t] = "spilling" => Holding(t)
  BY DEF Inv, ConnInv
<1>2. CASE Hit(t) \/ HitRefused(t)
  BY <1>2 DEF Hit, HitRefused, LegAnswered
<1>3. CASE DriverFails(t) \/ TooLarge(t) \/ EndStream(t) \/ ResultRefused(t)
  BY <1>3 DEF DriverFails, TooLarge, EndStream, ResultRefused, Streamed, LegEnds
<1>4. CASE DiskFull(t) \/ NoRoom(t)
  BY <1>1, <1>4 DEF DiskFull, NoRoom, LegEnds
<1>5. CASE HoldBatch(t) \/ StartSpill(t) \/ WriteBatch(t)
  BY <1>1, <1>5 DEF HoldBatch, StartSpill, WriteBatch, LegStreams
<1> QED BY <1>2, <1>3, <1>4, <1>5 DEF OfLeg

-----------------------------------------------------------------------------
(* Types                                                                   *)

LEMMA TypesOfLeg ==
    ASSUME Inv, NEW t \in LegTasks, OfLeg(t) \/ TimeOut(t)
    PROVE  TypeOK'
<1> USE TaskShape DEF spillVars
<1>0. TypeOK /\ t \in Tasks /\ t[1] \in Queries /\ SourceOf(t) \in Sources
  BY DEF Inv
<1>1. /\ gate' = gate /\ stage' = stage /\ keyed' = keyed /\ spillDir' = spillDir
  BY DEF OfLeg, Hit, HitRefused, Submit, TakeLeg, DriverFails, HoldBatch, TooLarge,
         EndStream, ResultRefused, StartSpill, WriteBatch, DiskFull, NoRoom, TimeOut
<1>2. at' \in [Tasks -> Steps]
  <2>1. at \in [Tasks -> Steps]
    BY <1>0 DEF TypeOK, Steps
  <2>2. at' = at \/ \E step \in Steps : Move(t, step)
    BY DEF OfLeg, Hit, HitRefused, Submit, TakeLeg, DriverFails, HoldBatch, TooLarge,
           EndStream, ResultRefused, StartSpill, WriteBatch, DiskFull, NoRoom, TimeOut,
           Steps
  <2> QED BY <1>0, <2>1, <2>2 DEF Move
<1>3. held' \in [LegTasks -> Nat] /\ written' \in [Queries -> Nat] /\ spilled' \in Int
  <2>1. held \in [LegTasks -> Nat] /\ written \in [Queries -> Nat] /\ spilled \in Int
    BY <1>0 DEF TypeOK
  <2>2. \/ held' = held \/ LetGo(t) \/ held' = [held EXCEPT ![t] = @ + 1]
        \/ held' = [held EXCEPT ![t] = IF @ > 0 THEN @ - 1 ELSE 0]
    BY DEF OfLeg, Hit, HitRefused, Submit, TakeLeg, DriverFails, HoldBatch, TooLarge,
           EndStream, ResultRefused, StartSpill, WriteBatch, DiskFull, NoRoom, TimeOut
  <2>3. held' \in [LegTasks -> Nat]
    BY <2>1, <2>2 DEF LetGo
  <2>4. (written' = written /\ spilled' = spilled) \/ Reserve(t[1])
    BY DEF OfLeg, Hit, HitRefused, Submit, TakeLeg, DriverFails, HoldBatch, TooLarge,
           EndStream, ResultRefused, StartSpill, WriteBatch, DiskFull, NoRoom, TimeOut
  <2> QED BY <1>0, <2>1, <2>3, <2>4 DEF Reserve
<1>4. pool' \in Seq(Tasks)
  <2>1. pool \in Seq(Tasks)
    BY <1>0 DEF TypeOK
  <2>2. \/ pool' = pool \/ pool' = Append(pool, t)
        \/ pool # <<>> /\ pool' = Tail(pool)
    BY DEF OfLeg, Hit, HitRefused, Submit, TakeLeg, DriverFails, HoldBatch, TooLarge,
           EndStream, ResultRefused, StartSpill, WriteBatch, DiskFull, NoRoom, TimeOut,
           NextTask
  <2>3. Append(pool, t) \in Seq(Tasks)
    BY <1>0, <2>1, AppendProperties
  <2>4. pool # <<>> => Tail(pool) \in Seq(Tasks)
    BY <2>1
  <2> QED BY <2>1, <2>2, <2>3, <2>4, Zenon
<1>5. conn' \in [Sources -> Slots(LegTasks \cup Others)]
  <2> DEFINE s == SourceOf(t)
             C == LegTasks \cup Others
  <2>1. /\ conn \in [Sources -> Slots(C)] /\ s \in Sources /\ Sound(conn[s])
        /\ conn[s] \in Slots(C) /\ t \in C
    BY <1>0 DEF Inv, ConnInv, TypeOK
  <2>2. CASE conn' = conn
    BY <2>1, <2>2
  <2>3. CASE LegEnds(t)
    <3>1. t \in conn[s].holders /\ conn' = [conn EXCEPT ![s] = Left(conn[s], t)]
      BY <2>3 DEF LegEnds, Holding, Disconnect
    <3>2. Left(conn[s], t) \in Slots(C)
      BY <2>1, <3>1, LeftSlots
    <3> QED BY <2>1, <3>1, <3>2
  <2>4. CASE TakeLeg(t)
    <3>1. conn' = [conn EXCEPT ![s] = Entered(conn[s], t, MaxConnections[s])]
      BY <2>4 DEF TakeLeg
    <3>2. at[t] = "queued"
      <4>1. pool \in Seq(Tasks) /\ pool # <<>> /\ t = Head(pool)
        BY <1>0, <2>4 DEF TakeLeg, NextTask, TypeOK
      <4>2. 1 \in 1..Len(pool) /\ t = pool[1]
        BY <4>1
      <4> QED BY <4>2 DEF Inv, PoolInv
    <3>3. t \notin Members(conn[s]) /\ MaxConnections[s] \in Nat
      BY <2>1, <3>2, FederatedRunAssumption DEF Inv, ConnInv
    <3>4. Entered(conn[s], t, MaxConnections[s]) \in Slots(C)
      BY <2>1, <3>3, EnteredSlots
    <3> QED BY <2>1, <3>1, <3>4
  <2>5. CASE TimeOut(t)
    <3>1. InLine(conn[s], t) /\ conn' = [conn EXCEPT ![s] = GaveUp(conn[s], t)]
      BY <2>5 DEF TimeOut
    <3>2. GaveUp(conn[s], t) \in Slots(C)
      BY <2>1, <3>1, GaveUpSlots
    <3> QED BY <2>1, <3>1, <3>2
  <2> QED BY <2>2, <2>3, <2>4, <2>5, LegCases DEF LegAnswered, LegStreams, Submit
<1> QED BY <1>0, <1>1, <1>2, <1>3, <1>4, <1>5 DEF TypeOK, Steps

\* The head of the pool's queue is queued.
LEMMA NextIsQueued ==
    ASSUME Inv, NEW t \in Tasks, NextTask(t)
    PROVE  /\ at[t] = "queued" /\ Tail(pool) \in Seq(Tasks)
           /\ ToSet(Tail(pool)) = ToSet(pool) \ {t}
           /\ \A j, k \in 1..Len(Tail(pool)) : Tail(pool)[j] = Tail(pool)[k] => j = k
<1>1. /\ pool \in Seq(Tasks) /\ pool # <<>> /\ Head(pool) = t
      /\ \A j, k \in 1..Len(pool) : pool[j] = pool[k] => j = k
      /\ \A k \in 1..Len(pool) : at[pool[k]] = "queued"
  BY DEF Inv, TypeOK, PoolInv, NextTask
<1>2. 1 \in 1..Len(pool) /\ pool[1] = t
  BY <1>1
<1> QED BY <1>1, <1>2, HeadDropped DEF Once

LEMMA TypesOfQuery ==
    ASSUME Inv, NEW q \in Queries, Request(q) \/ GiveUp(q) \/ OnLoop(q) \/ OfCombine(q)
    PROVE  TypeOK'
<1> USE DEF spillVars
<1>0. TypeOK /\ <<q, Combine>> \in Tasks
  BY TaskShape DEF Inv
<1>1. CASE Request(q)
  <2>1. q \notin Members(gate) /\ Sound(gate) /\ gate \in Slots(Queries) /\ GateLimit \in Nat
    BY <1>1, TaskShape DEF Inv, GateInv, TypeOK, Request
  <2>2. gate' \in Slots(Queries)
    BY <1>1, <2>1, EnteredSlots DEF Request
  <2> QED BY <1>0, <1>1, <2>2 DEF Request, TypeOK, GoTo
<1>2. CASE GiveUp(q)
  <2>1. q \in Members(gate) /\ Sound(gate) /\ gate \in Slots(Queries)
    BY <1>2 DEF Inv, GateInv, TypeOK, GiveUp
  <2>2. q \notin gate.holders => InLine(gate, q)
    BY <2>1 DEF Members, InLine, ToSet, Slots
  <2>3. gate' \in Slots(Queries)
    BY <1>2, <2>1, <2>2, LeftSlots, GaveUpSlots DEF GiveUp
  <2> QED BY <1>0, <1>2, <2>3 DEF GiveUp, TypeOK, GoTo
<1>3. CASE Start(q)
  <2>1. at' \in [Tasks -> Steps]
    BY <1>0, <1>3 DEF Start, TypeOK, Ask, Steps
  <2>2. keyed' \in [Queries -> SUBSET (Legs \ {Fact})]
    BY <1>0, <1>3 DEF Start, TypeOK
  <2> QED BY <1>0, <1>3, <2>1, <2>2 DEF Start, TypeOK, GoTo, Steps
<1>4. CASE SpillDirFails(q) \/ Fail(q)
  BY <1>0, <1>4 DEF SpillDirFails, Fail, TypeOK, GoTo
<1>5. CASE Inject(q)
  BY <1>0, <1>5 DEF Inject, TypeOK, GoTo, Ask
<1>6. CASE SubmitCombine(q)
  <2>1. pool' \in Seq(Tasks)
    BY <1>0, <1>6, AppendProperties DEF SubmitCombine, TypeOK
  <2> QED BY <1>0, <1>6, <2>1 DEF SubmitCombine, TypeOK, GoTo, Move
<1>7. CASE Close(q)
  <2>1. /\ spilled' = spilled - written[q] /\ spilled \in Int /\ written[q] \in Nat
        /\ written' = [written EXCEPT ![q] = 0] /\ written \in [Queries -> Nat]
    BY <1>0, <1>7 DEF Close, TypeOK
  <2>2. spilled' \in Int /\ written' \in [Queries -> Nat]
    BY <2>1
  <2> QED BY <1>0, <1>7, <2>2 DEF Close, TypeOK, GoTo
<1>8. CASE AdmittedDone(q)
  <2>1. q \in gate.holders /\ Sound(gate) /\ gate \in Slots(Queries)
    BY <1>8 DEF Inv, GateInv, TypeOK, AdmittedDone
  <2>2. gate' \in Slots(Queries)
    BY <1>8, <2>1, LeftSlots DEF AdmittedDone
  <2> QED BY <1>0, <1>8, <2>2 DEF AdmittedDone, TypeOK, GoTo
<1>9. CASE TakeCombine(q)
  <2>1. pool' \in Seq(Tasks)
    BY <1>0, <1>9, NextIsQueued DEF TakeCombine
  <2> QED BY <1>0, <1>9, <2>1 DEF TakeCombine, TypeOK, Move
<1>10. CASE EndCombine(q)
  BY <1>0, <1>10 DEF EndCombine, TypeOK, Move, GoTo
<1> QED
  BY <1>1, <1>2, <1>3, <1>4, <1>5, <1>6, <1>7, <1>8, <1>9, <1>10 DEF OnLoop, OfCombine

\* The other users of the sources, and what they leave of ConnInv.
LEMMA OthersKeep ==
    ASSUME Inv, NEW u \in Others, OtherEnters(u) \/ OtherLeaves(u)
    PROVE  TypeOK' /\ ConnInv'
<1> DEFINE s == Uses[u]
           C == LegTasks \cup Others
<1>1. /\ conn \in [Sources -> Slots(C)] /\ s \in Sources /\ u \in C /\ u \notin LegTasks
      /\ conn[s] \in Slots(C) /\ Sound(conn[s]) /\ MaxConnections[s] \in Nat
  BY TaskShape, FederatedRunAssumption DEF Inv, TypeOK, ConnInv
<1>2. PICK slots \in Slots(C) :
         /\ conn' = [conn EXCEPT ![s] = slots]
         /\ Sound(slots)
         /\ Members(slots) \ {u} = Members(conn[s]) \ {u}
         /\ conn[s].holders \ {u} \subseteq slots.holders
  <2>1. CASE OtherEnters(u)
    <3>1. u \notin Members(conn[s])
      BY <1>1, <2>1 DEF OtherEnters, InLine, Members, ToSet, Slots
    <3>2. conn' = [conn EXCEPT ![s] = Entered(conn[s], u, MaxConnections[s])]
      BY <2>1 DEF OtherEnters
    <3> DEFINE r == Entered(conn[s], u, MaxConnections[s])
    <3>3. /\ r \in Slots(C) /\ Sound(r) /\ Members(r) = Members(conn[s]) \cup {u}
          /\ conn[s].holders \subseteq r.holders
      BY <1>1, <3>1, EnteredSlots
    <3> HIDE DEF r
    <3>4. Members(r) \ {u} = Members(conn[s]) \ {u} /\ conn[s].holders \ {u} \subseteq r.holders
      BY <3>3
    <3>5. conn' = [conn EXCEPT ![s] = r]
      BY <3>2 DEF r
    <3> QED BY <3>3, <3>4, <3>5
  <2>2. CASE OtherLeaves(u)
    <3> DEFINE r == Left(conn[s], u)
    <3>1. u \in conn[s].holders /\ conn' = [conn EXCEPT ![s] = r]
      BY <2>2 DEF OtherLeaves
    <3>2. /\ r \in Slots(C) /\ Sound(r) /\ Members(r) = Members(conn[s]) \ {u}
          /\ conn[s].holders \ {u} \subseteq r.holders
      BY <1>1, <3>1, LeftSlots
    <3> HIDE DEF r
    <3>3. Members(r) \ {u} = Members(conn[s]) \ {u}
      BY <3>2
    <3> QED BY <3>1, <3>2, <3>3
  <2> QED BY <2>1, <2>2
<1>3. /\ gate' = gate /\ pool' = pool /\ stage' = stage /\ keyed' = keyed /\ at' = at
      /\ held' = held /\ written' = written /\ spilled' = spilled /\ spillDir' = spillDir
  BY DEF OtherEnters, OtherLeaves, spillVars
<1>4. TypeOK'
  BY <1>1, <1>2, <1>3 DEF Inv, TypeOK
<1>5. ConnInv'
  <2>1. \A r \in Sources : Sound(conn'[r])
    BY <1>1, <1>2 DEF Inv, ConnInv
  <2>2. ASSUME NEW r \in Sources, NEW t \in LegTasks
        PROVE  /\ t \in Members(conn'[r]) <=> t \in Members(conn[r])
               /\ t \in conn[r].holders => t \in conn'[r].holders
    <3>1. t # u
      BY <1>1
    <3>2. conn'[r] = IF r = s THEN slots ELSE conn[r]
      BY <1>1, <1>2
    <3> QED BY <1>2, <3>1, <3>2
  <2>3. \A t \in LegTasks : at[t] = "spilling" => t \in conn'[SourceOf(t)].holders
    BY <2>2, TaskShape DEF Inv, ConnInv, Holding
  <2>4. ConnInv
    BY DEF Inv
  <2> QED BY <1>3, <2>1, <2>2, <2>3, <2>4 DEF ConnInv, Holding, SourceOf
<1> QED BY <1>4, <1>5

-----------------------------------------------------------------------------
(* The steps of a leg keep the invariant                                   *)

\* Lemma: a task that is queued anew, and one that is taken.
LEMMA PoolAppended ==
    ASSUME Inv, NEW t \in Tasks, at[t] # "queued", Move(t, "queued"), pool' = Append(pool, t)
    PROVE  PoolInv'
<1> DEFINE line == Append(pool, t)
<1>1. /\ pool \in Seq(Tasks) /\ at \in [Tasks -> Steps] /\ PoolInv /\ Len(pool) \in Nat
      /\ \A k \in 1..Len(pool) : pool[k] \in Tasks
  BY DEF Inv, TypeOK, Steps
<1>2. /\ Len(line) = Len(pool) + 1 /\ line[Len(pool) + 1] = t
      /\ \A k \in 1..Len(pool) : line[k] = pool[k]
  BY <1>1, AppendProperties
<1>3. \A k \in 1..Len(pool) : at[pool[k]] = "queued" /\ pool[k] # t
  BY <1>1 DEF PoolInv
<1>4. \A r \in Tasks : at'[r] = IF r = t THEN "queued" ELSE at[r]
  BY <1>1 DEF Move
<1> HIDE DEF line
<1>5. \A k \in 1..Len(line) : at'[line[k]] = "queued"
  BY <1>1, <1>2, <1>3, <1>4
<1>6. \A j, k \in 1..Len(line) : line[j] = line[k] => j = k
  BY <1>1, <1>2, <1>3 DEF PoolInv
<1>7. pool' = line
  BY DEF line
<1> QED BY <1>5, <1>6, <1>7 DEF PoolInv

LEMMA PoolTaken ==
    ASSUME Inv, NEW t \in Tasks, NextTask(t), Move(t, "running"), pool' = Tail(pool)
    PROVE  PoolInv' /\ ThreadInv'
<1>1. /\ pool \in Seq(Tasks) /\ at \in [Tasks -> Steps] /\ PoolInv
  BY DEF Inv, TypeOK, Steps
<1>2. PoolInv'
  <2>0. Tail(pool) \in Seq(Tasks) /\ ToSet(Tail(pool)) = ToSet(pool) \ {t}
    BY NextIsQueued
  <2>1. \A k \in 1..Len(Tail(pool)) : Tail(pool)[k] \in ToSet(pool) \ {t}
    <3>1. DOMAIN Tail(pool) = 1..Len(Tail(pool))
      BY <2>0
    <3>2. \A k \in DOMAIN Tail(pool) : Tail(pool)[k] \in ToSet(Tail(pool))
      BY DEF ToSet
    <3> QED BY <2>0, <3>1, <3>2, Zenon
  <2>2. \A r \in ToSet(pool) : at[r] = "queued" /\ r \in Tasks
    BY <1>1 DEF ToSet, PoolInv
  <2>3. \A r \in Tasks : r # t => at'[r] = at[r]
    BY <1>1 DEF Move
  <2>4. \A k \in 1..Len(pool') : at'[pool'[k]] = "queued"
    BY <2>1, <2>2, <2>3
  <2> QED BY <2>4, NextIsQueued DEF PoolInv
<1>3. ThreadInv'
  <2>1. OnThreads' = OnThreads \cup {t}
    BY <1>1 DEF OnThreads, Move, Steps
  <2>2. IsFiniteSet(OnThreads)
    BY TaskShape, FS_Subset DEF OnThreads
  <2>3. \/ Cardinality(OnThreads \cup {t}) = Cardinality(OnThreads)
        \/ Cardinality(OnThreads \cup {t}) = Cardinality(OnThreads) + 1
    BY <2>2, FS_AddElement
  <2>4. Cardinality(OnThreads) \in Nat
    BY <2>2, FS_CardinalityType
  <2>5. Cardinality(OnThreads) < Threads /\ Threads \in Nat
    BY TaskShape DEF NextTask
  <2>6. Cardinality(OnThreads \cup {t}) <= Threads
    BY <2>3, <2>4, <2>5
  <2> QED BY <2>1, <2>6 DEF ThreadInv, Threads
<1> QED BY <1>2, <1>3

\* Threads that go on or become free stay within the limit.
LEMMA ThreadsKept ==
    ASSUME Inv, OnThreads' \subseteq OnThreads
    PROVE  ThreadInv'
<1>1. IsFiniteSet(OnThreads)
  BY TaskShape, FS_Subset DEF OnThreads
<1>2. Cardinality(OnThreads') <= Cardinality(OnThreads) /\ Cardinality(OnThreads') \in Nat
      /\ Cardinality(OnThreads) \in Nat
  BY <1>1, FS_Subset, FS_CardinalityType
<1> QED BY <1>2, TaskShape DEF Inv, ThreadInv

\* The gate and the work of the queries do not notice a step of an active leg.
LEMMA LegKeepsQueries ==
    ASSUME Inv, NEW t \in LegTasks, at[t] \in Active, NEW step, at' = at \/ Move(t, step),
           UNCHANGED <<gate, stage, keyed>>
    PROVE  GateInv' /\ WorkInv'
<1>1. at \in [Tasks -> Steps] /\ t \in Tasks
  BY TaskShape DEF Inv, TypeOK, Steps
<1>2. GateInv'
  BY DEF Inv, GateInv, Sound, Members
<1>3. WorkInv'
  <2>1. \A r \in LegTasks : at'[r] \in Active => at[r] \in Active
    BY <1>1, TaskShape DEF Move
  <2>2. \A q \in Queries : at'[<<q, Combine>>] = at[<<q, Combine>>]
    BY <1>1, TaskShape DEF Move
  <2>3. WorkInv
    BY DEF Inv
  <2>4. \A q : Gathered(q)' = Gathered(q)
    BY DEF Gathered
  <2> QED BY <2>1, <2>2, <2>3, <2>4 DEF WorkInv
<1> QED BY <1>2, <1>3

\* A leg's connection changes hands: it enters, leaves or gives up the line
\* of its source.
LEMMA LegConnects ==
    ASSUME Inv, NEW t \in LegTasks, NEW slots, NEW step \in Steps, Move(t, step),
           conn' = [conn EXCEPT ![SourceOf(t)] = slots],
           Sound(slots),
           \A r \in LegTasks : r # t => (r \in Members(slots) <=> r \in Members(conn[SourceOf(t)])),
           t \in Members(slots) <=> step \in {"running", "spilling"},
           step # "spilling",
           conn[SourceOf(t)].holders \ {t} \subseteq slots.holders
    PROVE  ConnInv'
<1> DEFINE s == SourceOf(t)
<1>1. /\ at \in [Tasks -> Steps] /\ t \in Tasks /\ s \in Sources
      /\ DOMAIN conn = Sources /\ ConnInv
  BY TaskShape DEF Inv, TypeOK, Steps
<1>2. \A r \in Tasks : at'[r] = IF r = t THEN step ELSE at[r]
  BY <1>1 DEF Move
<1>3. \A r \in Sources : conn'[r] = IF r = s THEN slots ELSE conn[r]
  BY <1>1
<1>4. \A r \in Sources : Sound(conn'[r])
  BY <1>1, <1>3 DEF ConnInv
<1>5. ASSUME NEW r \in Sources, NEW x \in LegTasks
      PROVE  x \in Members(conn'[r]) <=> r = SourceOf(x) /\ at'[x] \in {"running", "spilling"}
  <2>1. x \in Members(conn[r]) <=> r = SourceOf(x) /\ at[x] \in {"running", "spilling"}
    BY <1>1 DEF ConnInv
  <2>2. x \in Tasks
    BY TaskShape
  <2>3. CASE x = t
    BY <1>2, <1>3, <2>1, <2>2, <2>3
  <2>4. CASE x # t
    BY <1>2, <1>3, <2>1, <2>2, <2>4
  <2> QED BY <2>3, <2>4
<1>6. ASSUME NEW x \in LegTasks, at'[x] = "spilling"
      PROVE  x \in conn'[SourceOf(x)].holders
  <2>1. x \in Tasks /\ x # t /\ at[x] = "spilling" /\ SourceOf(x) \in Sources
    BY <1>2, <1>6, TaskShape
  <2>2. x \in conn[SourceOf(x)].holders
    BY <1>1, <2>1 DEF ConnInv, Holding
  <2> QED BY <1>3, <2>1, <2>2
<1> QED BY <1>4, <1>5, <1>6 DEF ConnInv, Holding, SourceOf

LEMMA LegStep ==
    ASSUME Inv, NEW t \in LegTasks, OfLeg(t) \/ TimeOut(t)
    PROVE  Inv'
<1> DEFINE s == SourceOf(t)
           C == LegTasks \cup Others
<1>1. /\ at \in [Tasks -> Steps] /\ t \in Tasks /\ s \in Sources
      /\ conn[s] \in Slots(C) /\ t \in C /\ Sound(conn[s])
      /\ PoolInv /\ ConnInv /\ pool \in Seq(Tasks)
  BY TaskShape DEF Inv, TypeOK, Steps, ConnInv
<1>2. TypeOK'
  BY TypesOfLeg
<1>3. CASE LegEnds(t) \/ TimeOut(t)
  <2>1. PICK step \in {"done", "failed"} : Move(t, step)
    BY <1>3 DEF LegEnds, TimeOut
  <2>2. /\ at[t] \in {"running", "spilling"}
        /\ gate' = gate /\ pool' = pool /\ stage' = stage /\ keyed' = keyed
    BY <1>3 DEF LegEnds, TimeOut, spillVars
  <2>3. GateInv' /\ WorkInv'
    BY <2>1, <2>2, LegKeepsQueries DEF Active
  <2>4. \A r \in Tasks : at'[r] = IF r = t THEN step ELSE at[r]
    BY <1>1, <2>1 DEF Move
  <2>5. PoolInv'
    <3>1. \A k \in 1..Len(pool) : pool[k] \in Tasks /\ at[pool[k]] = "queued"
      BY <1>1 DEF PoolInv
    <3> QED BY <1>1, <2>2, <2>4, <3>1 DEF PoolInv
  <2>6. ThreadInv'
    <3>1. OnThreads' \subseteq OnThreads
      BY <2>4 DEF OnThreads
    <3> QED BY <3>1, ThreadsKept
  <2>7. PICK slots : /\ conn' = [conn EXCEPT ![s] = slots] /\ Sound(slots)
                     /\ Members(slots) = Members(conn[s]) \ {t}
                     /\ conn[s].holders \ {t} \subseteq slots.holders
    <3>1. CASE LegEnds(t)
      <4> DEFINE r == Left(conn[s], t)
      <4>1. t \in conn[s].holders /\ conn' = [conn EXCEPT ![s] = r]
        BY <3>1 DEF LegEnds, Holding, Disconnect
      <4>2. /\ Sound(r) /\ Members(r) = Members(conn[s]) \ {t}
            /\ conn[s].holders \ {t} \subseteq r.holders
        BY <1>1, <4>1, LeftSlots
      <4> HIDE DEF r
      <4> QED BY <4>1, <4>2
    <3>2. CASE TimeOut(t)
      <4> DEFINE r == GaveUp(conn[s], t)
      <4>1. InLine(conn[s], t) /\ conn' = [conn EXCEPT ![s] = r]
        BY <3>2 DEF TimeOut
      <4>2. /\ Sound(r) /\ Members(r) = Members(conn[s]) \ {t}
            /\ r.holders = conn[s].holders
        BY <1>1, <4>1, GaveUpSlots
      <4> HIDE DEF r
      <4>3. conn[s].holders \ {t} \subseteq r.holders
        BY <4>2
      <4> QED BY <4>1, <4>2, <4>3
    <3> QED BY <1>3, <3>1, <3>2
  <2>8. ConnInv'
    <3>1. /\ \A r \in LegTasks : r # t => (r \in Members(slots) <=> r \in Members(conn[s]))
          /\ t \in Members(slots) <=> step \in {"running", "spilling"}
          /\ step \in Steps /\ step # "spilling"
      BY <2>1, <2>7 DEF Steps
    <3> QED BY <2>1, <2>7, <3>1, LegConnects
  <2> QED BY <1>2, <2>3, <2>5, <2>6, <2>8 DEF Inv
<1>4. CASE LegAnswered(t) \/ LegStreams(t)
  <2>1. /\ gate' = gate /\ conn' = conn /\ pool' = pool /\ stage' = stage /\ keyed' = keyed
        /\ at[t] \in Active /\ at[t] # "queued"
    BY <1>4 DEF LegAnswered, LegStreams, Active
  <2>2. PICK step \in Steps :
           /\ at' = at \/ Move(t, step)
           /\ step # "queued" /\ step # "running"
           /\ step = "spilling" => Holding(t) /\ at[t] \in {"running", "spilling"}
           /\ step # "spilling" => at[t] = "asked"
    BY <1>4 DEF LegAnswered, LegStreams, Steps
  <2>3. GateInv' /\ WorkInv'
    BY <2>1, <2>2, LegKeepsQueries
  <2>4. \A r \in Tasks : at'[r] = at[r] \/ (r = t /\ at'[r] = step)
    BY <1>1, <2>2 DEF Move
  <2>5. PoolInv'
    <3>1. \A k \in 1..Len(pool) : pool[k] \in Tasks /\ at[pool[k]] = "queued"
      BY <1>1 DEF PoolInv
    <3> QED BY <1>1, <2>1, <2>4, <3>1 DEF PoolInv
  <2>6. ThreadInv'
    <3>1. OnThreads' \subseteq OnThreads
      BY <2>2, <2>4 DEF OnThreads
    <3> QED BY <3>1, ThreadsKept
  <2>7. ConnInv'
    <3>1. \A r \in LegTasks :
             /\ at'[r] \in {"running", "spilling"} <=> at[r] \in {"running", "spilling"}
             /\ at'[r] = "spilling" => at[r] = "spilling" \/ Holding(r)
      <4>1. \A r \in LegTasks : r \in Tasks
        BY TaskShape
      <4> QED BY <1>1, <2>2, <2>4, <4>1
    <3>2. \A r \in LegTasks : at'[r] = "spilling" => Holding(r)
      BY <1>1, <3>1 DEF ConnInv
    <3> QED BY <1>1, <2>1, <3>1, <3>2 DEF ConnInv, Holding, SourceOf, Sound, Members
  <2> QED BY <1>2, <2>3, <2>5, <2>6, <2>7 DEF Inv
<1>5. CASE Submit(t)
  <2>1. /\ gate' = gate /\ conn' = conn /\ stage' = stage /\ keyed' = keyed
        /\ at[t] = "asked" /\ Move(t, "queued") /\ pool' = Append(pool, t)
    BY <1>5 DEF Submit, spillVars
  <2>2. GateInv' /\ WorkInv'
    BY <2>1, LegKeepsQueries DEF Active
  <2>3. PoolInv'
    BY <1>1, <2>1, PoolAppended
  <2>4. \A r \in Tasks : at'[r] = IF r = t THEN "queued" ELSE at[r]
    BY <1>1, <2>1 DEF Move
  <2>5. ThreadInv'
    <3>1. OnThreads' \subseteq OnThreads
      BY <2>4 DEF OnThreads
    <3> QED BY <3>1, ThreadsKept
  <2>6. ConnInv'
    <3>1. \A r \in LegTasks :
             /\ at'[r] \in {"running", "spilling"} <=> at[r] \in {"running", "spilling"}
             /\ at'[r] = "spilling" => at[r] = "spilling"
      BY <2>1, <2>4, TaskShape
    <3> QED BY <1>1, <2>1, <3>1 DEF ConnInv, Holding, SourceOf, Sound, Members
  <2> QED BY <1>2, <2>2, <2>3, <2>5, <2>6 DEF Inv
<1>6. CASE TakeLeg(t)
  <2>1. /\ gate' = gate /\ stage' = stage /\ keyed' = keyed
        /\ NextTask(t) /\ Move(t, "running") /\ pool' = Tail(pool)
    BY <1>6 DEF TakeLeg, spillVars
  <2>2. at[t] = "queued"
    BY <1>1, <2>1, NextIsQueued
  <2>3. GateInv' /\ WorkInv'
    BY <2>1, <2>2, LegKeepsQueries DEF Active
  <2>4. PoolInv' /\ ThreadInv'
    BY <1>1, <2>1, PoolTaken
  <2>5. ConnInv'
    <3> DEFINE r == Entered(conn[s], t, MaxConnections[s])
    <3>1. t \notin Members(conn[s]) /\ MaxConnections[s] \in Nat
      BY <1>1, <2>2, FederatedRunAssumption DEF ConnInv
    <3>2. /\ Sound(r) /\ Members(r) = Members(conn[s]) \cup {t}
          /\ conn[s].holders \subseteq r.holders
      BY <1>1, <3>1, EnteredSlots
    <3>3. conn' = [conn EXCEPT ![s] = r]
      BY <1>6 DEF TakeLeg
    <3> HIDE DEF r
    <3>4. /\ \A x \in LegTasks : x # t => (x \in Members(r) <=> x \in Members(conn[s]))
          /\ t \in Members(r) <=> "running" \in {"running", "spilling"}
          /\ "running" \in Steps /\ "running" # "spilling"
          /\ conn[s].holders \ {t} \subseteq r.holders
      BY <3>2 DEF Steps
    <3> QED BY <2>1, <3>2, <3>3, <3>4, LegConnects
  <2> QED BY <1>2, <2>3, <2>4, <2>5 DEF Inv
<1> QED BY <1>3, <1>4, <1>5, <1>6, LegCases

-----------------------------------------------------------------------------
(* The steps of a query's task keep the invariant                          *)

\* Nothing of query q is in the pool, on a thread or about to be.
Idle(q) == \A t \in Tasks : t[1] = q => at[t] \notin Active

\* A query between two gathers, or before or after them, is idle.
LEMMA IdleBetween ==
    ASSUME Inv, NEW q \in Queries,
           \/ stage[q] \notin {"first", "rest", "combine"}
           \/ stage[q] \in {"first", "rest"} /\ \A t \in Gathered(q) : Ended(t)
    PROVE  Idle(q)
<1> SUFFICES ASSUME NEW t \in Tasks, t[1] = q PROVE at[t] \notin Active
  BY DEF Idle
<1>1. WorkInv
  BY DEF Inv
<1>2. CASE t \in LegTasks
  <2>1. at[t] \in Active => stage[q] \in {"first", "rest"} /\ t \in Gathered(q)
    BY <1>1, <1>2 DEF WorkInv
  <2> QED BY <2>1 DEF Ended, Active
<1>3. CASE t \notin LegTasks
  <2>1. t = <<q, Combine>>
    BY <1>3, TaskShape
  <2> QED BY <1>1, <2>1 DEF WorkInv, Active
<1> QED BY <1>2, <1>3

\* An idle query may mark its tasks as it likes.
LEMMA MarkedWhileIdle ==
    ASSUME Inv, NEW q \in Queries, Idle(q), at' \in [Tasks -> Steps],
           \A t \in Tasks : t[1] # q => at'[t] = at[t],
           \A t \in Tasks : t[1] = q => at'[t] \notin {"queued", "running", "spilling"},
           UNCHANGED <<conn, pool>>
    PROVE  PoolInv' /\ ConnInv' /\ ThreadInv'
<1>1. \A t \in Tasks : \A step \in {"queued", "running", "spilling"} :
         at'[t] = step <=> at[t] = step
  BY DEF Idle, Active
<1>2. PoolInv'
  <2>1. \A k \in 1..Len(pool) : pool[k] \in Tasks /\ at[pool[k]] = "queued"
    BY DEF Inv, PoolInv, TypeOK
  <2> QED BY <1>1, <2>1 DEF Inv, PoolInv
<1>3. ConnInv'
  <2>1. \A t \in LegTasks :
           /\ at'[t] \in {"running", "spilling"} <=> at[t] \in {"running", "spilling"}
           /\ at'[t] = "spilling" => at[t] = "spilling"
    BY <1>1, TaskShape
  <2>2. ConnInv
    BY DEF Inv
  <2> QED BY <2>1, <2>2 DEF ConnInv, Holding, SourceOf, Sound, Members
<1>4. ThreadInv'
  <2>1. OnThreads' \subseteq OnThreads
    BY <1>1 DEF OnThreads
  <2> QED BY <2>1, ThreadsKept
<1> QED BY <1>2, <1>3, <1>4

\* The stage of a query moves on under its slot.
LEMMA GateKept ==
    ASSUME Inv, NEW q \in Queries, NEW step, GoTo(q, step), gate' = gate,
           q \in gate.holders, step # "idle"
    PROVE  GateInv'
<1>1. GateInv /\ stage \in [Queries -> {"idle", "waiting", "first", "rest",
                                        "combine", "closing", "ended"}]
  BY DEF Inv, TypeOK
<1>2. \A r \in Queries : stage'[r] = IF r = q THEN step ELSE stage[r]
  BY <1>1 DEF GoTo
<1> QED BY <1>1, <1>2 DEF GateInv, Sound, Members

\* Legs are asked for while their query is idle, and it waits for them.
LEMMA WorkAsked ==
    ASSUME Inv, NEW q \in Queries, NEW legs \in SUBSET Legs, NEW step \in {"first", "rest"},
           Idle(q), Ask(q, legs), GoTo(q, step),
           \A r \in Queries \ {q} : keyed'[r] = keyed[r],
           legs = IF step = "first" THEN keyed'[q] ELSE Legs \ keyed'[q]
    PROVE  WorkInv' /\ at' \in [Tasks -> Steps]
<1>1. /\ WorkInv /\ at \in [Tasks -> Steps]
      /\ stage \in [Queries -> {"idle", "waiting", "first", "rest",
                                "combine", "closing", "ended"}]
  BY DEF Inv, TypeOK, Steps
<1>2. at' \in [Tasks -> Steps] /\ \A t \in Tasks :
         at'[t] = IF t \in {q} \X legs THEN "asked" ELSE at[t]
  BY <1>1 DEF Ask, Steps
<1>3. \A r \in Queries : stage'[r] = IF r = q THEN step ELSE stage[r]
  BY <1>1 DEF GoTo
<1>4. ASSUME NEW t \in LegTasks, at'[t] \in Active
      PROVE  stage'[t[1]] \in {"first", "rest"} /\ t \in Gathered(t[1])'
  <2>1. t \in Tasks /\ t[1] \in Queries /\ t[2] \in Legs /\ t = <<t[1], t[2]>>
    BY TaskShape
  <2>2. CASE t[1] = q
    <3>1. t \in {q} \X legs
      BY <1>2, <1>4, <2>1, <2>2 DEF Idle
    <3>2. t[2] \in legs
      BY <2>1, <3>1
    <3> QED BY <1>3, <2>1, <2>2, <3>2 DEF Gathered
  <2>3. CASE t[1] # q
    <3>1. at[t] \in Active
      BY <1>2, <1>4, <2>1, <2>3
    <3>2. stage[t[1]] \in {"first", "rest"} /\ t \in Gathered(t[1])
      BY <1>1, <3>1 DEF WorkInv
    <3>3. stage'[t[1]] = stage[t[1]] /\ keyed'[t[1]] = keyed[t[1]]
      BY <1>3, <2>1, <2>3
    <3> QED BY <3>2, <3>3 DEF Gathered
  <2> QED BY <2>2, <2>3
<1>5. ASSUME NEW r \in Queries
      PROVE  /\ at'[<<r, Combine>>] \in {"none", "queued", "running", "done"}
             /\ at'[<<r, Combine>>] \in {"queued", "running"} => stage'[r] = "combine"
  <2>1. at'[<<r, Combine>>] = at[<<r, Combine>>]
    BY <1>2, TaskShape DEF LegTasks
  <2>2. r = q => at[<<r, Combine>>] \notin Active
    BY TaskShape DEF Idle
  <2> QED BY <1>1, <1>3, <2>1, <2>2 DEF WorkInv, Active
<1> QED BY <1>2, <1>4, <1>5 DEF WorkInv

\* A query that is idle goes on to where nobody works for it.
LEMMA WorkKept ==
    ASSUME Inv, NEW q \in Queries, NEW step, Idle(q), GoTo(q, step),
           \A t \in Tasks : at'[t] = at[t] \/ (t[1] = q /\ at'[t] = "none"),
           \A r \in Queries \ {q} : keyed'[r] = keyed[r]
    PROVE  WorkInv'
<1>1. /\ WorkInv
      /\ stage \in [Queries -> {"idle", "waiting", "first", "rest",
                                "combine", "closing", "ended"}]
  BY DEF Inv, TypeOK
<1>2. \A r \in Queries : stage'[r] = IF r = q THEN step ELSE stage[r]
  BY <1>1 DEF GoTo
<1>3. \A t \in Tasks : at'[t] \in Active => at[t] \in Active /\ t[1] # q
  BY DEF Idle, Active
<1>4. ASSUME NEW t \in LegTasks, at'[t] \in Active
      PROVE  stage'[t[1]] \in {"first", "rest"} /\ t \in Gathered(t[1])'
  <2>1. t \in Tasks /\ t[1] \in Queries
    BY TaskShape
  <2>2. at[t] \in Active /\ t[1] # q
    BY <1>3, <1>4, <2>1
  <2>3. stage[t[1]] \in {"first", "rest"} /\ t \in Gathered(t[1])
    BY <1>1, <2>2 DEF WorkInv
  <2>4. stage'[t[1]] = stage[t[1]] /\ keyed'[t[1]] = keyed[t[1]]
    BY <1>2, <2>1, <2>2
  <2> QED BY <2>3, <2>4 DEF Gathered
<1>5. ASSUME NEW r \in Queries
      PROVE  /\ at'[<<r, Combine>>] \in {"none", "queued", "running", "done"}
             /\ at'[<<r, Combine>>] \in {"queued", "running"} => stage'[r] = "combine"
  <2>1. <<r, Combine>> \in Tasks
    BY TaskShape
  <2>2. at'[<<r, Combine>>] \in {at[<<r, Combine>>], "none"}
    BY <2>1
  <2>3. r = q => at'[<<r, Combine>>] \notin {"queued", "running"}
    BY <1>3, <2>1 DEF Active
  <2> QED BY <1>1, <1>2, <2>2, <2>3 DEF WorkInv
<1> QED BY <1>4, <1>5 DEF WorkInv

\* A query comes to the gate or leaves it.
LEMMA GateMoved ==
    ASSUME Inv, NEW q \in Queries, NEW slots, gate' = slots, Sound(slots),
           NEW step \in {"idle", "waiting"}, GoTo(q, step),
           Members(slots) \ {q} = Members(gate) \ {q},
           gate.holders \ {q} \subseteq slots.holders,
           q \in Members(slots) <=> step = "waiting"
    PROVE  GateInv'
<1>1. /\ GateInv
      /\ stage \in [Queries -> {"idle", "waiting", "first", "rest",
                                "combine", "closing", "ended"}]
  BY DEF Inv, TypeOK
<1>2. \A r \in Queries : stage'[r] = IF r = q THEN step ELSE stage[r]
  BY <1>1 DEF GoTo
<1>3. ASSUME NEW r \in Queries
      PROVE  /\ r \in Members(slots) <=> stage'[r] # "idle"
             /\ stage'[r] \notin {"idle", "waiting"} => r \in slots.holders
  <2>1. CASE r = q
    BY <1>2, <2>1
  <2>2. CASE r # q
    <3>1. r \in Members(slots) <=> r \in Members(gate)
      BY <2>2
    <3>2. r \in gate.holders => r \in slots.holders
      BY <2>2
    <3> QED BY <1>1, <1>2, <2>2, <3>1, <3>2 DEF GateInv
  <2> QED BY <2>1, <2>2
<1> QED BY <1>3 DEF GateInv, Sound, Members

LEMMA QueryStep ==
    ASSUME Inv, NEW q \in Queries, Request(q) \/ GiveUp(q) \/ OnLoop(q) \/ OfCombine(q)
    PROVE  Inv'
<1> USE DEF spillVars
<1>1. /\ TypeOK' /\ at \in [Tasks -> Steps] /\ gate \in Slots(Queries) /\ Sound(gate)
      /\ keyed \in [Queries -> SUBSET (Legs \ {Fact})] /\ GateInv /\ WorkInv
      /\ <<q, Combine>> \in Tasks /\ <<q, Combine>> \notin LegTasks
  BY TypesOfQuery, TaskShape DEF Inv, TypeOK, Steps, GateInv
<1>2. at' \in [Tasks -> Steps]
  BY <1>1 DEF TypeOK, Steps
<1>3. CASE Request(q) \/ GiveUp(q)
  <2>1. /\ conn' = conn /\ pool' = pool /\ keyed' = keyed /\ at' = at
        /\ stage[q] \in {"idle", "waiting"}
    BY <1>3 DEF Request, GiveUp
  <2>2. PICK step \in {"idle", "waiting"} : GoTo(q, step)
    BY <1>3 DEF Request, GiveUp
  <2>3. Idle(q)
    BY <2>1, IdleBetween
  <2>4. PoolInv' /\ ConnInv' /\ ThreadInv'
    <3>1. \A t \in Tasks : t[1] = q => at'[t] \notin {"queued", "running", "spilling"}
      BY <2>1, <2>3 DEF Idle, Active
    <3> QED BY <1>2, <2>1, <2>3, <3>1, MarkedWhileIdle
  <2>5. WorkInv'
    BY <2>1, <2>2, <2>3, WorkKept
  <2>6. GateInv'
    <3>1. CASE Request(q)
      <4> DEFINE r == Entered(gate, q, GateLimit)
      <4>1. gate' = r /\ GoTo(q, "waiting") /\ q \notin Members(gate) /\ GateLimit \in Nat
        BY <1>1, <3>1, TaskShape DEF Request, GateInv
      <4>2. /\ Sound(r) /\ Members(r) = Members(gate) \cup {q}
            /\ gate.holders \subseteq r.holders
        BY <1>1, <4>1, EnteredSlots
      <4> HIDE DEF r
      <4>3. /\ Members(r) \ {q} = Members(gate) \ {q} /\ gate.holders \ {q} \subseteq r.holders
            /\ q \in Members(r) <=> "waiting" = "waiting"
        BY <4>2
      <4> QED BY <4>1, <4>2, <4>3, GateMoved
    <3>2. CASE GiveUp(q)
      <4>1. q \in Members(gate) /\ GoTo(q, "idle")
        BY <1>1, <3>2 DEF GiveUp, GateInv
      <4>2. q \notin gate.holders => InLine(gate, q)
        BY <1>1, <4>1 DEF Members, InLine, ToSet, Slots
      <4>3. PICK r : /\ gate' = r /\ Sound(r) /\ Members(r) = Members(gate) \ {q}
                     /\ gate.holders \ {q} \subseteq r.holders
        <5>1. CASE q \in gate.holders
          BY <1>1, <3>2, <5>1, LeftSlots DEF GiveUp
        <5>2. CASE q \notin gate.holders
          <6>1. /\ Sound(GaveUp(gate, q)) /\ Members(GaveUp(gate, q)) = Members(gate) \ {q}
                /\ GaveUp(gate, q).holders = gate.holders
            BY <1>1, <4>2, <5>2, GaveUpSlots
          <6>2. gate' = GaveUp(gate, q)
            BY <3>2, <5>2 DEF GiveUp
          <6> QED BY <6>1, <6>2
        <5> QED BY <5>1, <5>2
      <4>4. /\ Members(r) \ {q} = Members(gate) \ {q}
            /\ q \in Members(r) <=> "idle" = "waiting"
        BY <4>3
      <4> QED BY <4>1, <4>3, <4>4, GateMoved
    <3> QED BY <1>3, <3>1, <3>2
  <2> QED BY <1>1, <2>4, <2>5, <2>6 DEF Inv
<1>4. CASE Start(q) \/ Inject(q)
  <2>1. /\ gate' = gate /\ conn' = conn /\ pool' = pool /\ q \in gate.holders
    BY <1>1, <1>4 DEF Start, Inject, GateInv
  <2>2. PICK legs \in SUBSET Legs, step \in {"first", "rest"} :
           /\ Ask(q, legs) /\ GoTo(q, step)
           /\ \A r \in Queries \ {q} : keyed'[r] = keyed[r]
           /\ legs = IF step = "first" THEN keyed'[q] ELSE Legs \ keyed'[q]
    <3>1. CASE Start(q)
      <4>1. PICK legs \in SUBSET (Legs \ {Fact}) :
               /\ keyed' = [keyed EXCEPT ![q] = legs]
               /\ GoTo(q, IF legs = {} THEN "rest" ELSE "first")
               /\ Ask(q, IF legs = {} THEN Legs ELSE legs)
        BY <3>1 DEF Start
      <4>2. keyed'[q] = legs /\ \A r \in Queries \ {q} : keyed'[r] = keyed[r]
        BY <1>1, <4>1
      <4>3. CASE legs = {}
        <5>1. Ask(q, Legs) /\ GoTo(q, "rest") /\ Legs = Legs \ keyed'[q]
          BY <4>1, <4>2, <4>3
        <5> QED BY <4>2, <5>1
      <4>4. CASE legs # {}
        <5>1. Ask(q, legs) /\ GoTo(q, "first") /\ legs = keyed'[q] /\ legs \in SUBSET Legs
          BY <4>1, <4>2, <4>4
        <5> QED BY <4>2, <5>1
      <4> QED BY <4>3, <4>4
    <3>2. CASE Inject(q)
      <4>1. Ask(q, Legs \ keyed[q]) /\ GoTo(q, "rest") /\ keyed' = keyed
        BY <3>2 DEF Inject
      <4> QED BY <4>1
    <3> QED BY <1>4, <3>1, <3>2
  <2>3. Idle(q)
    <3>1. \/ stage[q] = "waiting"
          \/ stage[q] = "first" /\ \A t \in Gathered(q) : Ended(t)
      BY <1>4 DEF Start, Inject, Ended
    <3> QED BY <3>1, IdleBetween
  <2>4. WorkInv'
    BY <2>2, <2>3, WorkAsked
  <2>5. GateInv'
    BY <2>1, <2>2, GateKept
  <2>6. PoolInv' /\ ConnInv' /\ ThreadInv'
    <3>1. \A t \in Tasks : at'[t] = IF t \in {q} \X legs THEN "asked" ELSE at[t]
      BY <2>2 DEF Ask
    <3>2. \A t \in {q} \X legs : t[1] = q
      OBVIOUS
    <3>3. \A t \in Tasks : t[1] # q => at'[t] = at[t]
      BY <3>1, <3>2
    <3>4. \A t \in Tasks : t[1] = q => at'[t] \notin {"queued", "running", "spilling"}
      BY <2>3, <3>1 DEF Idle, Active
    <3> QED BY <1>2, <2>1, <2>3, <3>3, <3>4, MarkedWhileIdle
  <2> QED BY <1>1, <2>4, <2>5, <2>6 DEF Inv
<1>5. CASE SpillDirFails(q) \/ Fail(q) \/ Close(q)
  <2>1. /\ gate' = gate /\ conn' = conn /\ pool' = pool /\ keyed' = keyed /\ at' = at
        /\ q \in gate.holders
    BY <1>1, <1>5 DEF SpillDirFails, Fail, Close, GateInv
  <2>2. PICK step \in {"closing", "ended"} : GoTo(q, step)
    BY <1>5 DEF SpillDirFails, Fail, Close
  <2>3. Idle(q)
    BY <1>5, IdleBetween DEF SpillDirFails, Fail, Close
  <2>4. \A t \in Tasks : t[1] = q => at'[t] \notin {"queued", "running", "spilling"}
    BY <2>1, <2>3 DEF Idle, Active
  <2>5. PoolInv' /\ ConnInv' /\ ThreadInv'
    BY <1>2, <2>1, <2>3, <2>4, MarkedWhileIdle
  <2>6. WorkInv' /\ GateInv'
    BY <2>1, <2>2, <2>3, WorkKept, GateKept
  <2> QED BY <1>1, <2>5, <2>6 DEF Inv
<1>6. CASE AdmittedDone(q)
  <2>1. /\ conn' = conn /\ pool' = pool /\ GoTo(q, "idle") /\ stage[q] = "ended"
        /\ keyed' = [keyed EXCEPT ![q] = {}]
        /\ at' = [t \in Tasks |-> IF t[1] = q THEN "none" ELSE at[t]]
        /\ q \in gate.holders /\ gate' = Left(gate, q)
    BY <1>1, <1>6 DEF AdmittedDone, GateInv
  <2>2. Idle(q)
    BY <2>1, IdleBetween
  <2>3. \A t \in Tasks : at'[t] = IF t[1] = q THEN "none" ELSE at[t]
    BY <2>1
  <2>4. PoolInv' /\ ConnInv' /\ ThreadInv'
    BY <1>2, <2>1, <2>2, <2>3, MarkedWhileIdle
  <2>5. WorkInv'
    <3>1. \A r \in Queries \ {q} : keyed'[r] = keyed[r]
      BY <1>1, <2>1
    <3> QED BY <2>1, <2>2, <2>3, <3>1, WorkKept
  <2>6. GateInv'
    <3> DEFINE r == Left(gate, q)
    <3>1. /\ Sound(r) /\ Members(r) = Members(gate) \ {q}
          /\ gate.holders \ {q} \subseteq r.holders
      BY <1>1, <2>1, LeftSlots
    <3>2. gate' = r
      BY <2>1
    <3> HIDE DEF r
    <3>3. /\ Members(r) \ {q} = Members(gate) \ {q}
          /\ q \in Members(r) <=> "idle" = "waiting"
      BY <3>1
    <3> QED BY <2>1, <3>1, <3>2, <3>3, GateMoved
  <2> QED BY <1>1, <2>4, <2>5, <2>6 DEF Inv
<1>7. CASE SubmitCombine(q) \/ TakeCombine(q) \/ EndCombine(q)
  <2> DEFINE c == <<q, Combine>>
  <2>1. /\ gate' = gate /\ conn' = conn /\ keyed' = keyed
    BY <1>7 DEF SubmitCombine, TakeCombine, EndCombine
  <2>2. PICK step \in {"queued", "running", "done"} : Move(c, step)
    BY <1>7 DEF SubmitCombine, TakeCombine, EndCombine
  <2>3. \A t \in Tasks : at'[t] = IF t = c THEN step ELSE at[t]
    BY <1>1, <2>2 DEF Move
  <2>4. \A t \in LegTasks : at'[t] = at[t]
    BY <2>3, TaskShape
  <2>5. ConnInv'
    BY <2>1, <2>4 DEF Inv, ConnInv, Holding, SourceOf, Sound, Members
  <2>6. CASE SubmitCombine(q)
    <3>1. /\ stage[q] = "rest" /\ \A t \in Gathered(q) : at[t] = "done"
          /\ GoTo(q, "combine") /\ Move(c, "queued") /\ pool' = Append(pool, c)
      BY <2>6 DEF SubmitCombine
    <3>2. Idle(q)
      BY <3>1, IdleBetween DEF Ended
    <3>3. at[c] # "queued"
      BY <1>1, <3>2 DEF Idle, Active
    <3>4. PoolInv'
      BY <1>1, <3>1, <3>3, PoolAppended
    <3>5. \A t \in Tasks : at'[t] = IF t = c THEN "queued" ELSE at[t]
      BY <1>1, <3>1 DEF Move
    <3>6. ThreadInv'
      <4>1. OnThreads' \subseteq OnThreads
        BY <3>5 DEF OnThreads
      <4> QED BY <4>1, ThreadsKept
    <3>7. GateInv'
      <4>1. q \in gate.holders
        BY <1>1, <3>1 DEF GateInv
      <4> QED BY <2>1, <3>1, <4>1, GateKept
    <3>8. WorkInv'
      <4>1. \A r \in Queries : stage'[r] = IF r = q THEN "combine" ELSE stage[r]
        BY <3>1 DEF GoTo, Inv, TypeOK
      <4>2. ASSUME NEW t \in LegTasks, at'[t] \in Active
            PROVE  stage'[t[1]] \in {"first", "rest"} /\ t \in Gathered(t[1])'
        <5>1. t \in Tasks /\ t[1] \in Queries /\ at[t] \in Active
          BY <2>4, <4>2, TaskShape
        <5>2. t[1] # q
          BY <3>2, <5>1 DEF Idle
        <5>3. stage'[t[1]] = stage[t[1]]
          BY <4>1, <5>1, <5>2
        <5> QED BY <1>1, <2>1, <5>1, <5>3 DEF WorkInv, Gathered
      <4>3. ASSUME NEW r \in Queries
            PROVE  /\ at'[<<r, Combine>>] \in {"none", "queued", "running", "done"}
                   /\ at'[<<r, Combine>>] \in {"queued", "running"} => stage'[r] = "combine"
        <5>1. CASE r = q
          BY <1>1, <3>5, <4>1, <5>1
        <5>2. CASE r # q
          <6>1. <<r, Combine>> \in Tasks /\ <<r, Combine>> # c
            BY <5>2, TaskShape
          <6> QED BY <1>1, <3>5, <4>1, <5>2, <6>1 DEF WorkInv
        <5> QED BY <5>1, <5>2
      <4> QED BY <4>2, <4>3 DEF WorkInv
    <3> QED BY <1>1, <2>5, <3>4, <3>6, <3>7, <3>8 DEF Inv
  <2>7. CASE TakeCombine(q)
    <3>1. /\ NextTask(c) /\ pool' = Tail(pool) /\ Move(c, "running") /\ stage' = stage
      BY <2>7 DEF TakeCombine
    <3>2. at[c] = "queued"
      BY <1>1, <3>1, NextIsQueued
    <3>3. PoolInv' /\ ThreadInv'
      BY <1>1, <3>1, PoolTaken
    <3>4. \A t \in Tasks : at'[t] = IF t = c THEN "running" ELSE at[t]
      BY <1>1, <3>1 DEF Move
    <3>5. WorkInv'
      <4>1. \A r : Gathered(r)' = Gathered(r)
        BY <2>1, <3>1 DEF Gathered
      <4>2. \A r \in Queries :
               /\ at'[<<r, Combine>>] \in {"none", "queued", "running", "done"}
               /\ at'[<<r, Combine>>] \in {"queued", "running"} => stage[r] = "combine"
        <5>1. \A r \in Queries : <<r, Combine>> \in Tasks
          BY TaskShape
        <5> QED BY <1>1, <3>2, <3>4, <5>1 DEF WorkInv
      <4> QED BY <1>1, <2>4, <3>1, <4>1, <4>2 DEF WorkInv
    <3>6. GateInv'
      BY <1>1, <2>1, <3>1 DEF GateInv, Sound, Members
    <3> QED BY <1>1, <2>5, <3>3, <3>5, <3>6 DEF Inv
  <2>8. CASE EndCombine(q)
    <3>1. /\ at[c] = "running" /\ Move(c, "done") /\ GoTo(q, "closing") /\ pool' = pool
      BY <2>8 DEF EndCombine
    <3>2. stage[q] = "combine" /\ q \in gate.holders
      BY <1>1, <3>1 DEF WorkInv, GateInv
    <3>3. \A t \in Tasks : at'[t] = IF t = c THEN "done" ELSE at[t]
      BY <1>1, <3>1 DEF Move
    <3>4. PoolInv'
      <4>1. \A k \in 1..Len(pool) : pool[k] \in Tasks /\ at[pool[k]] = "queued"
        BY DEF Inv, PoolInv, TypeOK
      <4> QED BY <3>1, <3>3, <4>1 DEF Inv, PoolInv
    <3>5. ThreadInv'
      <4>1. OnThreads' \subseteq OnThreads
        BY <3>3 DEF OnThreads
      <4> QED BY <4>1, ThreadsKept
    <3>6. GateInv'
      BY <2>1, <3>1, <3>2, GateKept
    <3>7. WorkInv'
      <4>1. \A r \in Queries : stage'[r] = IF r = q THEN "closing" ELSE stage[r]
        BY <3>1 DEF GoTo, Inv, TypeOK
      <4>2. ASSUME NEW t \in LegTasks, at'[t] \in Active
            PROVE  stage'[t[1]] \in {"first", "rest"} /\ t \in Gathered(t[1])'
        <5>1. t[1] \in Queries /\ at[t] \in Active
          BY <2>4, <4>2, TaskShape
        <5>2. stage[t[1]] \in {"first", "rest"} /\ t \in Gathered(t[1])
          BY <1>1, <5>1 DEF WorkInv
        <5>3. stage'[t[1]] = stage[t[1]]
          BY <3>2, <4>1, <5>1, <5>2
        <5> QED BY <2>1, <5>2, <5>3 DEF Gathered
      <4>3. ASSUME NEW r \in Queries
            PROVE  /\ at'[<<r, Combine>>] \in {"none", "queued", "running", "done"}
                   /\ at'[<<r, Combine>>] \in {"queued", "running"} => stage'[r] = "combine"
        <5>1. CASE r = q
          BY <1>1, <3>3, <5>1
        <5>2. CASE r # q
          <6>1. <<r, Combine>> \in Tasks /\ <<r, Combine>> # c
            BY <5>2, TaskShape
          <6> QED BY <1>1, <3>3, <4>1, <5>2, <6>1 DEF WorkInv
        <5> QED BY <5>1, <5>2
      <4> QED BY <4>2, <4>3 DEF WorkInv
    <3> QED BY <1>1, <2>5, <3>4, <3>5, <3>6, <3>7 DEF Inv
  <2> QED BY <1>7, <2>6, <2>7, <2>8
<1> QED BY <1>3, <1>4, <1>5, <1>6, <1>7 DEF OnLoop, OfCombine

-----------------------------------------------------------------------------
(* The theorems                                                            *)

LEMMA InitHolds == Init => Inv
<1> SUFFICES ASSUME Init PROVE Inv
  OBVIOUS
<1>1. \A S : NoSlots \in Slots(S) /\ Sound(NoSlots) /\ Members(NoSlots) = {}
  BY DEF NoSlots, Slots, Sound, Members, ToSet
<1>2. TypeOK
  BY <1>1 DEF Init, TypeOK
<1>3. GateInv
  BY <1>1 DEF Init, GateInv
<1>4. WorkInv
  BY TaskShape DEF Init, WorkInv, Active
<1>5. PoolInv
  BY DEF Init, PoolInv
<1>6. ConnInv
  BY <1>1, TaskShape DEF Init, ConnInv
<1>7. ThreadInv
  <2>1. OnThreads = {}
    BY DEF Init, OnThreads
  <2> QED BY <2>1, FS_EmptySet, TaskShape DEF ThreadInv
<1> QED BY <1>2, <1>3, <1>4, <1>5, <1>6, <1>7 DEF Inv

LEMMA NextKeeps == Inv /\ [Next]_vars => Inv'
<1> SUFFICES ASSUME Inv, [Next]_vars PROVE Inv'
  OBVIOUS
<1>1. CASE UNCHANGED vars
  <2>1. \A q : Gathered(q)' = Gathered(q)
    BY <1>1 DEF vars, Gathered
  <2>2. TypeOK'
    BY <1>1 DEF vars, spillVars, Inv, TypeOK
  <2>3. ConnInv'
    BY <1>1 DEF vars, Inv, ConnInv, Holding, SourceOf, Sound, Members
  <2>4. GateInv' /\ WorkInv' /\ PoolInv' /\ ThreadInv'
    BY <1>1, <2>1
       DEF vars, Inv, GateInv, WorkInv, PoolInv, ThreadInv, OnThreads, Sound, Members
  <2> QED BY <2>2, <2>3, <2>4 DEF Inv
<1>2. ASSUME NEW q \in Queries, Request(q) \/ GiveUp(q) \/ OnLoop(q) \/ OfCombine(q)
      PROVE  Inv'
  BY <1>2, QueryStep
<1>3. ASSUME NEW t \in LegTasks, OfLeg(t) \/ TimeOut(t)
      PROVE  Inv'
  BY <1>3, LegStep
<1>4. ASSUME NEW u \in Others, OtherEnters(u) \/ OtherLeaves(u)
      PROVE  Inv'
  <2>1. TypeOK' /\ ConnInv'
    BY <1>4, OthersKeep
  <2>2. gate' = gate /\ pool' = pool /\ stage' = stage /\ keyed' = keyed /\ at' = at
    BY <1>4 DEF OtherEnters, OtherLeaves
  <2>3. \A q : Gathered(q)' = Gathered(q)
    BY <2>2 DEF Gathered
  <2>4. GateInv' /\ WorkInv' /\ PoolInv' /\ ThreadInv'
    BY <2>2, <2>3
       DEF Inv, GateInv, WorkInv, PoolInv, ThreadInv, OnThreads, Sound, Members
  <2> QED BY <2>1, <2>4 DEF Inv
<1> QED BY <1>1, <1>2, <1>3, <1>4 DEF Next

LEMMA InvAlways == Spec => []Inv
  BY InitHolds, NextKeeps, PTL DEF Spec

\* The types hold in every reachable state: the fact leg, for one, is never
\* among the legs it waits for.
THEOREM TypesHold == Spec => []TypeOK
<1>1. Inv => TypeOK
  BY DEF Inv
<1> QED BY <1>1, InvAlways, PTL

\* A query's slot at the gate covers all the work done for it in the pool:
\* no leg or combine step outlives the slot or the spill directory it runs
\* under, whichever of its legs fail and in whatever order.
THEOREM SlotsCoverWork == Spec => []SlotCoversWork
<1>1. Inv => SlotCoversWork
  <2> SUFFICES ASSUME Inv, NEW t \in Tasks, at[t] \in {"queued", "running", "spilling"}
               PROVE  t[1] \in gate.holders /\ stage[t[1]] \in {"first", "rest", "combine"}
    BY DEF SlotCoversWork
  <2>1. t[1] \in Queries
    BY DEF Tasks
  <2>2. stage[t[1]] \in {"first", "rest", "combine"}
    <3>1. CASE t \in LegTasks
      BY <3>1 DEF Inv, WorkInv, Active
    <3>2. CASE t \notin LegTasks
      <4>1. PICK q \in Queries : t = <<q, Combine>>
        BY <3>2, TaskShape
      <4> QED BY <4>1 DEF Inv, WorkInv
    <3> QED BY <3>1, <3>2
  <2> QED BY <2>1, <2>2 DEF Inv, GateInv
<1> QED BY <1>1, InvAlways, PTL

\* Connections and threads are accounted for exactly: a leg has to do with
\* the connection slots of its own source alone, and only while it is on a
\* thread, of which there are no more than the pool has.
THEOREM ConnectionsHeldExactly == Spec => []ConnectionsExact
<1>1. Inv => ConnectionsExact
  BY DEF Inv, ConnInv, ThreadInv, ConnectionsExact, Members
<1> QED BY <1>1, InvAlways, PTL

-----------------------------------------------------------------------------
(* The spilled bytes                                                       *)

\* The batches on disk can be counted, those of one query too.
LEMMA DiskFinite ==
    /\ IsFiniteSet(OnDisk) /\ Cardinality(OnDisk) \in Nat
    /\ \A q, n : n \in Nat => Cardinality({q} \X (1..n)) = n
<1>1. IsFiniteSet(1..SpillMax)
  BY FS_Interval, FederatedRunAssumption
<1>2. IsFiniteSet(Queries \X (1..SpillMax))
  BY <1>1, FS_Product, FederatedRunAssumption
<1>3. IsFiniteSet(OnDisk) /\ Cardinality(OnDisk) \in Nat
  BY <1>2, FS_Subset, FS_CardinalityType DEF OnDisk
<1>4. ASSUME NEW q, NEW n \in Nat PROVE Cardinality({q} \X (1..n)) = n
  <2>1. IsFiniteSet(1..n) /\ Cardinality(1..n) = n
    BY FS_Interval
  <2>2. IsFiniteSet({q}) /\ Cardinality({q}) = 1
    BY FS_Singleton
  <2> QED BY <2>1, <2>2, FS_Product
<1> QED BY <1>3, <1>4

\* reserve finds room with both limits, and counts one batch in both.
LEMMA Reserved ==
    ASSUME Inv, SpillExact, NEW q \in Queries, stage[q] \in {"first", "rest"},
           QueryHasRoom(q), ProcessHasRoom, Reserve(q), stage' = stage
    PROVE  SpillExact'
<1> DEFINE b == <<q, written[q] + 1>>
<1>1. /\ written \in [Queries -> Nat] /\ spilled \in Int
      /\ SpillMax \in Nat /\ SpillBudget \in Nat
  BY FederatedRunAssumption DEF Inv, TypeOK
<1>2. /\ \A r \in Queries : written'[r] = IF r = q THEN written[q] + 1 ELSE written[r]
      /\ spilled' = spilled + 1
  BY <1>1 DEF Reserve
<1>3. OnDisk' = OnDisk \cup {b} /\ b \notin OnDisk
  <2>1. b \in Queries \X (1..SpillMax)
    BY <1>1 DEF QueryHasRoom
  <2>2. \A c \in Queries \X (1..SpillMax) :
            c[2] <= written'[c[1]] <=> c[2] <= written[c[1]] \/ c = b
    <3> SUFFICES ASSUME NEW r \in Queries, NEW n \in 1..SpillMax
                 PROVE  n <= written'[r] <=> n <= written[r] \/ <<r, n>> = b
      OBVIOUS
    <3>1. n \in Nat /\ written[r] \in Nat
      BY <1>1
    <3>2. CASE r = q
      BY <1>2, <3>1, <3>2
    <3>3. CASE r # q
      BY <1>2, <3>3
    <3> QED BY <3>2, <3>3
  <2>3. ~(b[2] <= written[b[1]])
    BY <1>1
  <2> HIDE DEF b
  <2> QED BY <2>1, <2>2, <2>3 DEF OnDisk
<1>4. Cardinality(OnDisk') = Cardinality(OnDisk) + 1
  BY <1>3, DiskFinite, FS_AddElement
<1>5. spilled' = Cardinality(OnDisk') /\ spilled' <= SpillBudget
  BY <1>2, <1>4 DEF SpillExact, ProcessHasRoom
<1>6. ASSUME NEW r \in Queries
      PROVE  /\ written'[r] <= SpillMax
             /\ stage'[r] \in {"idle", "waiting", "ended"} => written'[r] = 0
  BY <1>1, <1>2 DEF SpillExact, QueryHasRoom
<1> QED BY <1>5, <1>6 DEF SpillExact

\* QuerySpill.close gives back what the query wrote, no more and no less.
LEMMA Closed ==
    ASSUME Inv, SpillExact, NEW q \in Queries, Close(q)
    PROVE  SpillExact'
<1> DEFINE share == {q} \X (1..written[q])
<1>1. /\ written \in [Queries -> Nat] /\ spilled \in Int
      /\ SpillMax \in Nat /\ SpillBudget \in Nat
      /\ DOMAIN stage = Queries
  BY FederatedRunAssumption DEF Inv, TypeOK
<1>2. /\ \A r \in Queries : written'[r] = IF r = q THEN 0 ELSE written[r]
      /\ \A r \in Queries : stage'[r] = IF r = q THEN "ended" ELSE stage[r]
      /\ spilled' = spilled - written[q]
  BY <1>1 DEF Close, GoTo
<1>3. written[q] <= SpillMax
  BY DEF SpillExact
<1>4. OnDisk' = OnDisk \ share /\ OnDisk \cap share = share
  <2>1. \A r \in Queries, n \in 1..SpillMax :
            /\ n <= written'[r] <=> n <= written[r] /\ r # q
            /\ <<r, n>> \in share <=> r = q /\ n <= written[q]
    BY <1>1, <1>2, <1>3
  <2>2. share \subseteq Queries \X (1..SpillMax)
    BY <1>1, <1>3
  <2> HIDE DEF share
  <2>3. \A c \in Queries \X (1..SpillMax) :
            /\ c[2] <= written'[c[1]] <=> c[2] <= written[c[1]] /\ c[1] # q
            /\ c \in share <=> c[1] = q /\ c[2] <= written[q]
    BY <2>1
  <2> QED BY <2>2, <2>3 DEF OnDisk
<1>5. Cardinality(share) = written[q]
  BY <1>1, DiskFinite
<1> HIDE DEF share
<1>6. Cardinality(OnDisk') = Cardinality(OnDisk) - written[q]
  <2>1. Cardinality(OnDisk \ share) = Cardinality(OnDisk) - Cardinality(OnDisk \cap share)
    BY DiskFinite, FS_Difference
  <2> QED BY <1>4, <1>5, <2>1
<1>7. spilled' = Cardinality(OnDisk') /\ spilled' <= SpillBudget
  BY <1>1, <1>2, <1>6 DEF SpillExact
<1> QED BY <1>1, <1>2, <1>7 DEF SpillExact

\* A query moves on and writes nothing.
LEMMA SpillKept ==
    ASSUME Inv, SpillExact, UNCHANGED <<written, spilled>>,
           \A q \in Queries : stage'[q] \in {"idle", "waiting", "ended"} =>
                                 stage[q] \in {"idle", "waiting", "ended"}
    PROVE  SpillExact'
<1>1. OnDisk' = OnDisk
  BY DEF OnDisk
<1> QED BY <1>1 DEF SpillExact

\* The process's count of spilled batches is that of the batches its queries
\* have on disk, in the limits of each and of all, and a query that has ended
\* has given back its share: whichever leg failed at whichever batch, and
\* whatever other queries wrote at that moment.
THEOREM SpillIsExact == Spec => []SpillExact
<1>1. Init => SpillExact
  <2> SUFFICES ASSUME Init PROVE SpillExact
    OBVIOUS
  <2>1. OnDisk = {}
    BY DEF Init, OnDisk
  <2> QED BY <2>1, FS_EmptySet, FederatedRunAssumption DEF Init, SpillExact
<1>2. ASSUME Inv, SpillExact, [Next]_vars PROVE SpillExact'
  <2>0. DOMAIN stage = Queries
    BY <1>2 DEF Inv, TypeOK
  <2>1. ASSUME NEW q \in Queries,
               \/ Request(q) \/ GiveUp(q) \/ Start(q) \/ SpillDirFails(q) \/ Fail(q)
               \/ Inject(q) \/ SubmitCombine(q) \/ AdmittedDone(q) \/ OfCombine(q)
        PROVE  SpillExact'
    <3>1. UNCHANGED <<written, spilled>>
      BY <2>1 DEF Request, GiveUp, Start, SpillDirFails, Fail, Inject, SubmitCombine,
                  AdmittedDone, OfCombine, TakeCombine, EndCombine, spillVars
    <3>2. \/ stage' = stage
          \/ \E step \in {"first", "rest", "combine", "closing"} : GoTo(q, step)
          \/ /\ stage[q] \in {"idle", "waiting", "ended"}
             /\ \E step \in {"idle", "waiting", "ended"} : GoTo(q, step)
      BY <2>1 DEF Request, GiveUp, Start, SpillDirFails, Fail, Inject, SubmitCombine,
                  AdmittedDone, OfCombine, TakeCombine, EndCombine
    <3>3. \A r \in Queries : stage'[r] \in {"idle", "waiting", "ended"} =>
                                stage[r] \in {"idle", "waiting", "ended"}
      BY <2>0, <3>2 DEF GoTo
    <3> QED BY <1>2, <3>1, <3>3, SpillKept
  <2>2. ASSUME NEW q \in Queries, Close(q) PROVE SpillExact'
    BY <1>2, <2>2, Closed
  <2>3. ASSUME NEW t \in LegTasks, OfLeg(t) \/ TimeOut(t) PROVE SpillExact'
    <3>1. stage' = stage
      BY <2>3 DEF OfLeg, Hit, HitRefused, Submit, TakeLeg, DriverFails, HoldBatch, TooLarge,
                  EndStream, ResultRefused, StartSpill, WriteBatch, DiskFull, NoRoom, TimeOut
    <3>2. CASE WriteBatch(t) \/ DiskFull(t)
      <4>1. at[t] = "spilling" /\ t[1] \in Queries
        BY <3>2, TaskShape DEF WriteBatch, DiskFull
      <4>2. stage[t[1]] \in {"first", "rest"}
        BY <1>2, <4>1 DEF Inv, WorkInv, Active
      <4> QED BY <1>2, <3>1, <3>2, <4>1, <4>2, Reserved DEF WriteBatch, DiskFull
    <3>3. CASE ~(WriteBatch(t) \/ DiskFull(t))
      <4>1. UNCHANGED <<written, spilled>>
        BY <2>3, <3>3 DEF OfLeg, Hit, HitRefused, Submit, TakeLeg, DriverFails, HoldBatch,
              TooLarge, EndStream, ResultRefused, StartSpill, NoRoom, TimeOut, spillVars
      <4> QED BY <1>2, <3>1, <4>1, SpillKept
    <3> QED BY <3>2, <3>3
  <2>4. ASSUME NEW u \in Others, OtherEnters(u) \/ OtherLeaves(u) PROVE SpillExact'
    BY <1>2, <2>4, SpillKept DEF OtherEnters, OtherLeaves, spillVars
  <2>5. CASE UNCHANGED vars
    BY <1>2, <2>5, SpillKept DEF vars, spillVars
  <2> QED BY <1>2, <2>1, <2>2, <2>3, <2>4, <2>5 DEF Next, OnLoop
<1> QED BY <1>1, <1>2, InvAlways, PTL DEF Spec

-----------------------------------------------------------------------------
(* The gate is FifoSlots                                                   *)

LEMMA BeforeIs ==
    ASSUME NEW q \in Queries
    PROVE  /\ Before(q) = {r \in Queries : Precedes(gate.line, r, q)}
           /\ Before(q)' = {r \in Queries : Precedes(gate'.line, r, q)}
BY DEF Before, Precedes

\* What the invariant says of the gate.
LEMMA GateIs ==
    ASSUME Inv
    PROVE  /\ gate = [holders |-> gate.holders, line |-> gate.line]
           /\ gate.line \in Seq(Queries) /\ Once(gate.line)
           /\ gate.holders \cap ToSet(gate.line) = {}
           /\ ToSet(gate.line) \subseteq Queries
           /\ ToSet(gate.line) = {} <=> gate.line = <<>>
<1>1. /\ gate \in Slots(Queries) /\ Sound(gate)
  BY DEF Inv, TypeOK, GateInv
<1>2. gate = [holders |-> gate.holders, line |-> gate.line] /\ gate.line \in Seq(Queries)
  BY <1>1 DEF Slots
<1>3. ASSUME NEW s \in Seq(Queries)
      PROVE  ToSet(s) \subseteq Queries /\ (ToSet(s) = {} <=> s = <<>>)
  <2>1. DOMAIN s = 1..Len(s) /\ Len(s) \in Nat /\ (s = <<>> <=> Len(s) = 0)
    OBVIOUS
  <2>2. ToSet(s) \subseteq Queries
    BY <2>1 DEF ToSet
  <2>3. s # <<>> => s[1] \in ToSet(s)
    BY <2>1 DEF ToSet
  <2>4. s = <<>> => ToSet(s) = {}
    BY <2>1 DEF ToSet
  <2> QED BY <2>2, <2>3, <2>4
<1> QED BY <1>1, <1>2, <1>3 DEF Sound, Once

LEMMA SameGate ==
    ASSUME gate' = gate
    PROVE  UNCHANGED Admission!vars
BY DEF Admission!vars, Before

\* A query leaves the line and the others keep their order.
LEMMA LineWithout ==
    ASSUME NEW c \in Queries,
           ToSet(gate'.line) = ToSet(gate.line) \ {c},
           \A u, v : Precedes(gate'.line, u, v) <=> u # c /\ v # c /\ Precedes(gate.line, u, v)
    PROVE  Admission!WaitsNoMore(c)
<1>1. \A d \in Queries : Before(d)' = IF d = c THEN {} ELSE Before(d) \ {c}
  BY BeforeIs
<1>2. [q \in Queries |-> Before(q)]'
         = [d \in Queries |-> IF d = c THEN {} ELSE [q \in Queries |-> Before(q)][d] \ {c}]
  BY <1>1
<1> QED BY <1>2 DEF Admission!WaitsNoMore

LEMMA GateEnters ==
    ASSUME Inv, NEW q \in Queries, Request(q)
    PROVE  Admission!Enter(q)
<1>1. /\ q \notin gate.holders \cup ToSet(gate.line)
      /\ gate' = Entered(gate, q, GateLimit)
      /\ Admission!Cardinality(gate.holders) = Cardinality(gate.holders)
  BY DEF Inv, GateInv, Members, Request, Admission!Cardinality, Cardinality
<1>2. CASE GateLimit = 0 \/ (Cardinality(gate.holders) < GateLimit /\ gate.line = <<>>)
  <2>1. gate' = [holders |-> gate.holders \cup {q}, line |-> gate.line]
    BY <1>1, <1>2, GateIs DEF Entered
  <2>2. gate'.holders = gate.holders \cup {q} /\ gate'.line = gate.line
    BY <2>1
  <2>3. Admission!Free
    BY <1>1, <1>2, GateIs DEF Admission!Free
  <2>4. \A d \in Queries : Before(d)' = Before(d)
    BY <2>2, BeforeIs
  <2> QED BY <1>1, <2>2, <2>3, <2>4 DEF Admission!Enter
<1>3. CASE ~(GateLimit = 0 \/ (Cardinality(gate.holders) < GateLimit /\ gate.line = <<>>))
  <2>1. gate' = [holders |-> gate.holders, line |-> Append(gate.line, q)]
    BY <1>1, <1>3, GateIs DEF Entered
  <2>2. gate'.holders = gate.holders /\ gate'.line = Append(gate.line, q)
    BY <2>1
  <2>3. ~Admission!Free
    BY <1>1, <1>3, GateIs DEF Admission!Free
  <2>4. /\ ToSet(gate'.line) = ToSet(gate.line) \cup {q}
        /\ \A u, c : Precedes(gate'.line, u, c) <=>
              IF c = q THEN u \in ToSet(gate.line) ELSE Precedes(gate.line, u, c)
    BY <1>1, <2>2, GateIs, Joined
  <2>5. \A d \in Queries : Before(d)' = IF d = q THEN ToSet(gate.line) ELSE Before(d)
    BY <2>4, GateIs, BeforeIs
  <2>6. [d \in Queries |-> Before(d)]' =
           [[d \in Queries |-> Before(d)] EXCEPT ![q] = ToSet(gate.line)]
    BY <2>5
  <2> QED BY <1>1, <2>2, <2>3, <2>4, <2>6 DEF Admission!Enter
<1> QED BY <1>2, <1>3

LEMMA GateLeaves ==
    ASSUME Inv, NEW q \in gate.holders, q \in Queries, gate' = Left(gate, q)
    PROVE  Admission!Leave(q)
<1>1. CASE gate.line = <<>>
  <2>1. gate' = [holders |-> gate.holders \ {q}, line |-> gate.line]
    BY <1>1, GateIs DEF Left
  <2>2. gate'.holders = gate.holders \ {q} /\ gate'.line = gate.line
    BY <2>1
  <2>3. \A d \in Queries : Before(d)' = Before(d)
    BY <2>2, BeforeIs
  <2> QED BY <1>1, <2>2, <2>3, GateIs DEF Admission!Leave
<1>2. CASE gate.line # <<>>
  <2>0. PICK h \in Queries : h = Head(gate.line)
    BY <1>2, GateIs, HeadDropped
  <2>1. gate' = [holders |-> (gate.holders \ {q}) \cup {h}, line |-> Tail(gate.line)]
    BY <1>2, <2>0 DEF Left
  <2>2. gate'.holders = (gate.holders \ {q}) \cup {h} /\ gate'.line = Tail(gate.line)
    BY <2>1
  <2>3. /\ h \in ToSet(gate.line)
        /\ ToSet(gate'.line) = ToSet(gate.line) \ {h}
        /\ \A u, c : Precedes(gate'.line, u, c) <=>
              u # h /\ c # h /\ Precedes(gate.line, u, c)
        /\ \A u : ~Precedes(gate.line, u, h)
    <3> DEFINE line == gate.line
    <3>1. line \in Seq(Queries) /\ Once(line) /\ line # <<>>
      BY <1>2, GateIs
    <3> HIDE DEF line
    <3>2. /\ Head(line) \in ToSet(line)
          /\ ToSet(Tail(line)) = ToSet(line) \ {Head(line)}
          /\ \A u, c : Precedes(Tail(line), u, c) <=>
                u # Head(line) /\ c # Head(line) /\ Precedes(line, u, c)
          /\ \A u : ~Precedes(line, u, Head(line))
      BY <3>1, HeadDropped
    <3>3. gate'.line = Tail(line) /\ gate.line = line /\ h = Head(line)
      BY <2>0, <2>2 DEF line
    <3> QED BY <3>2, <3>3
  <2>4. Admission!WaitsNoMore(h)
    BY <2>3, LineWithout
  <2>5. [d \in Queries |-> Before(d)][h] = {}
    BY <2>3, BeforeIs
  <2> QED BY <2>2, <2>3, <2>4, <2>5 DEF Admission!Leave
<1> QED BY <1>1, <1>2

LEMMA GateGivenUp ==
    ASSUME Inv, NEW q \in Queries, InLine(gate, q), gate' = GaveUp(gate, q)
    PROVE  Admission!GiveUp(q)
<1>1. PICK k \in 1..Len(gate.line) :
         /\ gate.line[k] = q
         /\ gate' = [holders |-> gate.holders, line |-> RemoveAt(gate.line, k)]
  BY GateIs DEF InLine, GaveUp
<1>2. gate'.holders = gate.holders /\ gate'.line = RemoveAt(gate.line, k)
  BY <1>1
<1>3. /\ q \in ToSet(gate.line)
      /\ ToSet(gate'.line) = ToSet(gate.line) \ {q}
      /\ \A u, c : Precedes(gate'.line, u, c) <=>
            u # q /\ c # q /\ Precedes(gate.line, u, c)
  BY <1>1, <1>2, GateIs, PlaceDropped
<1>4. Admission!WaitsNoMore(q)
  BY <1>3, LineWithout
<1> QED BY <1>2, <1>3, <1>4 DEF Admission!GiveUp

\* Composed with the pool, the connections and the spill, the gate still is
\* the limiter that AdmissionGate implements: whatever legs do, a slot goes
\* from a query that has ended, and from no other, to the first that waits.
\* SlotsComeBack adds the fairness FifoSlots assumes of its clients, which is
\* TLC's.
THEOREM GateIsFifoSlots == Spec => Admission!Spec
<1>1. Init => Admission!Init
  BY DEF Init, NoSlots, Admission!Init, ToSet, Before
<1>2. ASSUME Inv, [Next]_vars PROVE [Admission!Next]_(Admission!vars)
  <2>1. ASSUME NEW q \in Queries, Request(q) PROVE Admission!Enter(q)
    BY <1>2, <2>1, GateEnters
  <2>2. ASSUME NEW q \in Queries, GiveUp(q) PROVE Admission!Leave(q) \/ Admission!GiveUp(q)
    <3>1. CASE q \in gate.holders
      BY <1>2, <2>2, <3>1, GateLeaves DEF GiveUp
    <3>2. CASE q \notin gate.holders
      <4>1. q \in ToSet(gate.line)
        BY <1>2, <2>2, <3>2 DEF GiveUp, Inv, GateInv, Members
      <4>2. InLine(gate, q)
        BY <1>2, <4>1, GateIs DEF InLine, ToSet
      <4> QED BY <1>2, <2>2, <3>2, <4>2, GateGivenUp DEF GiveUp
    <3> QED BY <3>1, <3>2
  <2>3. ASSUME NEW q \in Queries, AdmittedDone(q) PROVE Admission!Leave(q)
    <3>1. q \in gate.holders /\ gate' = Left(gate, q)
      BY <1>2, <2>3 DEF AdmittedDone, Inv, GateInv
    <3> QED BY <1>2, <3>1, GateLeaves
  <2>4. ASSUME NEW q \in Queries, OnLoop(q) \/ OfCombine(q), ~AdmittedDone(q)
        PROVE  gate' = gate
    BY <2>4 DEF OnLoop, OfCombine, Start, SpillDirFails, Fail, Inject, SubmitCombine, Close,
                TakeCombine, EndCombine
  <2>5. ASSUME NEW t \in LegTasks, OfLeg(t) \/ TimeOut(t) PROVE gate' = gate
    BY <2>5 DEF OfLeg, Hit, HitRefused, Submit, TakeLeg, DriverFails, HoldBatch, TooLarge,
                EndStream, ResultRefused, StartSpill, WriteBatch, DiskFull, NoRoom, TimeOut
  <2>6. ASSUME NEW u \in Others, OtherEnters(u) \/ OtherLeaves(u) PROVE gate' = gate
    BY <2>6 DEF OtherEnters, OtherLeaves
  <2>7. CASE UNCHANGED vars
    BY <2>7, SameGate DEF vars
  <2> QED BY <1>2, <2>1, <2>2, <2>3, <2>4, <2>5, <2>6, <2>7, SameGate DEF Next, Admission!Next
<1> QED BY <1>1, <1>2, InvAlways, PTL DEF Spec, Admission!Spec
=============================================================================
