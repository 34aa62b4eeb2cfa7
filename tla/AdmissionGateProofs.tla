------------------------ MODULE AdmissionGateProofs -------------------------
(***************************************************************************)
(* Proofs about AdmissionGate, for every number of queries and every       *)
(* limit.  The inductive invariant adds to the three that TLC checks what  *)
(* the ticket of a query may be at each point of its run_legs: a release   *)
(* is right because whoever calls it has a granted ticket.                 *)
(***************************************************************************)
EXTENDS AdmissionGate, Integers, SequenceTheorems, FiniteSetTheorems, TLAPS

-----------------------------------------------------------------------------
(* Lines: what joining, leaving and passing over do to one                  *)

\* The line s has nobody twice, and u in front of c.
Once(s) == \A j, k \in 1..Len(s) : s[j] = s[k] => j = k
Precedes(s, u, c) == \E k \in 1..Len(s) : \E j \in 1..(k - 1) : s[j] = u /\ s[k] = c

\* Who joins a line comes behind everybody in it.
LEMMA Joined ==
    ASSUME NEW S, NEW s \in Seq(S), NEW t \in S, t \notin ToSet(s), Once(s)
    PROVE  LET r == Append(s, t) IN
           /\ r \in Seq(S) /\ Once(r)
           /\ ToSet(r) = ToSet(s) \cup {t}
           /\ \A u, c : Precedes(r, u, c) <=> IF c = t THEN u \in ToSet(s) ELSE Precedes(s, u, c)
<1> DEFINE r == Append(s, t)
<1>1. /\ r \in Seq(S) /\ Len(s) \in Nat /\ Len(r) = Len(s) + 1
      /\ DOMAIN r = 1..(Len(s) + 1) /\ DOMAIN s = 1..Len(s)
      /\ \A k \in 1..Len(s) : r[k] = s[k]
      /\ r[Len(s) + 1] = t
  OBVIOUS
<1> HIDE DEF r
<1>2. ToSet(r) = ToSet(s) \cup {t} /\ \A k \in 1..Len(s) : s[k] # t
  BY <1>1 DEF ToSet
<1>3. Once(r)
  BY <1>1, <1>2 DEF Once
<1>4. ASSUME NEW u, NEW c
      PROVE  Precedes(r, u, c) <=> IF c = t THEN u \in ToSet(s) ELSE Precedes(s, u, c)
  <2>1. u \in ToSet(s) <=> \E j \in 1..Len(s) : s[j] = u
    BY <1>1 DEF ToSet
  <2>2. CASE c = t
    <3>1. Precedes(r, u, t) <=> \E j \in 1..Len(s) : s[j] = u
      BY <1>1, <1>2 DEF Precedes
    <3> QED BY <2>1, <2>2, <3>1
  <2>3. CASE c # t
    <3>1. Precedes(r, u, c) => Precedes(s, u, c)
      BY <1>1, <2>3 DEF Precedes
    <3>2. Precedes(s, u, c) => Precedes(r, u, c)
      BY <1>1 DEF Precedes
    <3> QED BY <2>3, <3>1, <3>2
  <2> QED BY <2>2, <2>3
<1> QED BY <1>1, <1>2, <1>3, <1>4 DEF r

\* Who leaves a line, from any place in it, changes nothing for the others.
LEMMA Dropped ==
    ASSUME NEW S, NEW s \in Seq(S), Once(s), NEW k \in 1..Len(s),
           NEW r \in Seq(S), Len(r) = Len(s) - 1,
           \A i \in 1..Len(r) : r[i] = IF i < k THEN s[i] ELSE s[i + 1]
    PROVE  /\ Once(r)
           /\ ToSet(r) = ToSet(s) \ {s[k]}
           /\ \A u, c : Precedes(r, u, c) <=> u # s[k] /\ c # s[k] /\ Precedes(s, u, c)
<1> DEFINE Old(i) == IF i < k THEN i ELSE i + 1
<1>1. /\ Len(s) \in Nat /\ Len(r) \in Nat /\ k \in Nat /\ k >= 1 /\ k <= Len(s)
      /\ DOMAIN s = 1..Len(s) /\ DOMAIN r = 1..Len(r)
  OBVIOUS
<1>2. \A i \in 1..Len(r) : Old(i) \in 1..Len(s) /\ r[i] = s[Old(i)] /\ s[Old(i)] # s[k]
  BY <1>1 DEF Once
<1>3. \A i, j \in 1..Len(r) : i < j <=> Old(i) < Old(j)
  BY <1>1
<1>4. \A i \in 1..Len(s) : i # k => \E j \in 1..Len(r) : Old(j) = i
  <2> SUFFICES ASSUME NEW i \in 1..Len(s), i # k PROVE \E j \in 1..Len(r) : Old(j) = i
    OBVIOUS
  <2>1. CASE i < k
    <3>1. i \in 1..Len(r) /\ Old(i) = i
      BY <1>1, <2>1
    <3> QED BY <3>1
  <2>2. CASE i > k
    <3>1. i - 1 \in 1..Len(r) /\ Old(i - 1) = i
      BY <1>1, <2>2
    <3> QED BY <3>1
  <2> QED BY <2>1, <2>2
<1>5. \A i \in 1..Len(r) : Old(i) \in Nat /\ i \in Nat
  BY <1>1
<1>6. \A i, j \in 1..Len(r) : Old(i) = Old(j) => i = j
  BY <1>1
<1> HIDE DEF Old
<1>7. Once(r)
  BY <1>2, <1>6 DEF Once
<1>8. ToSet(r) = ToSet(s) \ {s[k]}
  <2>1. \A x \in ToSet(r) : x \in ToSet(s) /\ x # s[k]
    BY <1>1, <1>2 DEF ToSet
  <2>2. ASSUME NEW i \in 1..Len(s), s[i] # s[k] PROVE s[i] \in ToSet(r)
    <3>1. PICK j \in 1..Len(r) : Old(j) = i
      BY <1>4, <2>2
    <3> QED BY <1>1, <1>2, <3>1 DEF ToSet
  <2>3. \A x \in ToSet(s) : x # s[k] => x \in ToSet(r)
    BY <1>1, <2>2 DEF ToSet
  <2> QED BY <2>1, <2>3
<1>9. ASSUME NEW u, NEW c
      PROVE  Precedes(r, u, c) <=> u # s[k] /\ c # s[k] /\ Precedes(s, u, c)
  <2>1. ASSUME Precedes(r, u, c) PROVE u # s[k] /\ c # s[k] /\ Precedes(s, u, c)
    <3>1. PICK b \in 1..Len(r) : \E a \in 1..(b - 1) : r[a] = u /\ r[b] = c
      BY <2>1 DEF Precedes
    <3>2. PICK a \in 1..(b - 1) : r[a] = u /\ r[b] = c
      BY <3>1
    <3>3. a \in 1..Len(r) /\ a < b
      BY <1>1
    <3>4. Old(a) \in 1..(Old(b) - 1)
      BY <1>2, <1>3, <1>5, <3>3
    <3> QED BY <1>2, <3>2, <3>3, <3>4 DEF Precedes
  <2>2. ASSUME u # s[k], c # s[k], Precedes(s, u, c) PROVE Precedes(r, u, c)
    <3>1. PICK b \in 1..Len(s) : \E a \in 1..(b - 1) : s[a] = u /\ s[b] = c
      BY <2>2 DEF Precedes
    <3>2. PICK a \in 1..(b - 1) : s[a] = u /\ s[b] = c
      BY <3>1
    <3>3. a \in 1..Len(s) /\ a < b /\ a # k /\ b # k
      BY <1>1, <2>2, <3>2
    <3>4. PICK i \in 1..Len(r) : Old(i) = a
      BY <1>4, <3>3
    <3>5. PICK j \in 1..Len(r) : Old(j) = b
      BY <1>4, <3>3
    <3>6. i \in 1..(j - 1)
      BY <1>1, <1>3, <3>3, <3>4, <3>5
    <3> QED BY <1>2, <3>2, <3>4, <3>5, <3>6 DEF Precedes
  <2> QED BY <2>1, <2>2
<1> QED BY <1>7, <1>8, <1>9

\* RemoveAt takes one out of the line.
LEMMA PlaceDropped ==
    ASSUME NEW S, NEW s \in Seq(S), Once(s), NEW k \in 1..Len(s)
    PROVE  /\ RemoveAt(s, k) \in Seq(S) /\ Once(RemoveAt(s, k))
           /\ s[k] \in S /\ s[k] \in ToSet(s)
           /\ ToSet(RemoveAt(s, k)) = ToSet(s) \ {s[k]}
           /\ \A u, c : Precedes(RemoveAt(s, k), u, c) <=>
                           u # s[k] /\ c # s[k] /\ Precedes(s, u, c)
<1> DEFINE a == SubSeq(s, 1, k - 1)
           b == SubSeq(s, k + 1, Len(s))
           r == RemoveAt(s, k)
<1>1. /\ a \in Seq(S) /\ Len(a) = k - 1 /\ \A i \in 1..(k - 1) : a[i] = s[i]
      /\ b \in Seq(S) /\ Len(b) = Len(s) - k
      /\ \A i \in 1..(Len(s) - k) : b[i] = s[k + i]
      /\ s[k] \in S /\ DOMAIN s = 1..Len(s) /\ Len(s) \in Nat
  OBVIOUS
<1> HIDE DEF a, b
<1>2. /\ a \o b \in Seq(S) /\ Len(a \o b) = Len(s) - 1
      /\ \A i \in 1..(Len(s) - 1) : (a \o b)[i] = IF i <= k - 1 THEN a[i] ELSE b[i - (k - 1)]
  <2>1. /\ a \o b \in Seq(S) /\ Len(a \o b) = Len(a) + Len(b)
        /\ \A i \in 1..(Len(a) + Len(b)) :
              (a \o b)[i] = IF i <= Len(a) THEN a[i] ELSE b[i - Len(a)]
    BY <1>1, ConcatProperties
  <2>2. Len(a) + Len(b) = Len(s) - 1
    BY <1>1
  <2> QED BY <1>1, <2>1, <2>2
<1>3. r = a \o b
  BY DEF RemoveAt, a, b
<1> HIDE DEF r
<1>4. \A i \in 1..Len(r) : r[i] = IF i < k THEN s[i] ELSE s[i + 1]
  <2> SUFFICES ASSUME NEW i \in 1..(Len(s) - 1)
               PROVE  (a \o b)[i] = IF i < k THEN s[i] ELSE s[i + 1]
    BY <1>2, <1>3
  <2>1. CASE i < k
    BY <1>1, <1>2, <2>1
  <2>2. CASE ~(i < k)
    <3>1. i - (k - 1) \in 1..(Len(s) - k) /\ k + (i - (k - 1)) = i + 1
      BY <1>1, <2>2
    <3> QED BY <1>1, <1>2, <2>2, <3>1
  <2> QED BY <2>1, <2>2
<1>5. r \in Seq(S) /\ Len(r) = Len(s) - 1
  BY <1>2, <1>3
<1>6. /\ Once(r) /\ ToSet(r) = ToSet(s) \ {s[k]}
      /\ \A u, c : Precedes(r, u, c) <=> u # s[k] /\ c # s[k] /\ Precedes(s, u, c)
  BY <1>4, <1>5, Dropped
<1>7. s[k] \in ToSet(s)
  BY <1>1 DEF ToSet
<1> QED BY <1>1, <1>5, <1>6, <1>7 DEF r

\* Those behind the k-th place, when everybody before it goes with it.
LEMMA Behind ==
    ASSUME NEW S, NEW s \in Seq(S), Once(s), NEW k \in 1..Len(s), NEW u, NEW c,
           \A i \in 1..Len(s) : s[i] \in {u, c} => i > k
    PROVE  Precedes(SubSeq(s, k + 1, Len(s)), u, c) <=> Precedes(s, u, c)
<1> DEFINE r == SubSeq(s, k + 1, Len(s))
<1>1. /\ Len(r) = Len(s) - k /\ Len(s) \in Nat
      /\ \A i \in 1..(Len(s) - k) : r[i] = s[k + i]
  OBVIOUS
<1> HIDE DEF r
<1>2. ASSUME Precedes(r, u, c) PROVE Precedes(s, u, c)
  <2>1. PICK b \in 1..Len(r) : \E a \in 1..(b - 1) : r[a] = u /\ r[b] = c
    BY <1>2 DEF Precedes
  <2>2. PICK a \in 1..(b - 1) : r[a] = u /\ r[b] = c
    BY <2>1
  <2>3. k + b \in 1..Len(s) /\ k + a \in 1..((k + b) - 1) /\ a \in 1..(Len(s) - k)
    BY <1>1
  <2> QED BY <1>1, <2>2, <2>3 DEF Precedes
<1>3. ASSUME Precedes(s, u, c) PROVE Precedes(r, u, c)
  <2>1. PICK b \in 1..Len(s) : \E a \in 1..(b - 1) : s[a] = u /\ s[b] = c
    BY <1>3 DEF Precedes
  <2>2. PICK a \in 1..(b - 1) : s[a] = u /\ s[b] = c
    BY <2>1
  <2>3. a \in 1..Len(s) /\ a > k /\ b > k
    BY <1>1, <2>2
  <2>4. /\ b - k \in 1..Len(r) /\ a - k \in 1..((b - k) - 1)
        /\ a - k \in 1..(Len(s) - k) /\ b - k \in 1..(Len(s) - k)
        /\ k + (a - k) = a /\ k + (b - k) = b
    BY <1>1, <2>3
  <2>5. r[a - k] = u /\ r[b - k] = c
    BY <1>1, <2>2, <2>4
  <2> QED BY <2>4, <2>5 DEF Precedes
<1> QED BY <1>2, <1>3 DEF r

-----------------------------------------------------------------------------
(* The gate                                                                *)

TicketOf(step) ==
    CASE step = "idle" -> {"none"}
      [] step = "waiting" -> {"pending", "granted"}
      [] step = "leaving" -> {"granted", "cancelled"}
      [] OTHER -> {"granted"}

\* The ticket a query has fits the point it has reached.
TicketFits == \A q \in Queries : ticket[q] \in TicketOf(pc[q])

Inv == TypeOK /\ TicketFits /\ SlotsExact /\ NoIdleSlot

\* max(1, limit) is a positive number.
LEMMA LimitType == Limit \in Nat \ {0}
BY GateAssumption DEF Limit

\* The granted tickets can be counted, with or without a given one.
LEMMA GrantedFinite ==
    /\ IsFiniteSet(Queries)
    /\ IsFiniteSet(Granted) /\ Cardinality(Granted) \in Nat
BY FS_Subset, FS_CardinalityType, GateAssumption DEF Granted

\* A step moves one query and no other.
LEMMA GoToIs ==
    ASSUME TypeOK, NEW q \in Queries, GoTo(q, "idle") \/ GoTo(q, "waiting")
               \/ GoTo(q, "leaving") \/ GoTo(q, "running") \/ GoTo(q, "orphaned")
               \/ GoTo(q, "ended")
    PROVE  /\ pc' \in [Queries -> {"idle", "waiting", "leaving", "running", "orphaned", "ended"}]
           /\ \A u \in Queries : u # q => pc'[u] = pc[u]
BY DEF GoTo, TypeOK

\* One query's ticket changes: what becomes of the granted ones.
LEMMA TicketIs ==
    ASSUME TypeOK, NEW q \in Queries,
           NEW v \in {"none", "pending", "granted", "cancelled"},
           ticket' = [ticket EXCEPT ![q] = v]
    PROVE  /\ ticket' \in [Queries -> {"none", "pending", "granted", "cancelled"}]
           /\ \A u \in Queries : ticket'[u] = IF u = q THEN v ELSE ticket[u]
           /\ Granted' = IF v = "granted" THEN Granted \cup {q} ELSE Granted \ {q}
<1>1. /\ ticket' \in [Queries -> {"none", "pending", "granted", "cancelled"}]
      /\ \A u \in Queries : ticket'[u] = IF u = q THEN v ELSE ticket[u]
  BY DEF TypeOK
<1> QED BY <1>1 DEF Granted

\* A ticket in the deque has a place in it.
LEMMA InLineOnce ==
    ASSUME TypeOK, NEW q \in Queries, q \in ToSet(waiting)
    PROVE  \E k \in 1..Len(waiting) : waiting[k] = q
<1>1. waiting \in Seq(Queries) /\ DOMAIN waiting = 1..Len(waiting)
  BY LenProperties DEF TypeOK
<1> QED BY <1>1 DEF ToSet

\* What a release does, by a query that gives a granted ticket back.
LEMMA PassOnEffect ==
    ASSUME Inv, NEW q \in Queries, ticket[q] = "granted", PassOn(Spent(q))
    PROVE  /\ ticket' \in [Queries -> {"none", "pending", "granted", "cancelled"}]
           /\ ticket'[q] = "none"
           /\ \A u \in Queries : u # q => \/ ticket'[u] = ticket[u]
                                          \/ ticket[u] = "pending" /\ ticket'[u] = "granted"
           /\ active' \in Nat /\ SlotsExact' /\ NoIdleSlot'
           /\ waiting' \in Seq(Queries)
<1> DEFINE settled == Spent(q)
<1>0. /\ active \in Nat /\ active = Cardinality(Granted) /\ active <= Limit
      /\ waiting \in Seq(Queries) /\ DOMAIN waiting = 1..Len(waiting)
      /\ \A k \in 1..Len(waiting) : ticket[waiting[k]] \in {"pending", "cancelled"}
      /\ \A j, k \in 1..Len(waiting) : waiting[j] = waiting[k] => j = k
      /\ waiting # <<>> => active = Limit
      /\ Limit \in Nat
  BY LenProperties, LimitType DEF Inv, TypeOK, SlotsExact, NoIdleSlot
<1>1. /\ settled \in [Queries -> {"none", "pending", "granted", "cancelled"}]
      /\ \A u \in Queries : settled[u] = IF u = q THEN "none" ELSE ticket[u]
  BY DEF Inv, TypeOK, Spent
<1>2. q \in Granted /\ Cardinality(Granted \ {q}) = Cardinality(Granted) - 1
      /\ IsFiniteSet(Granted \ {q}) /\ Cardinality(Granted) # 0
  <2>1. q \in Granted
    BY DEF Granted
  <2> QED BY <2>1, GrantedFinite, FS_RemoveElement, FS_EmptySet
<1>3. \A k \in 1..Len(waiting) : waiting[k] \in Queries /\ waiting[k] # q
  BY <1>0
<1> HIDE DEF settled
<1>4. CASE /\ \A k \in 1..Len(waiting) : settled[waiting[k]] # "pending"
           /\ active' = active - 1 /\ waiting' = <<>> /\ ticket' = settled
  <2>1. Granted' = Granted \ {q}
    BY <1>1, <1>4 DEF Granted
  <2>2. active' \in Nat /\ SlotsExact'
    BY <1>0, <1>2, <1>4, <2>1, LimitType DEF SlotsExact, Limit
  <2>3. \A u \in Queries : ticket'[u] # "pending"
    <3>1. SUFFICES ASSUME NEW u \in Queries, settled[u] = "pending" PROVE FALSE
      BY <1>4
    <3>2. u # q /\ ticket[u] = "pending"
      BY <1>1, <3>1
    <3>3. PICK k \in 1..Len(waiting) : waiting[k] = u
      BY <3>2, InLineOnce DEF Inv, NoIdleSlot
    <3> QED BY <1>4, <3>1, <3>3
  <2>4. NoIdleSlot'
    BY <1>4, <2>3 DEF NoIdleSlot
  <2> QED BY <1>1, <1>4, <2>2, <2>4
<1>5. CASE \E k \in 1..Len(waiting) :
              /\ settled[waiting[k]] = "pending"
              /\ \A j \in 1..(k - 1) : settled[waiting[j]] # "pending"
              /\ ticket' = [settled EXCEPT ![waiting[k]] = "granted"]
              /\ waiting' = SubSeq(waiting, k + 1, Len(waiting))
              /\ UNCHANGED active
  <2>1. PICK k \in 1..Len(waiting) :
              /\ settled[waiting[k]] = "pending"
              /\ \A j \in 1..(k - 1) : settled[waiting[j]] # "pending"
              /\ ticket' = [settled EXCEPT ![waiting[k]] = "granted"]
              /\ waiting' = SubSeq(waiting, k + 1, Len(waiting))
              /\ UNCHANGED active
    BY <1>5
  <2> DEFINE w == waiting[k]
  <2>2. w \in Queries /\ w # q /\ ticket[w] = "pending"
    BY <1>1, <1>3, <2>1
  <2>3. /\ ticket' \in [Queries -> {"none", "pending", "granted", "cancelled"}]
        /\ \A u \in Queries :
              ticket'[u] = IF u = w THEN "granted" ELSE IF u = q THEN "none" ELSE ticket[u]
    BY <1>1, <2>1, <2>2
  <2>4. /\ waiting' \in Seq(Queries) /\ Len(waiting') = Len(waiting) - k
        /\ \A i \in 1..(Len(waiting) - k) : waiting'[i] = waiting[k + i]
        /\ DOMAIN waiting' = 1..Len(waiting')
    <3>1. /\ SubSeq(waiting, k + 1, Len(waiting)) \in Seq(Queries)
          /\ Len(SubSeq(waiting, k + 1, Len(waiting))) = Len(waiting) - k
          /\ \A i \in 1..(Len(waiting) - k) :
                SubSeq(waiting, k + 1, Len(waiting))[i] = waiting[k + i]
      <4>1. waiting \in Seq(Queries)
        BY <1>0
      <4> QED BY <4>1
    <3>2. waiting' = SubSeq(waiting, k + 1, Len(waiting))
      BY <2>1
    <3>3. DOMAIN waiting' = 1..Len(waiting')
      BY <3>1, <3>2, LenProperties
    <3> QED BY <3>1, <3>2, <3>3, Zenon
  <2>5. SlotsExact'
    <3>1. Granted' = (Granted \ {q}) \cup {w}
      BY <2>2, <2>3 DEF Granted
    <3>2. w \notin Granted \ {q}
      BY <2>2 DEF Granted
    <3>3. Cardinality(Granted') = Cardinality(Granted \ {q}) + 1
      BY <1>2, <3>1, <3>2, FS_AddElement
    <3> QED BY <1>0, <1>2, <2>1, <3>3, GrantedFinite DEF SlotsExact, Limit
  <2>6. \A i \in 1..Len(waiting') :
            /\ k + i \in 1..Len(waiting) /\ waiting'[i] = waiting[k + i]
            /\ waiting'[i] \in Queries /\ waiting'[i] # w /\ waiting'[i] # q
    <3> SUFFICES ASSUME NEW i \in 1..Len(waiting')
                 PROVE  /\ k + i \in 1..Len(waiting) /\ waiting'[i] = waiting[k + i]
                        /\ waiting'[i] \in Queries /\ waiting'[i] # w /\ waiting'[i] # q
      OBVIOUS
    <3>1. Len(waiting) \in Nat /\ k \in 1..Len(waiting) /\ i \in 1..(Len(waiting) - k)
      BY <1>0, <2>4
    <3>2. k + i \in 1..Len(waiting) /\ k + i # k
      BY <3>1
    <3>3. waiting'[i] = waiting[k + i]
      BY <2>4, <3>1
    <3>4. waiting[k + i] # waiting[k]
      BY <1>0, <3>2
    <3>5. waiting[k + i] \in Queries /\ waiting[k + i] # q
      BY <1>3, <3>2
    <3> QED BY <3>2, <3>3, <3>4, <3>5
  <2>7. \A i \in 1..Len(waiting') : ticket'[waiting'[i]] \in {"pending", "cancelled"}
    <3> SUFFICES ASSUME NEW i \in 1..Len(waiting')
                 PROVE  ticket'[waiting'[i]] \in {"pending", "cancelled"}
      OBVIOUS
    <3>1. /\ k + i \in 1..Len(waiting) /\ waiting'[i] = waiting[k + i]
          /\ waiting'[i] \in Queries /\ waiting'[i] # w /\ waiting'[i] # q
      BY <2>6
    <3>2. ticket[waiting'[i]] \in {"pending", "cancelled"}
      BY <1>0, <3>1
    <3>3. ticket'[waiting'[i]] = ticket[waiting'[i]]
      BY <2>3, <3>1
    <3> QED BY <3>2, <3>3
  <2>8. \A i, j \in 1..Len(waiting') : waiting'[i] = waiting'[j] => i = j
    <3> SUFFICES ASSUME NEW i \in 1..Len(waiting'), NEW j \in 1..Len(waiting'),
                        waiting'[i] = waiting'[j]
                 PROVE  i = j
      OBVIOUS
    <3>1. k + i = k + j
      BY <1>0, <2>6
    <3> QED BY <2>4, <3>1
  <2>9. ASSUME NEW u \in Queries, ticket'[u] = "pending" PROVE u \in ToSet(waiting')
    <3>1. u # w /\ u # q /\ ticket[u] = "pending" /\ settled[u] = "pending"
      BY <1>1, <2>3, <2>9
    <3>2. PICK j \in 1..Len(waiting) : waiting[j] = u
      BY <3>1, InLineOnce DEF Inv, NoIdleSlot
    <3>3. j > k
      BY <2>1, <3>1, <3>2
    <3>4. j - k \in 1..Len(waiting') /\ waiting'[j - k] = u
      BY <1>0, <2>4, <3>2, <3>3
    <3> QED BY <2>4, <3>4 DEF ToSet
  <2>10. active' = Limit /\ Limit' = Limit
    BY <1>0, <2>1 DEF Limit
  <2>11. NoIdleSlot'
    BY <2>7, <2>8, <2>9, <2>10 DEF NoIdleSlot
  <2> HIDE DEF w
  <2> QED BY <1>0, <2>1, <2>2, <2>3, <2>4, <2>5, <2>11
<1> QED BY <1>4, <1>5 DEF PassOn, settled

-----------------------------------------------------------------------------
\* A new gate satisfies the invariant.
LEMMA InvInit == Init => Inv
<1> SUFFICES ASSUME Init PROVE Inv
  OBVIOUS
<1>1. Granted = {} /\ Cardinality(Granted) = 0
  BY FS_EmptySet DEF Init, Granted
<1>2. waiting = <<>> /\ Len(waiting) = 0
  BY DEF Init
<1>3. SlotsExact /\ NoIdleSlot
  BY <1>1, <1>2, LimitType DEF Init, SlotsExact, NoIdleSlot
<1> QED BY <1>3 DEF Init, Inv, TypeOK, TicketFits, TicketOf

\* Every step of every query, and of the gate on its behalf, preserves it.
LEMMA InvStep == Inv /\ [Next]_vars => Inv'
<1> SUFFICES ASSUME Inv, [Next]_vars PROVE Inv'
  OBVIOUS
<1>0. /\ TypeOK
      /\ active \in Nat /\ active = Cardinality(Granted) /\ active <= Limit
      /\ waiting \in Seq(Queries) /\ DOMAIN waiting = 1..Len(waiting) /\ Len(waiting) \in Nat
      /\ \A k \in 1..Len(waiting) : ticket[waiting[k]] \in {"pending", "cancelled"}
      /\ \A j, k \in 1..Len(waiting) : waiting[j] = waiting[k] => j = k
      /\ \A q \in Queries : ticket[q] = "pending" => q \in ToSet(waiting)
      /\ waiting # <<>> => active = Limit
      /\ Limit \in Nat \ {0} /\ Limit' = Limit
  BY LenProperties, LimitType DEF Inv, TypeOK, SlotsExact, NoIdleSlot, Limit
\* Whoever gives a granted ticket back and goes to where it has none.
<1>1. ASSUME NEW q \in Queries, ticket[q] = "granted", PassOn(Spent(q)), GoTo(q, "idle")
      PROVE  Inv'
  <2>1. /\ ticket' \in [Queries -> {"none", "pending", "granted", "cancelled"}]
        /\ ticket'[q] = "none"
        /\ \A u \in Queries : u # q => \/ ticket'[u] = ticket[u]
                                       \/ ticket[u] = "pending" /\ ticket'[u] = "granted"
        /\ active' \in Nat /\ SlotsExact' /\ NoIdleSlot' /\ waiting' \in Seq(Queries)
    BY <1>1, PassOnEffect
  <2>2. /\ pc' \in [Queries -> {"idle", "waiting", "leaving", "running", "orphaned", "ended"}]
        /\ pc'[q] = "idle" /\ \A u \in Queries : u # q => pc'[u] = pc[u]
    BY <1>0, <1>1, GoToIs DEF GoTo, TypeOK
  <2>3. TicketFits'
    BY <2>1, <2>2 DEF Inv, TicketFits, TicketOf
  <2> QED BY <2>1, <2>2, <2>3 DEF Inv, TypeOK
\* Steps of the caller that leave the gate alone.
<1>2. ASSUME NEW q \in Queries, UNCHANGED gateVars, ticket[q] = "granted",
             GoTo(q, "running") \/ GoTo(q, "orphaned") \/ GoTo(q, "ended")
      PROVE  Inv'
  <2>1. /\ pc' \in [Queries -> {"idle", "waiting", "leaving", "running", "orphaned", "ended"}]
        /\ pc'[q] \in {"running", "orphaned", "ended"}
        /\ \A u \in Queries : u # q => pc'[u] = pc[u]
    BY <1>0, <1>2, GoToIs DEF GoTo, TypeOK
  <2>2. TicketFits'
    BY <1>2, <2>1 DEF Inv, TicketFits, TicketOf, gateVars
  <2>3. TypeOK' /\ SlotsExact' /\ NoIdleSlot'
    BY <1>2, <2>1 DEF Inv, TypeOK, SlotsExact, NoIdleSlot, gateVars, Granted, Limit, ToSet
  <2> QED BY <2>2, <2>3 DEF Inv
<1>3. ASSUME NEW q \in Queries, Request(q) PROVE Inv'
  <2>1. pc[q] = "idle" /\ ticket[q] = "none" /\ GoTo(q, "waiting")
    BY <1>3 DEF Request, Inv, TicketFits, TicketOf
  <2>2. /\ pc' \in [Queries -> {"idle", "waiting", "leaving", "running", "orphaned", "ended"}]
        /\ pc'[q] = "waiting" /\ \A u \in Queries : u # q => pc'[u] = pc[u]
    BY <1>0, <2>1, GoToIs DEF GoTo, TypeOK
  <2>3. q \notin Granted /\ Granted \ {q} = Granted
    BY <2>1 DEF Granted
  <2>4. \A k \in 1..Len(waiting) : waiting[k] # q
    BY <1>0, <2>1
  <2>5. CASE active < Limit /\ waiting = <<>>
    <3>1. /\ active' = active + 1 /\ ticket' = [ticket EXCEPT ![q] = "granted"]
          /\ waiting' = waiting
      BY <1>3, <2>5 DEF Request
    <3>2. /\ ticket' \in [Queries -> {"none", "pending", "granted", "cancelled"}]
          /\ \A u \in Queries : ticket'[u] = IF u = q THEN "granted" ELSE ticket[u]
          /\ Granted' = Granted \cup {q}
      BY <1>0, <3>1, TicketIs
    <3>3. SlotsExact'
      <4>1. Cardinality(Granted') = Cardinality(Granted) + 1
        BY <2>3, <3>2, GrantedFinite, FS_AddElement
      <4> QED BY <1>0, <2>5, <3>1, <4>1 DEF SlotsExact
    <3>4. NoIdleSlot'
      <4>1. \A u \in Queries : ticket'[u] # "pending"
        <5> SUFFICES ASSUME NEW u \in Queries, ticket[u] = "pending" PROVE FALSE
          BY <3>2
        <5>1. \E k \in 1..Len(waiting) : waiting[k] = u
          BY <1>0, InLineOnce
        <5> QED BY <2>5, <5>1
      <4> QED BY <2>5, <3>1, <4>1 DEF NoIdleSlot
    <3>5. TicketFits'
      BY <2>1, <2>2, <3>2 DEF Inv, TicketFits, TicketOf
    <3> QED BY <1>0, <2>2, <3>1, <3>2, <3>3, <3>4, <3>5 DEF Inv, TypeOK
  <2>6. CASE ~(active < Limit /\ waiting = <<>>)
    <3>1. /\ waiting' = Append(waiting, q) /\ ticket' = [ticket EXCEPT ![q] = "pending"]
          /\ active' = active
      BY <1>3, <2>6 DEF Request
    <3>2. /\ ticket' \in [Queries -> {"none", "pending", "granted", "cancelled"}]
          /\ \A u \in Queries : ticket'[u] = IF u = q THEN "pending" ELSE ticket[u]
          /\ Granted' = Granted
      BY <1>0, <2>3, <3>1, TicketIs
    <3>3. SlotsExact'
      BY <1>0, <3>1, <3>2 DEF SlotsExact
    <3>4. /\ waiting' \in Seq(Queries) /\ ToSet(waiting') = ToSet(waiting) \cup {q}
          /\ Len(waiting') = Len(waiting) + 1
          /\ \A k \in 1..Len(waiting) : waiting'[k] = waiting[k]
          /\ waiting'[Len(waiting) + 1] = q
      <4>1. q \notin ToSet(waiting)
        BY <1>0, <2>4, InLineOnce
      <4>2. waiting' \in Seq(Queries) /\ ToSet(waiting') = ToSet(waiting) \cup {q}
        BY <1>0, <3>1, <4>1, Joined DEF Once
      <4> QED BY <1>0, <3>1, <4>2, AppendProperties
    <3>5. active' = Limit
      BY <1>0, <2>6, <3>1
    <3>6. /\ \A k \in 1..Len(waiting') : ticket'[waiting'[k]] \in {"pending", "cancelled"}
          /\ \A j, k \in 1..Len(waiting') : waiting'[j] = waiting'[k] => j = k
      <4>1. \A k \in 1..Len(waiting') : k \in 1..Len(waiting) \/ k = Len(waiting) + 1
        BY <1>0, <3>4
      <4>2. \A k \in 1..Len(waiting) : waiting[k] \in Queries
        BY <1>0
      <4> QED BY <1>0, <2>4, <3>2, <3>4, <4>1, <4>2
    <3>7. NoIdleSlot'
      BY <1>0, <3>2, <3>4, <3>5, <3>6 DEF NoIdleSlot
    <3>8. TicketFits'
      BY <2>1, <2>2, <3>2 DEF Inv, TicketFits, TicketOf
    <3> QED BY <1>0, <2>2, <3>1, <3>2, <3>3, <3>4, <3>7, <3>8 DEF Inv, TypeOK
  <2> QED BY <2>5, <2>6
<1>4. ASSUME NEW q \in Queries, StopWaiting(q) PROVE Inv'
  <2>1. /\ pc[q] = "waiting" /\ ticket[q] \in {"pending", "granted"}
        /\ GoTo(q, "leaving") /\ active' = active /\ waiting' = waiting
    BY <1>4 DEF StopWaiting, Inv, TicketFits, TicketOf
  <2>2. /\ pc' \in [Queries -> {"idle", "waiting", "leaving", "running", "orphaned", "ended"}]
        /\ pc'[q] = "leaving" /\ \A u \in Queries : u # q => pc'[u] = pc[u]
    BY <1>0, <2>1, GoToIs DEF GoTo, TypeOK
  <2>3. /\ ticket' \in [Queries -> {"none", "pending", "granted", "cancelled"}]
        /\ \A u \in Queries : u # q => ticket'[u] = ticket[u]
        /\ ticket'[q] = IF ticket[q] = "pending" THEN "cancelled" ELSE "granted"
    BY <1>0, <1>4, <2>1 DEF StopWaiting, TypeOK
  <2>4. Granted' = Granted
    BY <2>1, <2>3 DEF Granted
  <2>5. NoIdleSlot'
    <3>1. \A k \in 1..Len(waiting) : waiting[k] \in Queries
      BY <1>0
    <3>2. \A k \in 1..Len(waiting) : ticket'[waiting[k]] \in {"pending", "cancelled"}
      <4> SUFFICES ASSUME NEW k \in 1..Len(waiting)
                   PROVE  ticket'[waiting[k]] \in {"pending", "cancelled"}
        OBVIOUS
      <4>1. waiting[k] \in Queries /\ ticket[waiting[k]] \in {"pending", "cancelled"}
        BY <1>0, <3>1
      <4>2. CASE waiting[k] = q
        BY <2>1, <2>3, <4>1, <4>2
      <4>3. CASE waiting[k] # q
        BY <2>3, <4>1, <4>3
      <4> QED BY <4>2, <4>3
    <3> QED BY <1>0, <2>1, <2>3, <3>2 DEF NoIdleSlot
  <2>6. TicketFits'
    BY <2>1, <2>2, <2>3 DEF Inv, TicketFits, TicketOf
  <2> QED BY <1>0, <2>1, <2>2, <2>3, <2>4, <2>5, <2>6 DEF Inv, TypeOK, SlotsExact
<1>5. ASSUME NEW q \in Queries, Withdraw(q), ticket[q] # "granted" PROVE Inv'
  <2>1. /\ pc[q] = "leaving" /\ ticket[q] = "cancelled" /\ GoTo(q, "idle")
        /\ active' = active /\ ticket' = [ticket EXCEPT ![q] = "none"]
    BY <1>5 DEF Withdraw, Spent, Inv, TicketFits, TicketOf
  <2>2. /\ pc' \in [Queries -> {"idle", "waiting", "leaving", "running", "orphaned", "ended"}]
        /\ pc'[q] = "idle" /\ \A u \in Queries : u # q => pc'[u] = pc[u]
    BY <1>0, <2>1, GoToIs DEF GoTo, TypeOK
  <2>3. /\ ticket' \in [Queries -> {"none", "pending", "granted", "cancelled"}]
        /\ \A u \in Queries : ticket'[u] = IF u = q THEN "none" ELSE ticket[u]
        /\ Granted' = Granted \ {q}
    BY <1>0, <2>1, TicketIs
  <2>4. Granted' = Granted
    BY <2>1, <2>3 DEF Granted
  <2>5. /\ waiting' \in Seq(Queries)
        /\ ToSet(waiting') = ToSet(waiting) \ {q}
        /\ \A j, k \in 1..Len(waiting') : waiting'[j] = waiting'[k] => j = k
        /\ waiting' # <<>> => waiting # <<>>
    <3>1. CASE \E k \in 1..Len(waiting) : waiting[k] = q
      <4>1. PICK k \in 1..Len(waiting) : waiting[k] = q /\ waiting' = RemoveAt(waiting, k)
        BY <1>5, <3>1 DEF Withdraw
      <4>2. /\ RemoveAt(waiting, k) \in Seq(Queries)
            /\ ToSet(RemoveAt(waiting, k)) = ToSet(waiting) \ {waiting[k]}
            /\ \A i, j \in 1..Len(RemoveAt(waiting, k)) :
                  RemoveAt(waiting, k)[i] = RemoveAt(waiting, k)[j] => i = j
        BY <1>0, PlaceDropped DEF Once
      <4>3. waiting # <<>>
        BY <1>0, <4>1
      <4> QED BY <4>1, <4>2, <4>3
    <3>2. CASE ~\E k \in 1..Len(waiting) : waiting[k] = q
      <4>1. waiting' = waiting
        BY <1>5, <3>2 DEF Withdraw
      <4>2. q \notin ToSet(waiting)
        BY <1>0, <3>2, InLineOnce
      <4> QED BY <1>0, <4>1, <4>2
    <3> QED BY <3>1, <3>2
  <2>6. \A k \in 1..Len(waiting') : ticket'[waiting'[k]] \in {"pending", "cancelled"}
    <3> SUFFICES ASSUME NEW k \in 1..Len(waiting')
                 PROVE  ticket'[waiting'[k]] \in {"pending", "cancelled"}
      OBVIOUS
    <3>1. waiting'[k] \in Queries /\ waiting'[k] \in ToSet(waiting')
      <4>1. DOMAIN waiting' = 1..Len(waiting')
        BY <2>5, LenProperties
      <4> QED BY <2>5, <4>1 DEF ToSet
    <3>2. waiting'[k] # q /\ waiting'[k] \in ToSet(waiting)
      BY <2>5, <3>1
    <3>3. \E j \in 1..Len(waiting) : waiting[j] = waiting'[k]
      BY <1>0, <3>1, <3>2, InLineOnce
    <3> QED BY <1>0, <2>3, <3>1, <3>2, <3>3
  <2>7. NoIdleSlot'
    BY <1>0, <2>1, <2>3, <2>5, <2>6 DEF NoIdleSlot
  <2>8. TicketFits'
    BY <2>2, <2>3 DEF Inv, TicketFits, TicketOf
  <2> QED BY <1>0, <2>1, <2>2, <2>3, <2>4, <2>5, <2>7, <2>8 DEF Inv, TypeOK, SlotsExact
<1>6. ASSUME NEW q \in Queries, Withdraw(q), ticket[q] = "granted" PROVE Inv'
  BY <1>1, <1>6 DEF Withdraw
<1>7. ASSUME NEW q \in Queries, Admitted(q) \/ CancelCaller(q) \/ EndWork(q) PROVE Inv'
  <2>1. ticket[q] = "granted"
    BY <1>7 DEF Admitted, CancelCaller, EndWork, Inv, TicketFits, TicketOf
  <2> QED BY <1>2, <1>7, <2>1 DEF Admitted, CancelCaller, EndWork
<1>8. ASSUME NEW q \in Queries, AdmittedDone(q) PROVE Inv'
  <2>1. ticket[q] = "granted"
    BY <1>8 DEF AdmittedDone, Inv, TicketFits, TicketOf
  <2> QED BY <1>1, <1>8, <2>1 DEF AdmittedDone
<1>9. CASE UNCHANGED vars
  BY <1>9 DEF vars, gateVars, Inv, TypeOK, TicketFits, SlotsExact, NoIdleSlot, Granted,
              Limit, ToSet
<1> QED BY <1>3, <1>4, <1>5, <1>6, <1>7, <1>8, <1>9 DEF Next

\* So it always holds.
LEMMA InvAlways == Spec => []Inv
<1> QED BY InvInit, InvStep, PTL DEF Spec

\* Every variable of the gate keeps its type; _active, which release lowers
\* without a check, never goes below zero.
THEOREM TypeCorrect == Spec => []TypeOK
<1>1. Inv => TypeOK
  BY DEF Inv
<1> QED BY <1>1, InvAlways, PTL

\* _active is the number of granted tickets, and at most the limit.
THEOREM SlotsAreExact == Spec => []SlotsExact
<1>1. Inv => SlotsExact
  BY DEF Inv
<1> QED BY <1>1, InvAlways, PTL

\* Legs and combines run only for queries that have a slot.
THEOREM WorkAlwaysHoldsSlot == Spec => []WorkHoldsSlot
<1>1. Inv => WorkHoldsSlot
  BY DEF Inv, WorkHoldsSlot, Working, Granted, TicketFits, TicketOf
<1> QED BY <1>1, InvAlways, PTL

\* No slot is idle while a query waits for one.
THEOREM NoSlotIsIdle == Spec => []NoIdleSlot
<1>1. Inv => NoIdleSlot
  BY DEF Inv
<1> QED BY <1>1, InvAlways, PTL

-----------------------------------------------------------------------------
(* The refinement                                                          *)

\* The queries that are before q in the abstract line.
Ahead(q) == IF q \in Pending THEN Before(q) ELSE {}

LEMMA AheadIs ==
    ASSUME NEW q \in Queries
    PROVE  /\ Ahead(q) = {r \in Pending : q \in Pending /\ Precedes(waiting, r, q)}
           /\ Ahead(q)' = {r \in Pending' : q \in Pending' /\ Precedes(waiting', r, q)}
BY DEF Ahead, Before, Precedes

\* The deque holds everybody that waits, and nobody that has a slot.
LEMMA DequeIs ==
    ASSUME Inv
    PROVE  /\ waiting \in Seq(Queries) /\ Once(waiting)
           /\ Pending \subseteq ToSet(waiting) /\ Pending \subseteq Queries
           /\ \A x \in ToSet(waiting) : ticket[x] \in {"pending", "cancelled"}
           /\ \A u, c : Precedes(waiting, u, c) => u \in ToSet(waiting) /\ c \in ToSet(waiting)
<1>1. waiting \in Seq(Queries) /\ Once(waiting) /\ DOMAIN waiting = 1..Len(waiting)
      /\ Len(waiting) \in Nat
  BY LenProperties DEF Inv, TypeOK, NoIdleSlot, Once
<1>2. Pending \subseteq ToSet(waiting) /\ Pending \subseteq Queries
  BY DEF Inv, NoIdleSlot, Pending
<1>3. \A x \in ToSet(waiting) : ticket[x] \in {"pending", "cancelled"}
  BY <1>1 DEF Inv, NoIdleSlot, ToSet
<1>4. \A u, c : Precedes(waiting, u, c) => u \in ToSet(waiting) /\ c \in ToSet(waiting)
  BY <1>1 DEF Precedes, ToSet
<1> QED BY <1>1, <1>2, <1>3, <1>4

\* The abstract line does not see a step that leaves the waiting and their order
\* as they were.
LEMMA SameLine ==
    ASSUME Granted' = Granted, Pending' = Pending,
           \A r, d \in Pending : Precedes(waiting', r, d) <=> Precedes(waiting, r, d)
    PROVE  UNCHANGED Slots!vars
<1>1. \A d \in Queries : Ahead(d)' = Ahead(d)
  BY AheadIs
<1>2. [d \in Queries |-> Ahead(d)]' = [d \in Queries |-> Ahead(d)]
  BY <1>1
<1> QED BY <1>2 DEF Slots!vars, Ahead

\* One of the waiting goes, and the others keep their order.
LEMMA LineWithout ==
    ASSUME NEW c \in Queries, Pending' = Pending \ {c},
           \A r, d \in Pending \ {c} : Precedes(waiting', r, d) <=> Precedes(waiting, r, d)
    PROVE  Slots!WaitsNoMore(c)
<1>1. \A d \in Queries : Ahead(d)' = IF d = c THEN {} ELSE Ahead(d) \ {c}
  BY AheadIs
<1>2. [d \in Queries |-> Ahead(d)]'
         = [d \in Queries |-> IF d = c THEN {} ELSE [e \in Queries |-> Ahead(e)][d] \ {c}]
  BY <1>1
<1> QED BY <1>2 DEF Slots!WaitsNoMore, Ahead

\* request takes a free slot, or a place behind everybody that waits.
LEMMA RequestEnters ==
    ASSUME Inv, NEW q \in Queries, Request(q)
    PROVE  Slots!Enter(q)
<1>0. /\ TypeOK /\ active = Cardinality(Granted) /\ active <= Limit /\ active \in Nat
      /\ Limit \in Nat \ {0}
      /\ waiting # <<>> => active = Limit
      /\ ticket[q] = "none" /\ q \notin Granted /\ q \notin Pending
      /\ Slots!Cardinality(Granted) = Cardinality(Granted)
  BY LimitType DEF Inv, TypeOK, SlotsExact, NoIdleSlot, Request, TicketFits, TicketOf, Granted,
                   Pending, Slots!Cardinality, Cardinality
<1>1. CASE active < Limit /\ waiting = <<>>
  <2>1. /\ ticket' = [ticket EXCEPT ![q] = "granted"] /\ waiting' = waiting
    BY <1>1 DEF Request
  <2>2. /\ \A u \in Queries : ticket'[u] = IF u = q THEN "granted" ELSE ticket[u]
        /\ Granted' = Granted \cup {q}
    BY <1>0, <2>1, TicketIs
  <2>3. Pending' = Pending /\ Pending = {}
    BY <1>0, <1>1, <2>2, DequeIs DEF Pending, ToSet
  <2>4. Slots!Free
    BY <1>0, <1>1, <2>3 DEF Slots!Free
  <2>5. \A d \in Queries : Ahead(d)' = Ahead(d)
    BY <2>1, <2>3, AheadIs
  <2>6. [d \in Queries |-> Ahead(d)]' = [d \in Queries |-> Ahead(d)]
    BY <2>5
  <2> QED BY <1>0, <2>2, <2>3, <2>4, <2>6 DEF Slots!Enter, Ahead
<1>2. CASE ~(active < Limit /\ waiting = <<>>)
  <2>1. /\ ticket' = [ticket EXCEPT ![q] = "pending"] /\ waiting' = Append(waiting, q)
    BY <1>2 DEF Request
  <2>2. /\ \A u \in Queries : ticket'[u] = IF u = q THEN "pending" ELSE ticket[u]
        /\ Granted' = Granted \ {q}
    BY <1>0, <2>1, TicketIs
  <2>3. Pending' = Pending \cup {q} /\ Granted' = Granted
    BY <1>0, <2>2 DEF Pending
  <2>4. ~Slots!Free
    <3>1. active = Limit /\ Limit # 0
      BY <1>0, <1>2
    <3>2. ~(Cardinality(Granted) < Limit)
      BY <1>0, <3>1
    <3> QED BY <1>0, <3>1, <3>2 DEF Slots!Free
  <2>5. q \notin ToSet(waiting)
    BY <1>0, DequeIs
  <2>6. \A u, c : Precedes(waiting', u, c) <=>
                     IF c = q THEN u \in ToSet(waiting) ELSE Precedes(waiting, u, c)
    BY <2>1, <2>5, DequeIs, Joined
  <2>7. \A d \in Queries : Ahead(d)' = IF d = q THEN Pending ELSE Ahead(d)
    <3>1. Ahead(q)' = Pending
      BY <2>3, <2>5, <2>6, AheadIs, DequeIs
    <3>2. ASSUME NEW d \in Queries, d # q PROVE Ahead(d)' = Ahead(d)
      <4>1. \A r : Precedes(waiting', r, d) <=> Precedes(waiting, r, d)
        BY <2>6, <3>2
      <4>2. \A r : Precedes(waiting, r, d) => r # q
        BY <2>5, DequeIs
      <4> QED BY <2>3, <3>2, <4>1, <4>2, AheadIs
    <3> QED BY <3>1, <3>2
  <2>8. [d \in Queries |-> Ahead(d)]' = [[d \in Queries |-> Ahead(d)] EXCEPT ![q] = Pending]
    BY <2>7
  <2> QED BY <1>0, <2>3, <2>4, <2>8 DEF Slots!Enter, Ahead
<1> QED BY <1>1, <1>2

\* release hands the slot to the first that waits, over whatever is left in the
\* deque of those that gave up.
LEMMA PassOnLeaves ==
    ASSUME Inv, NEW q \in Queries, ticket[q] = "granted", PassOn(Spent(q))
    PROVE  Slots!Leave(q)
<1> DEFINE settled == Spent(q)
<1>1. /\ settled \in [Queries -> {"none", "pending", "granted", "cancelled"}]
      /\ \A u \in Queries : settled[u] = IF u = q THEN "none" ELSE ticket[u]
  BY DEF Inv, TypeOK, Spent
<1>2. q \in Granted /\ q \notin Pending /\ Len(waiting) \in Nat
  BY DequeIs DEF Granted, Pending
<1>3. \A k \in 1..Len(waiting) : waiting[k] \in Queries /\ waiting[k] \in ToSet(waiting)
  BY DequeIs DEF ToSet
<1>4. \A u \in Pending : \E k \in 1..Len(waiting) : waiting[k] = u
  BY DequeIs, InLineOnce DEF Inv
<1>5. \A u \in Pending : settled[u] = "pending"
  BY <1>1, <1>2 DEF Pending
<1> HIDE DEF settled
<1>6. CASE /\ \A k \in 1..Len(waiting) : settled[waiting[k]] # "pending"
           /\ active' = active - 1 /\ waiting' = <<>> /\ ticket' = settled
  <2>1. Pending = {}
    BY <1>4, <1>5, <1>6
  <2>2. Pending' = {} /\ Granted' = Granted \ {q}
    BY <1>1, <1>6, <2>1 DEF Pending, Granted
  <2>3. \A d \in Queries : Ahead(d)' = Ahead(d)
    BY <2>1, <2>2, AheadIs
  <2>4. [d \in Queries |-> Ahead(d)]' = [d \in Queries |-> Ahead(d)]
    BY <2>3
  <2> QED BY <1>2, <2>1, <2>2, <2>4 DEF Slots!Leave, Ahead
<1>7. CASE \E k \in 1..Len(waiting) :
              /\ settled[waiting[k]] = "pending"
              /\ \A j \in 1..(k - 1) : settled[waiting[j]] # "pending"
              /\ ticket' = [settled EXCEPT ![waiting[k]] = "granted"]
              /\ waiting' = SubSeq(waiting, k + 1, Len(waiting))
              /\ UNCHANGED active
  <2>1. PICK k \in 1..Len(waiting) :
              /\ settled[waiting[k]] = "pending"
              /\ \A j \in 1..(k - 1) : settled[waiting[j]] # "pending"
              /\ ticket' = [settled EXCEPT ![waiting[k]] = "granted"]
              /\ waiting' = SubSeq(waiting, k + 1, Len(waiting))
    BY <1>7
  <2>0. PICK w \in Queries : w = waiting[k]
    BY <1>3
  <2>2. w # q /\ w \in Pending
    BY <1>1, <2>0, <2>1 DEF Pending
  <2>3. \A u \in Queries :
            ticket'[u] = IF u = w THEN "granted" ELSE IF u = q THEN "none" ELSE ticket[u]
    BY <1>1, <2>0, <2>1, <2>2
  <2>4. Granted' = (Granted \ {q}) \cup {w} /\ Pending' = Pending \ {w}
    BY <2>2, <2>3 DEF Granted, Pending
  <2>5. \A r, d \in Pending \ {w} : Precedes(waiting', r, d) <=> Precedes(waiting, r, d)
    <3> SUFFICES ASSUME NEW r \in Pending \ {w}, NEW d \in Pending \ {w}
                 PROVE  Precedes(waiting', r, d) <=> Precedes(waiting, r, d)
      OBVIOUS
    <3>1. \A i \in 1..Len(waiting) : waiting[i] \in {r, d} => i > k
      <4> SUFFICES ASSUME NEW i \in 1..Len(waiting), waiting[i] \in {r, d} PROVE i > k
        OBVIOUS
      <4>1. settled[waiting[i]] = "pending" /\ waiting[i] # w
        BY <1>5
      <4>2. ~(i \in 1..(k - 1)) /\ i # k
        BY <2>0, <2>1, <4>1
      <4> QED BY <4>2
    <3> QED BY <1>2, <2>1, <3>1, DequeIs, Behind
  <2>6. Ahead(w) = {}
    <3> SUFFICES ASSUME NEW r \in Pending, Precedes(waiting, r, w) PROVE FALSE
      BY <2>2, AheadIs
    <3>1. PICK b \in 1..Len(waiting) : \E a \in 1..(b - 1) : waiting[a] = r /\ waiting[b] = w
      BY DEF Precedes
    <3>2. PICK a \in 1..(b - 1) : waiting[a] = r /\ waiting[b] = w
      BY <3>1
    <3>3. b = k
      BY <2>0, <3>2, DequeIs DEF Once
    <3> QED BY <1>5, <2>1, <3>2, <3>3
  <2>7. Slots!WaitsNoMore(w)
    BY <2>2, <2>4, <2>5, LineWithout
  <2>8. [d \in Queries |-> Ahead(d)][w] = {}
    BY <2>2, <2>6
  <2> QED BY <1>2, <2>2, <2>4, <2>7, <2>8 DEF Slots!Leave, Ahead
<1> QED BY <1>6, <1>7 DEF PassOn, settled

\* withdraw of a ticket that was cancelled: it left the line when it was.
LEMMA WithdrawOfCancelled ==
    ASSUME Inv, NEW q \in Queries, Withdraw(q), ticket[q] # "granted"
    PROVE  UNCHANGED Slots!vars
<1>1. /\ TypeOK /\ ticket[q] = "cancelled" /\ ticket' = [ticket EXCEPT ![q] = "none"]
  BY DEF Withdraw, Spent, Inv, TicketFits, TicketOf
<1>2. \A u \in Queries : ticket'[u] = IF u = q THEN "none" ELSE ticket[u]
  BY <1>1, TicketIs
<1>3. Granted' = Granted /\ Pending' = Pending /\ q \notin Pending
  BY <1>1, <1>2 DEF Granted, Pending
<1>4. \A r, d \in Pending : Precedes(waiting', r, d) <=> Precedes(waiting, r, d)
  <2>1. CASE \E k \in 1..Len(waiting) : waiting[k] = q
    <3>1. PICK k \in 1..Len(waiting) : waiting[k] = q /\ waiting' = RemoveAt(waiting, k)
      BY <2>1 DEF Withdraw
    <3>2. \A u, c : Precedes(waiting', u, c) <=> u # q /\ c # q /\ Precedes(waiting, u, c)
      BY <3>1, DequeIs, PlaceDropped
    <3> QED BY <1>3, <3>2
  <2>2. CASE ~\E k \in 1..Len(waiting) : waiting[k] = q
    BY <2>2 DEF Withdraw
  <2> QED BY <2>1, <2>2
<1> QED BY <1>3, <1>4, SameLine

\* Every step of the gate, wherever a cancel that does not take the lock cuts
\* in, is a step of the abstract line or changes nothing in it: a slot never
\* passes to a query while another waits that came before it and has not given
\* up.  ServesInOrder says the same with fairness, which is TLC's.
THEOREM ImplementsFifoSlots == Spec => Slots!Spec
<1>1. Init => Slots!Init
  BY DEF Init, Slots!Init, Granted, Pending
<1>2. ASSUME Inv, [Next]_vars PROVE [Slots!Next]_(Slots!vars)
  <2>1. ASSUME NEW q \in Queries, Request(q) PROVE Slots!Enter(q)
    BY <1>2, <2>1, RequestEnters
  <2>2. ASSUME NEW q \in Queries, StopWaiting(q)
        PROVE  Slots!GiveUp(q) \/ UNCHANGED Slots!vars
    <3>1. waiting' = waiting
      BY <2>2 DEF StopWaiting
    <3>2. CASE ticket[q] = "pending"
      <4>1. ticket' = [ticket EXCEPT ![q] = "cancelled"]
        BY <2>2, <3>2 DEF StopWaiting
      <4>2. \A u \in Queries : ticket'[u] = IF u = q THEN "cancelled" ELSE ticket[u]
        BY <1>2, <4>1, TicketIs DEF Inv
      <4>3. q \in Pending /\ Pending' = Pending \ {q} /\ Granted' = Granted
        BY <3>2, <4>2 DEF Pending, Granted
      <4>4. Slots!WaitsNoMore(q)
        BY <3>1, <4>3, LineWithout
      <4> QED BY <4>3, <4>4 DEF Slots!GiveUp
    <3>3. CASE ticket[q] # "pending"
      <4>1. Granted' = Granted /\ Pending' = Pending
        BY <2>2, <3>3 DEF StopWaiting, Granted, Pending
      <4> QED BY <3>1, <4>1, SameLine
    <3> QED BY <3>2, <3>3
  <2>3. ASSUME NEW q \in Queries, Withdraw(q), ticket[q] = "granted" PROVE Slots!Leave(q)
    BY <1>2, <2>3, PassOnLeaves DEF Withdraw
  <2>4. ASSUME NEW q \in Queries, Withdraw(q), ticket[q] # "granted"
        PROVE  UNCHANGED Slots!vars
    BY <1>2, <2>4, WithdrawOfCancelled
  <2>5. ASSUME NEW q \in Queries, AdmittedDone(q) PROVE Slots!Leave(q)
    <3>1. ticket[q] = "granted"
      BY <1>2, <2>5 DEF AdmittedDone, Inv, TicketFits, TicketOf
    <3> QED BY <1>2, <2>5, <3>1, PassOnLeaves DEF AdmittedDone
  <2>6. ASSUME NEW q \in Queries, Admitted(q) \/ CancelCaller(q) \/ EndWork(q)
        PROVE  UNCHANGED Slots!vars
    <3>1. Granted' = Granted /\ Pending' = Pending /\ waiting' = waiting
      BY <2>6 DEF Admitted, CancelCaller, EndWork, gateVars, Granted, Pending
    <3> QED BY <3>1, SameLine
  <2>7. CASE UNCHANGED vars
    <3>1. Granted' = Granted /\ Pending' = Pending /\ waiting' = waiting
      BY <2>7 DEF vars, gateVars, Granted, Pending
    <3> QED BY <3>1, SameLine
  <2> QED BY <1>2, <2>1, <2>2, <2>3, <2>4, <2>5, <2>6, <2>7 DEF Next, Slots!Next
<1> QED BY <1>1, <1>2, InvAlways, PTL DEF Spec, Slots!Spec
=============================================================================
