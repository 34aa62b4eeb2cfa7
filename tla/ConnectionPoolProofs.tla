------------------------ MODULE ConnectionPoolProofs ------------------------
(***************************************************************************)
(* Proofs about ConnectionPool, for every number of threads, every limit   *)
(* (0, none, included) and every pool size.                                *)
(*                                                                         *)
(* The inductive invariant is the conjunction of the four invariants that  *)
(* TLC checks: the count of a slot handed over is right only because the   *)
(* waiter was in line once and every slot was taken, and the line is right *)
(* only because the count is.  What each step does to the two sets they    *)
(* speak of, the holders and the waiters, is stated first, one lemma per   *)
(* kind of step; the refinement of FifoSlots follows from the same lemmas. *)
(***************************************************************************)
EXTENDS ConnectionPool, SequenceTheorems, FiniteSetTheorems, TLAPS

-----------------------------------------------------------------------------
(* Lines: what joining, serving the head of and leaving one do to it       *)

\* The line s has nobody twice, and u in front of c.
Once(s) == \A j, k \in 1..Len(s) : s[j] = s[k] => j = k
Precedes(s, u, c) == \E k \in 1..Len(s) : \E j \in 1..(k - 1) : s[j] = u /\ s[k] = c

\* Who joins a line comes behind everybody in it.
LEMMA Joined ==
    ASSUME NEW S, NEW s \in Seq(S), NEW t \in S, t \notin ToSet(s), Once(s)
    PROVE  LET r == Append(s, t) IN
           /\ r \in Seq(S) /\ Once(r)
           /\ ToSet(r) = ToSet(s) \cup {t}
           /\ \A u, c : Precedes(r, u, c) <=> IF c = t THEN u \in ToSet(s) ELSE Precedes(s, u, c)
<1> DEFINE r == Append(s, t)
<1>1. /\ r \in Seq(S) /\ Len(s) \in Nat /\ Len(r) = Len(s) + 1
      /\ DOMAIN r = 1..(Len(s) + 1) /\ DOMAIN s = 1..Len(s)
      /\ \A k \in 1..Len(s) : r[k] = s[k]
      /\ r[Len(s) + 1] = t
  OBVIOUS
<1> HIDE DEF r
<1>2. ToSet(r) = ToSet(s) \cup {t} /\ \A k \in 1..Len(s) : s[k] # t
  BY <1>1 DEF ToSet
<1>3. Once(r)
  BY <1>1, <1>2 DEF Once
<1>4. ASSUME NEW u, NEW c
      PROVE  Precedes(r, u, c) <=> IF c = t THEN u \in ToSet(s) ELSE Precedes(s, u, c)
  <2>1. u \in ToSet(s) <=> \E j \in 1..Len(s) : s[j] = u
    BY <1>1 DEF ToSet
  <2>2. CASE c = t
    <3>1. Precedes(r, u, t) <=> \E j \in 1..Len(s) : s[j] = u
      BY <1>1, <1>2 DEF Precedes
    <3> QED BY <2>1, <2>2, <3>1
  <2>3. CASE c # t
    <3>1. Precedes(r, u, c) => Precedes(s, u, c)
      BY <1>1, <2>3 DEF Precedes
    <3>2. Precedes(s, u, c) => Precedes(r, u, c)
      BY <1>1 DEF Precedes
    <3> QED BY <2>3, <3>1, <3>2
  <2> QED BY <2>2, <2>3
<1> QED BY <1>1, <1>2, <1>3, <1>4 DEF r

\* Who leaves a line, from any place in it, changes nothing for the others.
LEMMA Dropped ==
    ASSUME NEW S, NEW s \in Seq(S), Once(s), NEW k \in 1..Len(s),
           NEW r \in Seq(S), Len(r) = Len(s) - 1,
           \A i \in 1..Len(r) : r[i] = IF i < k THEN s[i] ELSE s[i + 1]
    PROVE  /\ Once(r)
           /\ ToSet(r) = ToSet(s) \ {s[k]}
           /\ \A u, c : Precedes(r, u, c) <=> u # s[k] /\ c # s[k] /\ Precedes(s, u, c)
<1> DEFINE Old(i) == IF i < k THEN i ELSE i + 1
<1>1. /\ Len(s) \in Nat /\ Len(r) \in Nat /\ k \in Nat /\ k >= 1 /\ k <= Len(s)
      /\ DOMAIN s = 1..Len(s) /\ DOMAIN r = 1..Len(r)
  OBVIOUS
<1>2. \A i \in 1..Len(r) : Old(i) \in 1..Len(s) /\ r[i] = s[Old(i)] /\ s[Old(i)] # s[k]
  BY <1>1 DEF Once
<1>3. \A i, j \in 1..Len(r) : i < j <=> Old(i) < Old(j)
  BY <1>1
<1>4. \A i \in 1..Len(s) : i # k => \E j \in 1..Len(r) : Old(j) = i
  <2> SUFFICES ASSUME NEW i \in 1..Len(s), i # k PROVE \E j \in 1..Len(r) : Old(j) = i
    OBVIOUS
  <2>1. CASE i < k
    <3>1. i \in 1..Len(r) /\ Old(i) = i
      BY <1>1, <2>1
    <3> QED BY <3>1
  <2>2. CASE i > k
    <3>1. i - 1 \in 1..Len(r) /\ Old(i - 1) = i
      BY <1>1, <2>2
    <3> QED BY <3>1
  <2> QED BY <2>1, <2>2
<1>5. \A i \in 1..Len(r) : Old(i) \in Nat /\ i \in Nat
  BY <1>1
<1>6. \A i, j \in 1..Len(r) : Old(i) = Old(j) => i = j
  BY <1>1
<1> HIDE DEF Old
<1>7. Once(r)
  BY <1>2, <1>6 DEF Once
<1>8. ToSet(r) = ToSet(s) \ {s[k]}
  <2>1. \A x \in ToSet(r) : x \in ToSet(s) /\ x # s[k]
    BY <1>1, <1>2 DEF ToSet
  <2>2. ASSUME NEW i \in 1..Len(s), s[i] # s[k] PROVE s[i] \in ToSet(r)
    <3>1. PICK j \in 1..Len(r) : Old(j) = i
      BY <1>4, <2>2
    <3> QED BY <1>1, <1>2, <3>1 DEF ToSet
  <2>3. \A x \in ToSet(s) : x # s[k] => x \in ToSet(r)
    BY <1>1, <2>2 DEF ToSet
  <2> QED BY <2>1, <2>3
<1>9. ASSUME NEW u, NEW c
      PROVE  Precedes(r, u, c) <=> u # s[k] /\ c # s[k] /\ Precedes(s, u, c)
  <2>1. ASSUME Precedes(r, u, c) PROVE u # s[k] /\ c # s[k] /\ Precedes(s, u, c)
    <3>1. PICK b \in 1..Len(r) : \E a \in 1..(b - 1) : r[a] = u /\ r[b] = c
      BY <2>1 DEF Precedes
    <3>2. PICK a \in 1..(b - 1) : r[a] = u /\ r[b] = c
      BY <3>1
    <3>3. a \in 1..Len(r) /\ a < b
      BY <1>1
    <3>4. Old(a) \in 1..(Old(b) - 1)
      BY <1>2, <1>3, <1>5, <3>3
    <3> QED BY <1>2, <3>2, <3>3, <3>4 DEF Precedes
  <2>2. ASSUME u # s[k], c # s[k], Precedes(s, u, c) PROVE Precedes(r, u, c)
    <3>1. PICK b \in 1..Len(s) : \E a \in 1..(b - 1) : s[a] = u /\ s[b] = c
      BY <2>2 DEF Precedes
    <3>2. PICK a \in 1..(b - 1) : s[a] = u /\ s[b] = c
      BY <3>1
    <3>3. a \in 1..Len(s) /\ a < b /\ a # k /\ b # k
      BY <1>1, <2>2, <3>2
    <3>4. PICK i \in 1..Len(r) : Old(i) = a
      BY <1>4, <3>3
    <3>5. PICK j \in 1..Len(r) : Old(j) = b
      BY <1>4, <3>3
    <3>6. i \in 1..(j - 1)
      BY <1>1, <1>3, <3>3, <3>4, <3>5
    <3> QED BY <1>2, <3>2, <3>4, <3>5, <3>6 DEF Precedes
  <2> QED BY <2>1, <2>2
<1> QED BY <1>7, <1>8, <1>9

\* The first in line leaves it: nobody was in front of it.
LEMMA HeadDropped ==
    ASSUME NEW S, NEW s \in Seq(S), Once(s), s # <<>>
    PROVE  /\ Tail(s) \in Seq(S) /\ Once(Tail(s))
           /\ Head(s) \in S /\ Head(s) \in ToSet(s)
           /\ ToSet(Tail(s)) = ToSet(s) \ {Head(s)}
           /\ \A u, c : Precedes(Tail(s), u, c) <=>
                           u # Head(s) /\ c # Head(s) /\ Precedes(s, u, c)
           /\ \A u : ~Precedes(s, u, Head(s))
<1>1. /\ 1 \in 1..Len(s) /\ Head(s) = s[1] /\ s[1] \in S /\ DOMAIN s = 1..Len(s)
      /\ Tail(s) \in Seq(S) /\ Len(Tail(s)) = Len(s) - 1 /\ Len(s) \in Nat
      /\ \A i \in 1..Len(Tail(s)) : Tail(s)[i] = s[i + 1]
  OBVIOUS
<1>2. \A i \in 1..Len(Tail(s)) : Tail(s)[i] = IF i < 1 THEN s[i] ELSE s[i + 1]
  BY <1>1
<1>3. /\ Once(Tail(s)) /\ ToSet(Tail(s)) = ToSet(s) \ {s[1]}
      /\ \A u, c : Precedes(Tail(s), u, c) <=> u # s[1] /\ c # s[1] /\ Precedes(s, u, c)
  BY <1>1, <1>2, Dropped
<1>4. \A u : ~Precedes(s, u, s[1])
  BY <1>1 DEF Precedes, Once
<1>5. s[1] \in ToSet(s)
  BY <1>1 DEF ToSet
<1> QED BY <1>1, <1>3, <1>4, <1>5

\* RemoveAt takes one out of the line.
LEMMA PlaceDropped ==
    ASSUME NEW S, NEW s \in Seq(S), Once(s), NEW k \in 1..Len(s)
    PROVE  /\ RemoveAt(s, k) \in Seq(S) /\ Once(RemoveAt(s, k))
           /\ s[k] \in S /\ s[k] \in ToSet(s)
           /\ ToSet(RemoveAt(s, k)) = ToSet(s) \ {s[k]}
           /\ \A u, c : Precedes(RemoveAt(s, k), u, c) <=>
                           u # s[k] /\ c # s[k] /\ Precedes(s, u, c)
<1> DEFINE a == SubSeq(s, 1, k - 1)
           b == SubSeq(s, k + 1, Len(s))
           r == RemoveAt(s, k)
<1>1. /\ a \in Seq(S) /\ Len(a) = k - 1 /\ \A i \in 1..(k - 1) : a[i] = s[i]
      /\ b \in Seq(S) /\ Len(b) = Len(s) - k
      /\ \A i \in 1..(Len(s) - k) : b[i] = s[k + i]
      /\ s[k] \in S /\ DOMAIN s = 1..Len(s) /\ Len(s) \in Nat
  OBVIOUS
<1> HIDE DEF a, b
<1>2. /\ a \o b \in Seq(S) /\ Len(a \o b) = Len(s) - 1
      /\ \A i \in 1..(Len(s) - 1) : (a \o b)[i] = IF i <= k - 1 THEN a[i] ELSE b[i - (k - 1)]
  <2>1. /\ a \o b \in Seq(S) /\ Len(a \o b) = Len(a) + Len(b)
        /\ \A i \in 1..(Len(a) + Len(b)) :
              (a \o b)[i] = IF i <= Len(a) THEN a[i] ELSE b[i - Len(a)]
    BY <1>1, ConcatProperties
  <2>2. Len(a) + Len(b) = Len(s) - 1
    BY <1>1
  <2> QED BY <1>1, <2>1, <2>2
<1>3. r = a \o b
  BY DEF RemoveAt, a, b
<1> HIDE DEF r
<1>4. \A i \in 1..Len(r) : r[i] = IF i < k THEN s[i] ELSE s[i + 1]
  <2> SUFFICES ASSUME NEW i \in 1..(Len(s) - 1)
               PROVE  (a \o b)[i] = IF i < k THEN s[i] ELSE s[i + 1]
    BY <1>2, <1>3
  <2>1. CASE i < k
    BY <1>1, <1>2, <2>1
  <2>2. CASE ~(i < k)
    <3>1. i - (k - 1) \in 1..(Len(s) - k) /\ k + (i - (k - 1)) = i + 1
      BY <1>1, <2>2
    <3> QED BY <1>1, <1>2, <2>2, <3>1
  <2> QED BY <2>1, <2>2
<1>5. r \in Seq(S) /\ Len(r) = Len(s) - 1
  BY <1>2, <1>3
<1>6. /\ Once(r) /\ ToSet(r) = ToSet(s) \ {s[k]}
      /\ \A u, c : Precedes(r, u, c) <=> u # s[k] /\ c # s[k] /\ Precedes(s, u, c)
  BY <1>4, <1>5, Dropped
<1>7. s[k] \in ToSet(s)
  BY <1>1 DEF ToSet
<1> QED BY <1>1, <1>5, <1>6, <1>7 DEF r

-----------------------------------------------------------------------------
(* The pool                                                                *)

Waiting == {t \in Threads : InLine(t) /\ ~turn[t]}

Inv == TypeOK /\ SlotsExact /\ LineSound

\* The pool starts well typed.
LEMMA TypeInit == Init => TypeOK
BY DEF Init, TypeOK, SlotsInit, SlotsTypeOK

\* A step moves one thread and no other.
LEMMA GoToIs ==
    ASSUME TypeOK, NEW t \in Threads, NEW step, GoTo(t, step)
    PROVE  /\ \A u \in Threads : pc'[u] = IF u = t THEN step ELSE pc[u]
           /\ step \in {"out", "waiting", "late"} \cup HoldingSteps =>
                 pc' \in [Threads -> {"out", "waiting", "late"} \cup HoldingSteps]
BY DEF GoTo, TypeOK

\* The holders can be counted.
LEMMA HoldersFinite ==
    /\ IsFiniteSet(Threads)
    /\ IsFiniteSet(Holders) /\ Cardinality(Holders) \in Nat
BY FS_Subset, FS_CardinalityType, SlotsAssumption DEF Holders

-----------------------------------------------------------------------------
(* What a step does to the holders and to the line                         *)

\* ConnectionSlots.acquire, first critical section: the thread becomes a holder
\* or the last in line.
LEMMA JoinEffect ==
    ASSUME TypeOK, LineSound, NEW t \in Threads, Acquire(t) \/ AcquireAtOnce(t)
    PROVE  /\ t \notin Holders /\ t \notin Waiting
           /\ \/ /\ SlotFree
                 /\ inUse' = inUse + 1 /\ waiters' = waiters
                 /\ Holders' = Holders \cup {t} /\ Waiting' = Waiting
              \/ /\ ~SlotFree
                 /\ inUse' = inUse /\ waiters' = Append(waiters, t)
                 /\ Holders' = Holders /\ Waiting' = Waiting \cup {t}
           /\ TypeOK'
<1>1. pc[t] = "out"
  BY DEF Acquire, AcquireAtOnce
<1>2. t \notin Holders /\ t \notin Waiting
  BY <1>1 DEF Holders, HoldingSteps, Waiting, InLine
<1>3. CASE SlotFree /\ TakeSlot /\ GoTo(t, "slot") /\ UNCHANGED idle
  <2>1. /\ \A u \in Threads : pc'[u] = IF u = t THEN "slot" ELSE pc[u]
        /\ pc' \in [Threads -> {"out", "waiting", "late"} \cup HoldingSteps]
    BY <1>3, GoToIs DEF HoldingSteps
  <2>2. Holders' = Holders \cup {t} /\ Waiting' = Waiting
    BY <1>1, <1>3, <2>1 DEF Holders, HoldingSteps, Waiting, InLine, TakeSlot
  <2>3. TypeOK'
    BY <1>3, <2>1 DEF TypeOK, SlotsTypeOK, TakeSlot
  <2> QED BY <1>2, <1>3, <2>2, <2>3 DEF TakeSlot
<1>4. CASE ~SlotFree /\ LineUp(t) /\ GoTo(t, "waiting") /\ UNCHANGED idle
  <2>1. /\ \A u \in Threads : pc'[u] = IF u = t THEN "waiting" ELSE pc[u]
        /\ pc' \in [Threads -> {"out", "waiting", "late"} \cup HoldingSteps]
    BY <1>4, GoToIs
  <2>2. /\ \A u \in Threads : turn'[u] = IF u = t THEN FALSE ELSE turn[u]
        /\ turn' \in [Threads -> BOOLEAN]
    BY <1>4 DEF LineUp, TypeOK, SlotsTypeOK
  <2>3. Holders' = Holders
    BY <1>1, <2>1, <2>2 DEF Holders, HoldingSteps
  <2>4. Waiting' = Waiting \cup {t}
    BY <1>1, <2>1, <2>2 DEF Waiting, InLine
  <2>5. TypeOK'
    BY <1>4, <2>1, <2>2, AppendProperties DEF TypeOK, SlotsTypeOK, LineUp
  <2> QED BY <1>2, <1>4, <2>3, <2>4, <2>5 DEF LineUp
<1> QED BY <1>3, <1>4 DEF Acquire, AcquireAtOnce

\* A step that leaves the slots alone: the end of a wait whose turn has come,
\* a timeout, and everything done with a slot in hand.
LEMMA QuietEffect ==
    ASSUME TypeOK, NEW t \in Threads,
           \/ Served(t) \/ TimeOut(t) \/ (GiveUp(t) /\ turn[t])
           \/ TakeIdle(t) \/ GoOutside(t) \/ Connect(t)
           \/ ReturnConnection(t) \/ DiscardConnection(t)
    PROVE  /\ UNCHANGED slotVars
           /\ Holders' = Holders /\ Waiting' = Waiting
           /\ TypeOK'
<1>1. CASE \/ Served(t) \/ (GiveUp(t) /\ turn[t])
  <2>1. /\ InLine(t) /\ turn[t] /\ GoTo(t, "slot") /\ UNCHANGED <<slotVars, idle>>
    BY <1>1 DEF Served, GiveUp, InLine
  <2>2. /\ \A u \in Threads : pc'[u] = IF u = t THEN "slot" ELSE pc[u]
        /\ pc' \in [Threads -> {"out", "waiting", "late"} \cup HoldingSteps]
    BY <2>1, GoToIs DEF HoldingSteps
  <2> QED BY <2>1, <2>2 DEF Holders, HoldingSteps, Waiting, InLine, slotVars,
                            TypeOK, SlotsTypeOK
<1>2. CASE TimeOut(t)
  <2>1. /\ \A u \in Threads : pc'[u] = IF u = t THEN "late" ELSE pc[u]
        /\ pc' \in [Threads -> {"out", "waiting", "late"} \cup HoldingSteps]
    BY <1>2, GoToIs DEF TimeOut
  <2> QED BY <1>2, <2>1 DEF TimeOut, Holders, HoldingSteps, Waiting, InLine, slotVars,
                            TypeOK, SlotsTypeOK
<1>3. CASE \/ TakeIdle(t) \/ GoOutside(t) \/ Connect(t)
           \/ ReturnConnection(t) \/ DiscardConnection(t)
  <2>1. /\ pc[t] \in HoldingSteps /\ UNCHANGED slotVars
        /\ \E step \in HoldingSteps : GoTo(t, step)
        /\ idle' \in Nat
    BY <1>3 DEF TakeIdle, GoOutside, Connect, ReturnConnection, DiscardConnection,
                HoldingSteps, TypeOK
  <2>2. PICK step \in HoldingSteps : GoTo(t, step)
    BY <2>1
  <2>3. /\ \A u \in Threads : pc'[u] = IF u = t THEN step ELSE pc[u]
        /\ pc' \in [Threads -> {"out", "waiting", "late"} \cup HoldingSteps]
    BY <2>2, GoToIs
  <2>4. \A u \in Threads : (pc'[u] = pc[u]) \/ {pc[u], pc'[u]} \subseteq HoldingSteps
    BY <2>1, <2>2, <2>3
  <2>5. Holders' = Holders /\ Waiting' = Waiting
    BY <2>1, <2>4 DEF Holders, HoldingSteps, Waiting, InLine, slotVars
  <2> QED BY <2>1, <2>3, <2>5 DEF slotVars, TypeOK, SlotsTypeOK
<1> QED BY <1>1, <1>2, <1>3

\* ConnectionSlots.acquire, second critical section, the turn not having come:
\* the thread leaves the line from wherever it is.
LEMMA GiveUpEffect ==
    ASSUME TypeOK, LineSound, NEW t \in Threads, GiveUp(t), ~turn[t]
    PROVE  /\ inUse' = inUse
           /\ \E k \in 1..Len(waiters) : waiters[k] = t /\ waiters' = RemoveAt(waiters, k)
           /\ Holders' = Holders /\ Waiting' = Waiting \ {t}
           /\ TypeOK'
<1>1. pc[t] = "late" /\ GoTo(t, "out") /\ LeaveLine(t) /\ UNCHANGED idle
  BY DEF GiveUp
<1>2. /\ \A u \in Threads : pc'[u] = IF u = t THEN "out" ELSE pc[u]
      /\ pc' \in [Threads -> {"out", "waiting", "late"} \cup HoldingSteps]
  BY <1>1, GoToIs
<1>3. PICK k \in 1..Len(waiters) : waiters[k] = t /\ waiters' = RemoveAt(waiters, k)
  BY <1>1 DEF LeaveLine
<1>4. waiters' \in Seq(Threads)
  <2>1. waiters \in Seq(Threads) /\ Once(waiters)
    BY DEF TypeOK, SlotsTypeOK, LineSound, Once
  <2> QED BY <1>3, <2>1, PlaceDropped
<1>5. Holders' = Holders /\ Waiting' = Waiting \ {t}
  BY <1>1, <1>2 DEF Holders, HoldingSteps, Waiting, InLine, LeaveLine
<1> QED BY <1>1, <1>2, <1>3, <1>4, <1>5 DEF LeaveLine, TypeOK, SlotsTypeOK

\* ConnectionSlots.release: the slot is freed or passes to the head of the line.
LEMMA LeaveEffect ==
    ASSUME Inv, NEW t \in Threads, Leave(t)
    PROVE  /\ t \in Holders
           /\ \/ /\ waiters = <<>> /\ waiters' = waiters
                 /\ inUse' = inUse - 1
                 /\ Holders' = Holders \ {t} /\ Waiting' = Waiting
              \/ /\ waiters # <<>> /\ waiters' = Tail(waiters)
                 /\ inUse' = inUse
                 /\ Head(waiters) \in Waiting
                 /\ Holders' = (Holders \ {t}) \cup {Head(waiters)}
                 /\ Waiting' = Waiting \ {Head(waiters)}
           /\ TypeOK'
<1>1. /\ pc[t] = "leaving" /\ t \in Holders
      /\ \A u \in Threads : pc'[u] = IF u = t THEN "out" ELSE pc[u]
      /\ pc' \in [Threads -> {"out", "waiting", "late"} \cup HoldingSteps]
      /\ idle' = idle
  BY GoToIs DEF Leave, Inv, Holders, HoldingSteps
<1>2. CASE waiters = <<>>
  <2>1. inUse' = inUse - 1 /\ UNCHANGED <<waiters, turn>>
    BY <1>2 DEF Leave, ReleaseSlot
  <2>2. Holders' = Holders \ {t} /\ Waiting' = Waiting
    BY <1>1, <2>1 DEF Holders, HoldingSteps, Waiting, InLine
  <2>3. inUse' \in Nat
    <3>1. inUse = Cardinality(Holders) /\ inUse \in Nat
      BY DEF Inv, SlotsExact, TypeOK, SlotsTypeOK
    <3>2. Cardinality(Holders) # 0
      BY <1>1, HoldersFinite, FS_EmptySet
    <3> QED BY <2>1, <3>1, <3>2
  <2>4. TypeOK'
    BY <1>1, <2>1, <2>3 DEF Inv, TypeOK, SlotsTypeOK
  <2> QED BY <1>1, <1>2, <2>1, <2>2, <2>4
<1>3. CASE waiters # <<>>
  <2> DEFINE h == Head(waiters)
  <2>1. /\ turn' = [turn EXCEPT ![h] = TRUE]
        /\ waiters' = Tail(waiters) /\ inUse' = inUse
    BY <1>3 DEF Leave, ReleaseSlot
  <2>2. /\ h \in Threads /\ h \in ToSet(waiters) /\ Tail(waiters) \in Seq(Threads)
    <3>1. waiters \in Seq(Threads) /\ Once(waiters)
      BY DEF Inv, TypeOK, SlotsTypeOK, LineSound, Once
    <3> QED BY <1>3, <3>1, HeadDropped
  <2>3. h \in Waiting
    BY <2>2 DEF Inv, LineSound, Waiting, InLine
  <2>4. /\ \A u \in Threads : turn'[u] = IF u = h THEN TRUE ELSE turn[u]
        /\ turn' \in [Threads -> BOOLEAN]
    BY <2>1, <2>2 DEF Inv, TypeOK, SlotsTypeOK
  <2> HIDE DEF h
  <2>5. Waiting' = Waiting \ {h}
    BY <1>1, <2>3, <2>4 DEF Waiting, InLine
  <2>6. Holders' = (Holders \ {t}) \cup {h}
    BY <1>1, <2>3, <2>4 DEF Holders, HoldingSteps, Waiting, InLine
  <2>7. TypeOK'
    BY <1>1, <2>1, <2>2, <2>4 DEF Inv, TypeOK, SlotsTypeOK
  <2> QED BY <1>1, <1>3, <2>1, <2>3, <2>5, <2>6, <2>7 DEF h
<1> QED BY <1>2, <1>3

-----------------------------------------------------------------------------
(* The invariant                                                           *)

\* A new pool satisfies the invariant.
LEMMA InvInit == Init => Inv
<1> SUFFICES ASSUME Init PROVE Inv
  OBVIOUS
<1>1. Holders = {} /\ Waiting = {}
  BY DEF Init, SlotsInit, Holders, HoldingSteps, Waiting, InLine
<1>2. waiters = <<>> /\ inUse = 0 /\ ToSet(waiters) = {} /\ Len(waiters) = 0
  BY DEF Init, SlotsInit, ToSet
<1>3. SlotsExact
  BY <1>1, <1>2, FS_EmptySet, SlotsAssumption DEF SlotsExact
<1>4. LineSound
  BY <1>1, <1>2 DEF LineSound, Waiting, InLine
<1> QED BY <1>3, <1>4, TypeInit DEF Inv

\* Every step of every thread preserves it.
LEMMA InvStep == Inv /\ [Next]_vars => Inv'
<1> SUFFICES ASSUME Inv, [Next]_vars PROVE Inv'
  OBVIOUS
<1> USE DEF Inv
<1>0. /\ inUse \in Nat /\ inUse = Cardinality(Holders) /\ (Limit > 0 => inUse <= Limit)
      /\ Limit \in Nat
      /\ waiters \in Seq(Threads)
      /\ Once(waiters)
      /\ ToSet(waiters) = Waiting
      /\ waiters # <<>> => Limit > 0 /\ inUse = Limit
  BY SlotsAssumption DEF TypeOK, SlotsTypeOK, SlotsExact, LineSound, Waiting, InLine, Once
<1>1. ASSUME NEW t \in Threads, Acquire(t) \/ AcquireAtOnce(t) PROVE Inv'
  <2>1. TypeOK' /\ t \notin Holders /\ t \notin Waiting
    BY <1>1, JoinEffect
  <2>2. CASE /\ SlotFree /\ inUse' = inUse + 1 /\ waiters' = waiters
             /\ Holders' = Holders \cup {t} /\ Waiting' = Waiting
    <3>1. Cardinality(Holders \cup {t}) = Cardinality(Holders) + 1
      BY <2>1, HoldersFinite, FS_AddElement
    <3>2. SlotsExact'
      BY <1>0, <2>2, <3>1 DEF SlotsExact, SlotFree
    <3>3. waiters = <<>>
      BY <1>0, <2>2 DEF SlotFree
    <3>4. LineSound'
      BY <1>0, <2>2, <3>3 DEF LineSound, Waiting, InLine, Once
    <3> QED BY <2>1, <3>2, <3>4
  <2>3. CASE /\ ~SlotFree /\ inUse' = inUse /\ waiters' = Append(waiters, t)
             /\ Holders' = Holders /\ Waiting' = Waiting \cup {t}
    <3>1. SlotsExact'
      BY <1>0, <2>3 DEF SlotsExact
    <3>2. Limit > 0 /\ inUse = Limit
      BY <1>0, <2>3 DEF SlotFree
    <3>3. Once(waiters') /\ ToSet(waiters') = Waiting \cup {t}
      BY <1>0, <2>1, <2>3, Joined
    <3>4. LineSound'
      BY <2>3, <3>2, <3>3 DEF LineSound, Waiting, InLine, Once
    <3> QED BY <2>1, <3>1, <3>4
  <2> QED BY <1>1, <2>2, <2>3, JoinEffect
<1>2. ASSUME NEW t \in Threads,
             \/ Served(t) \/ TimeOut(t) \/ (GiveUp(t) /\ turn[t])
             \/ TakeIdle(t) \/ GoOutside(t) \/ Connect(t)
             \/ ReturnConnection(t) \/ DiscardConnection(t)
      PROVE Inv'
  <2>1. UNCHANGED slotVars /\ Holders' = Holders /\ Waiting' = Waiting /\ TypeOK'
    BY <1>2, QuietEffect
  <2>2. SlotsExact' /\ LineSound'
    BY <1>0, <2>1 DEF SlotsExact, LineSound, slotVars, Waiting, InLine, Once
  <2> QED BY <2>1, <2>2
<1>3. ASSUME NEW t \in Threads, GiveUp(t), ~turn[t] PROVE Inv'
  <2>1. inUse' = inUse /\ Holders' = Holders /\ Waiting' = Waiting \ {t} /\ TypeOK'
    BY <1>3, GiveUpEffect
  <2>2. PICK k \in 1..Len(waiters) : waiters[k] = t /\ waiters' = RemoveAt(waiters, k)
    BY <1>3, GiveUpEffect
  <2>3. ToSet(waiters') = ToSet(waiters) \ {t} /\ Once(waiters')
    BY <1>0, <2>2, PlaceDropped
  <2>4. waiters # <<>>
    BY <1>0, <2>2
  <2>5. SlotsExact' /\ LineSound'
    BY <1>0, <2>1, <2>3, <2>4 DEF SlotsExact, LineSound, Waiting, InLine, Once
  <2> QED BY <2>1, <2>5
<1>4. ASSUME NEW t \in Threads, Leave(t) PROVE Inv'
  <2>1. TypeOK' /\ t \in Holders
    BY <1>4, LeaveEffect
  <2>2. Cardinality(Holders \ {t}) = Cardinality(Holders) - 1
    BY <2>1, HoldersFinite, FS_RemoveElement
  <2>3. CASE /\ waiters = <<>> /\ waiters' = waiters /\ inUse' = inUse - 1
             /\ Holders' = Holders \ {t} /\ Waiting' = Waiting
    BY <1>0, <2>1, <2>2, <2>3 DEF SlotsExact, LineSound, Waiting, InLine, Once
  <2>4. CASE /\ waiters # <<>> /\ waiters' = Tail(waiters) /\ inUse' = inUse
             /\ Head(waiters) \in Waiting
             /\ Holders' = (Holders \ {t}) \cup {Head(waiters)}
             /\ Waiting' = Waiting \ {Head(waiters)}
    <3>1. Head(waiters) \notin Holders \ {t}
      BY <2>4 DEF Waiting, InLine, Holders, HoldingSteps
    <3>2. IsFiniteSet(Holders \ {t})
      BY HoldersFinite, FS_RemoveElement
    <3>3. Cardinality(Holders') = Cardinality(Holders)
      <4>1. Cardinality(Holders') = Cardinality(Holders \ {t}) + 1
        BY <2>4, <3>1, <3>2, FS_AddElement
      <4> QED BY <2>2, <4>1, HoldersFinite
    <3>4. /\ ToSet(Tail(waiters)) = ToSet(waiters) \ {Head(waiters)}
          /\ Once(Tail(waiters))
      BY <1>0, <2>4, HeadDropped
    <3>5. SlotsExact'
      BY <1>0, <2>4, <3>3 DEF SlotsExact
    <3>6. LineSound'
      BY <1>0, <2>4, <3>4 DEF LineSound, Waiting, InLine, Once
    <3> QED BY <2>1, <3>5, <3>6
  <2> QED BY <1>4, <2>3, <2>4, LeaveEffect
<1>5. CASE UNCHANGED vars
  BY <1>5 DEF vars, slotVars, TypeOK, SlotsTypeOK, SlotsExact, LineSound, Holders, InLine
<1> QED BY <1>1, <1>2, <1>3, <1>4, <1>5 DEF Next

\* So it always holds.
LEMMA InvAlways == Spec => []Inv
<1> QED BY InvInit, InvStep, PTL DEF Spec

\* in_use is exactly the number of threads that have a slot (an Event set but
\* not seen yet included) and never above the limit.
THEOREM SlotsAreExact == Spec => []SlotsExact
<1>1. Inv => SlotsExact
  BY DEF Inv
<1> QED BY <1>1, InvAlways, PTL

\* A thread is in line exactly while it waits, and only when no slot is free.
THEOREM LineIsSound == Spec => []LineSound
<1>1. Inv => LineSound
  BY DEF Inv
<1> QED BY <1>1, InvAlways, PTL

\* Every variable keeps its type: in_use and the idle connections included,
\* which the code decrements without a check.
THEOREM TypeCorrect == Spec => []TypeOK
<1>1. Inv => TypeOK
  BY DEF Inv
<1> QED BY <1>1, InvAlways, PTL

-----------------------------------------------------------------------------
(* The pool keeps within the limit                                         *)

\* Threads that have a connection of the pool, or are opening one.
Pooled == {t \in Threads : pc[t] \in {"connecting", "using"}}

\* Threads that have a connection of the pool have a slot too.
LEMMA PooledFinite ==
    /\ IsFiniteSet(Pooled) /\ Cardinality(Pooled) \in Nat
    /\ Pooled \subseteq Holders
<1>1. Pooled \subseteq Holders
  BY DEF Pooled, Holders, HoldingSteps
<1> QED BY <1>1, HoldersFinite, FS_Subset, FS_CardinalityType

\* A thread opens a connection only when none is idle, and then every other one
\* is in the hands of another holder: the total stays within the slots.
LEMMA OpenStep ==
    ASSUME Inv, Inv', OpenBounded, [Next]_vars
    PROVE  OpenBounded'
<1> SUFFICES ASSUME Limit > 0 PROVE idle' + Cardinality(Pooled') <= Limit
  BY DEF OpenBounded, PooledOpen, Pooled
<1>0. /\ idle \in Nat /\ idle' \in Nat /\ Limit \in Nat
      /\ idle + Cardinality(Pooled) <= Limit
      /\ Cardinality(Pooled) \in Nat
  BY PooledFinite, SlotsAssumption DEF Inv, TypeOK, OpenBounded, PooledOpen, Pooled
<1>1. CASE idle' = idle /\ Pooled' = Pooled
  BY <1>0, <1>1
<1>2. ASSUME NEW t \in Threads, TakeIdle(t) PROVE idle' + Cardinality(Pooled') <= Limit
  <2>1. /\ pc[t] = "slot" /\ t \notin Pooled
        /\ \E step \in {"using", "connecting"} : GoTo(t, step)
        /\ \/ idle > 0 /\ idle' = idle - 1
           \/ idle = 0 /\ idle' = 0
    BY <1>0, <1>2 DEF TakeIdle, Pooled
  <2>2. PICK step \in {"using", "connecting"} : GoTo(t, step)
    BY <2>1
  <2>3. \A u \in Threads : pc'[u] = IF u = t THEN step ELSE pc[u]
    BY <2>2, GoToIs DEF Inv
  <2>4. Pooled' = Pooled \cup {t}
    BY <2>2, <2>3 DEF Pooled
  <2>5. Cardinality(Pooled') = Cardinality(Pooled) + 1
    BY <2>1, <2>4, PooledFinite, FS_AddElement
  <2>6. CASE idle > 0 /\ idle' = idle - 1
    BY <1>0, <2>5, <2>6
  <2>7. CASE idle = 0 /\ idle' = 0
    \* Everybody with a connection, this thread included, has a slot.
    <3>1. Pooled \cup {t} \subseteq Holders
      BY <2>1, PooledFinite DEF Holders, HoldingSteps
    <3>2. Cardinality(Pooled \cup {t}) <= Cardinality(Holders)
      BY <3>1, HoldersFinite, FS_Subset
    <3>3. Cardinality(Holders) <= Limit
      BY DEF Inv, SlotsExact
    <3>4. Cardinality(Pooled \cup {t}) = Cardinality(Pooled) + 1
      BY <2>4, <2>5
    <3> QED BY <1>0, <2>4, <2>7, <3>2, <3>3, <3>4, HoldersFinite
  <2> QED BY <2>1, <2>6, <2>7
<1>3. ASSUME NEW t \in Threads, Connect(t) PROVE idle' + Cardinality(Pooled') <= Limit
  <2>1. pc[t] = "connecting" /\ idle' = idle
    BY <1>3 DEF Connect
  <2>2. PICK step \in {"using", "leaving"} : GoTo(t, step)
    BY <1>3 DEF Connect
  <2>3. \A u \in Threads : pc'[u] = IF u = t THEN step ELSE pc[u]
    BY <2>2, GoToIs DEF Inv
  <2>4. Pooled' \subseteq Pooled
    BY <2>1, <2>3 DEF Pooled
  <2>5. Cardinality(Pooled') <= Cardinality(Pooled) /\ Cardinality(Pooled') \in Nat
    BY <2>4, PooledFinite, FS_Subset, FS_CardinalityType
  <2> QED BY <1>0, <2>1, <2>5
<1>4. ASSUME NEW t \in Threads, ReturnConnection(t) \/ (DiscardConnection(t) /\ pc[t] = "using")
      PROVE idle' + Cardinality(Pooled') <= Limit
  <2>1. /\ pc[t] = "using" /\ GoTo(t, "leaving") /\ t \in Pooled
        /\ idle' = idle \/ idle' = idle + 1
    BY <1>4 DEF ReturnConnection, DiscardConnection, Pooled
  <2>2. \A u \in Threads : pc'[u] = IF u = t THEN "leaving" ELSE pc[u]
    BY <2>1, GoToIs DEF Inv
  <2>3. Pooled' = Pooled \ {t}
    BY <2>1, <2>2 DEF Pooled
  <2>4. Cardinality(Pooled') = Cardinality(Pooled) - 1
    BY <2>1, <2>3, PooledFinite, FS_RemoveElement
  <2> QED BY <1>0, <2>1, <2>4
<1>5. ASSUME NEW t \in Threads,
             \/ Acquire(t) \/ AcquireAtOnce(t) \/ Served(t) \/ TimeOut(t) \/ GiveUp(t)
             \/ GoOutside(t) \/ Leave(t) \/ (DiscardConnection(t) /\ pc[t] = "outside")
      PROVE idle' = idle /\ Pooled' = Pooled
  <2>1. /\ idle' = idle
        /\ pc[t] \notin {"connecting", "using"}
        /\ \E step \in {"slot", "waiting", "late", "out", "outside", "leaving"} : GoTo(t, step)
    BY <1>5 DEF Acquire, AcquireAtOnce, Served, TimeOut, GiveUp, GoOutside, Leave,
                DiscardConnection
  <2>2. PICK step \in {"slot", "waiting", "late", "out", "outside", "leaving"} : GoTo(t, step)
    BY <2>1
  <2>3. \A u \in Threads : pc'[u] = IF u = t THEN step ELSE pc[u]
    BY <2>2, GoToIs DEF Inv
  <2> QED BY <2>1, <2>2, <2>3 DEF Pooled
<1>6. ASSUME NEW t \in Threads, DiscardConnection(t) PROVE pc[t] \in {"using", "outside"}
  BY <1>6 DEF DiscardConnection
<1>7. CASE UNCHANGED vars
  BY <1>0, <1>7 DEF vars, Pooled
<1> QED BY <1>1, <1>2, <1>3, <1>4, <1>5, <1>6, <1>7 DEF Next

\* However its connections are taken, opened, returned, lost to an error or
\* left idle, a pool never has more of them than MAX_CONNECTIONS.
THEOREM PoolKeepsWithinLimit == Spec => []OpenBounded
<1>1. Init => OpenBounded
  <2> SUFFICES ASSUME Init PROVE OpenBounded
    OBVIOUS
  <2>1. Pooled = {} /\ idle = 0
    BY DEF Init, Pooled
  <2>2. Cardinality(Pooled) = 0
    BY <2>1, FS_EmptySet
  <2> QED BY <2>1, <2>2, SlotsAssumption DEF OpenBounded, PooledOpen, Pooled
<1>2. Inv /\ Inv' /\ OpenBounded /\ [Next]_vars => OpenBounded'
  BY OpenStep
<1> QED BY <1>1, <1>2, InvAlways, PTL DEF Spec

-----------------------------------------------------------------------------
(* The refinement                                                          *)

\* Who is before whom, in the terms of the lemmas on lines.
LEMMA BeforeIs ==
    ASSUME NEW t \in Threads
    PROVE  /\ Before(t) = {u \in Threads : Precedes(waiters, u, t)}
           /\ Before(t)' = {u \in Threads : Precedes(waiters', u, t)}
BY DEF Before, Precedes

\* A thread that leaves the line leaves the others before and behind each other
\* as they were.
LEMMA LineWithout ==
    ASSUME NEW c \in Threads,
           ToSet(waiters') = ToSet(waiters) \ {c},
           \A u, v : Precedes(waiters', u, v) <=> u # c /\ v # c /\ Precedes(waiters, u, v)
    PROVE  Slots!WaitsNoMore(c)
<1>1. \A d \in Threads : Before(d)' = IF d = c THEN {} ELSE Before(d) \ {c}
  BY BeforeIs
<1>2. [t \in Threads |-> Before(t)]' = [d \in Threads |-> IF d = c THEN {} ELSE [t \in Threads |-> Before(t)][d] \ {c}]
  BY <1>1
<1> QED BY <1>2 DEF Slots!WaitsNoMore

\* Every step of the slots, wherever a timeout or a hand-over cuts in, is a
\* step of the abstract line, or changes nothing in it.  ServesInOrder says
\* the same with fairness, which is TLC's.
THEOREM ImplementsFifoSlots == Spec => Slots!Spec
<1>1. Init => Slots!Init
  BY DEF Init, Slots!Init, SlotsInit, Holders, HoldingSteps, ToSet, Before
<1>2. ASSUME Inv, [Next]_vars PROVE [Slots!Next]_(Slots!vars)
  <2>0. /\ inUse = Cardinality(Holders) /\ ToSet(waiters) = Waiting
        /\ Limit \in Nat /\ waiters \in Seq(Threads) /\ Once(waiters)
        /\ ToSet(waiters) = {} <=> waiters = <<>>
    <3>1. /\ inUse = Cardinality(Holders) /\ ToSet(waiters) = Waiting
          /\ Limit \in Nat /\ waiters \in Seq(Threads) /\ Once(waiters)
      BY <1>2, SlotsAssumption
         DEF Inv, TypeOK, SlotsTypeOK, SlotsExact, LineSound, Waiting, InLine, Once
    <3>2. ToSet(waiters) = {} <=> waiters = <<>>
      BY <3>1 DEF ToSet
    <3> QED BY <3>1, <3>2
  <2>1. ASSUME NEW t \in Threads, Acquire(t) \/ AcquireAtOnce(t) PROVE Slots!Enter(t)
    <3>1. t \notin Holders \cup ToSet(waiters)
      BY <1>2, <2>0, <2>1, JoinEffect DEF Inv
    <3>2. SlotFree <=> Slots!Free
      <4>1. Slots!Cardinality(Holders) = Cardinality(Holders)
        BY DEF Slots!Cardinality, Cardinality
      <4> QED BY <2>0, <4>1 DEF SlotFree, Slots!Free
    <3>3. CASE SlotFree /\ waiters' = waiters /\ Holders' = Holders \cup {t}
      <4>1. \A d \in Threads : Before(d)' = Before(d)
        BY <3>3, BeforeIs
      <4> QED BY <3>1, <3>2, <3>3, <4>1 DEF Slots!Enter
    <3>4. CASE ~SlotFree /\ waiters' = Append(waiters, t) /\ Holders' = Holders
      <4>1. /\ ToSet(waiters') = ToSet(waiters) \cup {t}
            /\ \A u, c : Precedes(waiters', u, c) <=>
                  IF c = t THEN u \in ToSet(waiters) ELSE Precedes(waiters, u, c)
        BY <2>0, <3>1, <3>4, Joined
      <4>2. ToSet(waiters) \subseteq Threads
        BY <2>0 DEF Waiting
      <4>3. \A d \in Threads : Before(d)' = IF d = t THEN ToSet(waiters) ELSE Before(d)
        BY <4>1, <4>2, BeforeIs
      <4>4. [d \in Threads |-> Before(d)]' =
               [[d \in Threads |-> Before(d)] EXCEPT ![t] = ToSet(waiters)]
        BY <4>3
      <4> QED BY <3>1, <3>2, <3>4, <4>1, <4>4 DEF Slots!Enter
    <3> QED BY <1>2, <2>1, <3>3, <3>4, JoinEffect DEF Inv
  <2>2. ASSUME NEW t \in Threads,
               \/ Served(t) \/ TimeOut(t) \/ (GiveUp(t) /\ turn[t])
               \/ TakeIdle(t) \/ GoOutside(t) \/ Connect(t)
               \/ ReturnConnection(t) \/ DiscardConnection(t)
        PROVE UNCHANGED Slots!vars
    <3>1. waiters' = waiters /\ Holders' = Holders
      BY <1>2, <2>2, QuietEffect DEF Inv, slotVars
    <3>2. \A d \in Threads : Before(d)' = Before(d)
      BY <3>1, BeforeIs
    <3> QED BY <3>1, <3>2 DEF Slots!vars
  <2>3. ASSUME NEW t \in Threads, GiveUp(t), ~turn[t] PROVE Slots!GiveUp(t)
    <3>1. PICK k \in 1..Len(waiters) : waiters[k] = t /\ waiters' = RemoveAt(waiters, k)
      BY <1>2, <2>3, GiveUpEffect DEF Inv
    <3>2. Holders' = Holders
      BY <1>2, <2>3, GiveUpEffect DEF Inv
    <3>3. /\ t \in ToSet(waiters)
          /\ ToSet(waiters') = ToSet(waiters) \ {t}
          /\ \A u, c : Precedes(waiters', u, c) <=>
                u # t /\ c # t /\ Precedes(waiters, u, c)
      BY <2>0, <3>1, PlaceDropped
    <3>4. Slots!WaitsNoMore(t)
      BY <3>3, LineWithout
    <3> QED BY <3>2, <3>3, <3>4 DEF Slots!GiveUp
  <2>4. ASSUME NEW t \in Threads, Leave(t) PROVE Slots!Leave(t)
    <3>0. t \in Holders
      BY <1>2, <2>4, LeaveEffect
    <3>1. CASE waiters = <<>> /\ waiters' = waiters /\ Holders' = Holders \ {t}
      <4>1. \A d \in Threads : Before(d)' = Before(d)
        BY <3>1, BeforeIs
      <4> QED BY <2>0, <3>0, <3>1, <4>1 DEF Slots!Leave
    <3>2. CASE /\ waiters # <<>> /\ waiters' = Tail(waiters)
               /\ Holders' = (Holders \ {t}) \cup {Head(waiters)}
      <4> DEFINE h == Head(waiters)
      <4>1. /\ h \in Threads /\ h \in ToSet(waiters)
            /\ ToSet(waiters') = ToSet(waiters) \ {h}
            /\ \A u, c : Precedes(waiters', u, c) <=>
                  u # h /\ c # h /\ Precedes(waiters, u, c)
            /\ \A u : ~Precedes(waiters, u, h)
        BY <2>0, <3>2, HeadDropped
      <4> HIDE DEF h
      <4>2. Slots!WaitsNoMore(h)
        BY <4>1, LineWithout
      <4>3. [d \in Threads |-> Before(d)][h] = {}
        BY <4>1, BeforeIs
      <4>4. Holders' = (Holders \ {t}) \cup {h}
        BY <3>2 DEF h
      <4> QED BY <3>0, <4>1, <4>2, <4>3, <4>4 DEF Slots!Leave
    <3> QED BY <1>2, <2>4, <3>1, <3>2, LeaveEffect
  <2>5. CASE UNCHANGED vars
    BY <2>5 DEF vars, slotVars, Slots!vars, Holders, Before
  <2> QED BY <1>2, <2>1, <2>2, <2>3, <2>4, <2>5 DEF Next, Slots!Next
<1> QED BY <1>1, <1>2, InvAlways, PTL DEF Spec, Slots!Spec
=============================================================================
