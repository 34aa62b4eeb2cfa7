------------------------ MODULE SessionManagerProofs ------------------------
(***************************************************************************)
(* Proofs about SessionManager, for any sessions, any threads, any limits  *)
(* and any time a caller may wait for the lock.                            *)
(*                                                                         *)
(* A session is dropped by what its clock says, and its clock may have     *)
(* been set back by a caller that read the time before a faster one did.   *)
(* The inductive invariant bounds by how much: what the manager takes for  *)
(* the session's idle time exceeds the real one by no more than the        *)
(* longest wait for the lock.                                              *)
(***************************************************************************)
EXTENDS SessionManager, Integers, TLAPS

\* The manager's idea of how long a session was not used, and the truth.
IdleBounded == \A s \in Ids : idle[s] <= unused[s] + MaxWait

Inv == TypeOK /\ IdleBounded

\* The limits are numbers.
LEMMA LimitTypes ==
    /\ TTL \in Nat /\ MaxAge \in Nat /\ MaxWait \in Nat
    /\ IdleCap \in Nat /\ AgeCap \in Nat
    /\ MaxWait <= IdleCap /\ MaxWait <= AgeCap
BY SessionAssumption DEF IdleCap, AgeCap

\* A reading of the clock is never older than the longest wait.
LEMMA WaitBounded ==
    ASSUME TypeOK, NEW t \in Threads
    PROVE  waited[t] \in 0..MaxWait
BY DEF TypeOK

-----------------------------------------------------------------------------
(* What the manager's steps do to the clocks                               *)

Clocks ==
    /\ exists \in SUBSET Ids
    /\ idle \in [Ids -> 0..IdleCap]
    /\ age \in [Ids -> 0..AgeCap]
    /\ unused \in [Ids -> 0..IdleCap]
    /\ IdleBounded

Calls ==
    /\ pc \in [Threads -> {"out", "create", "get", "purge"}]
    /\ target \in [Threads -> Ids \cup {NoSession}]
    /\ waited \in [Threads -> 0..MaxWait]

\* Sessions leave: their clocks are reset.
LEMMA DropKeeps ==
    ASSUME Clocks, NEW S, Drop(S)
    PROVE  Clocks'
<1>1. \A s \in Ids : IF s \in S THEN idle'[s] = 0 /\ unused'[s] = 0
                     ELSE idle'[s] = idle[s] /\ unused'[s] = unused[s]
  BY DEF Drop
<1>2. IdleBounded'
  BY <1>1, LimitTypes DEF Clocks, IdleBounded
<1> QED BY <1>2, LimitTypes DEF Clocks, Drop

\* An access by a clock read w ago: the real time is the latest access's.
LEMMA TouchKeeps ==
    ASSUME Clocks, NEW s \in Ids, NEW w \in 0..MaxWait, Touch(s, w)
    PROVE  Clocks'
<1>1. Least(unused[s], w) \in 0..IdleCap /\ w <= Least(unused[s], w) + MaxWait
  BY LimitTypes DEF Clocks, Least
<1>2. /\ exists' = exists /\ age' = age
      /\ idle' = [idle EXCEPT ![s] = w]
      /\ unused' = [unused EXCEPT ![s] = Least(unused[s], w)]
  BY DEF Touch
<1> HIDE DEF Least
<1>3. idle' \in [Ids -> 0..IdleCap] /\ unused' \in [Ids -> 0..IdleCap]
  BY <1>1, <1>2, LimitTypes DEF Clocks
<1>4. IdleBounded'
  BY <1>1, <1>2 DEF Clocks, IdleBounded
<1> QED BY <1>2, <1>3, <1>4 DEF Clocks

\* A session is made by a clock read w ago.
LEMMA InsertKeeps ==
    ASSUME Clocks, NEW s \in Ids, NEW w \in 0..MaxWait, Insert(s, w)
    PROVE  Clocks'
<1>1. w \in 0..IdleCap /\ w \in 0..AgeCap /\ w <= w + MaxWait
  BY LimitTypes
<1>2. /\ exists' \in SUBSET Ids /\ age' \in [Ids -> 0..AgeCap]
      /\ idle' \in [Ids -> 0..IdleCap] /\ unused' \in [Ids -> 0..IdleCap]
  BY <1>1 DEF Clocks, Insert
<1>3. IdleBounded'
  BY <1>1 DEF Clocks, Insert, IdleBounded
<1> QED BY <1>2, <1>3 DEF Clocks

\* A thread returns.
LEMMA ReturnKeeps ==
    ASSUME Calls, NEW t \in Threads, Return(t)
    PROVE  Calls'
BY LimitTypes DEF Calls, Return

\* A thread reads the clock.
LEMMA ReadClockKeeps ==
    ASSUME Clocks, Calls, NEW t \in Threads, NEW call \in {"create", "get", "purge"},
           NEW s \in Ids \cup {NoSession}, ReadClock(t, call, s)
    PROVE  Clocks' /\ Calls'
<1>1. Calls'
  BY LimitTypes DEF Calls, ReadClock
<1> QED BY <1>1 DEF Clocks, IdleBounded, ReadClock, sessionVars

\* Time passes for the sessions and for those who wait.
LEMMA TickKeeps ==
    ASSUME Clocks, Calls, Tick
    PROVE  Clocks' /\ Calls'
<1>1. \A i \in 0..IdleCap : Least(i + 1, IdleCap) \in 0..IdleCap
  BY LimitTypes DEF Least
<1>2. \A i \in 0..AgeCap : Least(i + 1, AgeCap) \in 0..AgeCap
  BY LimitTypes DEF Least
<1>3. \A i, u \in 0..IdleCap :
         i <= u + MaxWait => Least(i + 1, IdleCap) <= Least(u + 1, IdleCap) + MaxWait
  BY LimitTypes DEF Least
<1>4. /\ exists' = exists /\ pc' = pc /\ target' = target
      /\ idle' = [s \in Ids |-> IF s \in exists THEN Least(idle[s] + 1, IdleCap) ELSE 0]
      /\ age' = [s \in Ids |-> IF s \in exists THEN Least(age[s] + 1, AgeCap) ELSE 0]
      /\ unused' = [s \in Ids |-> IF s \in exists THEN Least(unused[s] + 1, IdleCap) ELSE 0]
      /\ waited' = [t \in Threads |-> IF pc[t] # "out" THEN waited[t] + 1 ELSE 0]
      /\ \A t \in Threads : pc[t] # "out" => waited[t] < MaxWait
  BY DEF Tick
<1> HIDE DEF Least
<1>5. /\ idle' \in [Ids -> 0..IdleCap] /\ age' \in [Ids -> 0..AgeCap]
      /\ unused' \in [Ids -> 0..IdleCap]
  BY <1>1, <1>2, <1>4, LimitTypes DEF Clocks
<1>6. IdleBounded'
  BY <1>3, <1>4, LimitTypes DEF Clocks, IdleBounded
<1>7. waited' \in [Threads -> 0..MaxWait]
  BY <1>4, LimitTypes DEF Calls
<1> QED BY <1>4, <1>5, <1>6, <1>7 DEF Clocks, Calls

-----------------------------------------------------------------------------
(* The invariant                                                           *)

\* A new manager has no sessions and no callers.
LEMMA InvInit == Init => Inv
BY LimitTypes DEF Init, Inv, TypeOK, IdleBounded

\* Every step preserves the invariant.
LEMMA InvStep == Inv /\ [Next]_vars => Inv'
<1> SUFFICES ASSUME Clocks, Calls, [Next]_vars PROVE Clocks' /\ Calls'
  BY DEF Inv, TypeOK, Clocks, Calls
<1>0. TypeOK
  BY DEF Clocks, Calls, TypeOK
<1>1. CASE Tick
  BY <1>1, TickKeeps
<1>2. CASE WakeCleaner
  BY <1>2, ReadClockKeeps DEF WakeCleaner, Threads
<1>3. CASE PurgeExpired
  BY <1>3, DropKeeps, ReturnKeeps DEF PurgeExpired, Threads
<1>4. ASSUME NEW t \in Callers, CallCreate(t) PROVE Clocks' /\ Calls'
  BY <1>4, ReadClockKeeps DEF CallCreate, Threads
<1>5. ASSUME NEW t \in Callers, NEW s \in Ids, CallGet(t, s) PROVE Clocks' /\ Calls'
  BY <1>5, ReadClockKeeps DEF CallGet, Threads
<1>6. ASSUME NEW t \in Callers, CreateSession(t) PROVE Clocks' /\ Calls'
  <2>1. t \in Threads /\ Return(t) /\ waited[t] \in 0..MaxWait
    BY <1>0, <1>6, WaitBounded DEF CreateSession, Threads
  <2>2. UNCHANGED sessionVars \/ \E s \in Ids : Insert(s, waited[t])
    BY <1>6 DEF CreateSession, Ids
  <2>3. CASE UNCHANGED sessionVars
    BY <2>1, <2>3, ReturnKeeps DEF sessionVars, Clocks, IdleBounded
  <2> QED BY <2>1, <2>2, <2>3, InsertKeeps, ReturnKeeps
<1>7. ASSUME NEW t \in Callers, GetSession(t) PROVE Clocks' /\ Calls'
  <2>1. t \in Threads /\ Return(t) /\ waited[t] \in 0..MaxWait
    BY <1>0, <1>7, WaitBounded DEF GetSession, Threads
  <2>2. \/ UNCHANGED sessionVars
        \/ Drop({target[t]})
        \/ target[t] \in exists /\ Touch(target[t], waited[t])
    BY <1>7 DEF GetSession
  <2>3. CASE UNCHANGED sessionVars
    BY <2>1, <2>3, ReturnKeeps DEF sessionVars, Clocks, IdleBounded
  <2>4. CASE Drop({target[t]})
    BY <2>1, <2>4, DropKeeps, ReturnKeeps
  <2>5. CASE target[t] \in exists /\ Touch(target[t], waited[t])
    <3>1. target[t] \in Ids
      BY <2>5 DEF Clocks
    <3> QED BY <2>1, <2>5, <3>1, TouchKeeps, ReturnKeeps
  <2> QED BY <2>2, <2>3, <2>4, <2>5
<1>8. ASSUME NEW s \in Ids, GetOrCreate(s) PROVE Clocks' /\ Calls'
  <2>1. 0 \in 0..MaxWait
    BY LimitTypes
  <2>2. Touch(s, 0) \/ Insert(s, 0)
    BY <1>8 DEF GetOrCreate
  <2>3. Clocks'
    BY <2>1, <2>2, TouchKeeps, InsertKeeps
  <2> QED BY <1>8, <2>3 DEF GetOrCreate, callVars, Calls
<1>9. ASSUME NEW s \in Ids, CloseSession(s) PROVE Clocks' /\ Calls'
  BY <1>9, DropKeeps DEF CloseSession, callVars, Calls
<1>10. CASE UNCHANGED vars
  BY <1>10 DEF vars, sessionVars, callVars, Clocks, Calls, IdleBounded
<1> QED
  BY <1>1, <1>2, <1>3, <1>4, <1>5, <1>6, <1>7, <1>8, <1>9, <1>10 DEF Next

\* So it always holds.
LEMMA InvAlways == Spec => []Inv
<1> QED BY InvInit, InvStep, PTL DEF Spec

\* The clocks stay between zero and where they are cut off, and nobody waits
\* longer than MaxWait.
THEOREM TypeCorrect == Spec => []TypeOK
<1>1. Inv => TypeOK
  BY DEF Inv
<1> QED BY <1>1, InvAlways, PTL

-----------------------------------------------------------------------------
(* Why a session goes                                                      *)

\* A session that a step takes away, other than by a close, had expired by
\* the clock of a caller or of the cleanup thread.
LEMMA ExpiredByAClock ==
    ASSUME Inv, [Next]_vars, NEW s \in Ids, ByExpiry(s)
    PROVE  \E t \in Threads : IsExpired(s, waited[t])
<1>1. s \in exists /\ s \notin exists' /\ ~CloseSession(s)
  BY DEF ByExpiry
<1>2. CASE PurgeExpired
  <2>1. IsExpired(s, waited[Cleaner])
    BY <1>1, <1>2 DEF PurgeExpired, Drop
  <2> QED BY <2>1 DEF Threads
<1>3. ASSUME NEW t \in Callers, GetSession(t) PROVE IsExpired(s, waited[t])
  <2>1. \/ exists' = exists
        \/ IsExpired(target[t], waited[t]) /\ exists' = exists \ {target[t]}
    BY <1>3 DEF GetSession, Drop, Touch, sessionVars
  <2> QED BY <1>1, <2>1
<1>4. ASSUME NEW r \in Ids, CloseSession(r) PROVE FALSE
  <2>1. exists' = exists \ {r}
    BY <1>4 DEF CloseSession, Drop
  <2> QED BY <1>1, <1>4, <2>1
<1>5. ASSUME \/ Tick \/ WakeCleaner \/ UNCHANGED vars
             \/ \E t \in Callers : CallCreate(t) \/ CreateSession(t)
             \/ \E t \in Callers, r \in Ids : CallGet(t, r)
             \/ \E r \in Ids : GetOrCreate(r)
      PROVE FALSE
  <2>1. exists \subseteq exists'
    BY <1>5 DEF Tick, WakeCleaner, CallCreate, CreateSession, CallGet, GetOrCreate,
                ReadClock, Touch, Insert, vars, sessionVars
  <2> QED BY <1>1, <2>1
<1>6. \A t \in Callers : t \in Threads
  BY DEF Threads
<1> QED BY <1>2, <1>3, <1>4, <1>5, <1>6 DEF Next

\* However slow a caller is that sets last_accessed back, no session goes for
\* idleness before it was unused for the timeout less the longest wait, and
\* none for its age before its time.
THEOREM OnlyTheUnusedGo == Spec => DroppedOnlyWhenUnused
<1>1. ASSUME Inv, [Next]_vars
      PROVE  [\A s \in Ids : ByExpiry(s) => unused[s] + MaxWait > TTL \/ age[s] > MaxAge]_vars
  <2> SUFFICES ASSUME NEW s \in Ids, ByExpiry(s)
               PROVE  unused[s] + MaxWait > TTL \/ age[s] > MaxAge
    OBVIOUS
  <2>1. PICK t \in Threads : IsExpired(s, waited[t])
    BY <1>1, ExpiredByAClock
  <2>2. waited[t] \in Nat /\ idle[s] \in Nat /\ age[s] \in Nat /\ unused[s] \in Nat
        /\ idle[s] <= unused[s] + MaxWait
    BY <1>1, LimitTypes DEF Inv, TypeOK, IdleBounded
  <2>3. idle[s] > TTL + waited[t] \/ age[s] > MaxAge + waited[t]
    BY <2>1 DEF IsExpired
  <2> QED BY <2>2, <2>3, LimitTypes
<1> QED BY <1>1, InvAlways, PTL DEF Spec, DroppedOnlyWhenUnused

\* An admin-managed session goes only when it is closed.
THEOREM TheProtectedStay == Spec => ProtectedStay
<1>1. ASSUME Inv, [Next]_vars PROVE [\A s \in Named : ~ByExpiry(s)]_vars
  <2> SUFFICES ASSUME NEW s \in Named, ByExpiry(s) PROVE FALSE
    OBVIOUS
  <2>1. s \in Ids
    BY DEF Ids
  <2>2. PICK t \in Threads : IsExpired(s, waited[t])
    BY <1>1, <2>1, ExpiredByAClock
  <2> QED BY <2>2 DEF IsExpired, Protected
<1> QED BY <1>1, InvAlways, PTL DEF Spec, ProtectedStay
=============================================================================
