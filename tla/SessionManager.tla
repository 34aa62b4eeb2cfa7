--------------------------- MODULE SessionManager ---------------------------
(***************************************************************************)
(* service/session_manager.py: which sessions expire, and when.  What a    *)
(* session's store does, and what closing it does, is SharedModels.tla's   *)
(* subject; here a session is its two clocks and its kind.                 *)
(*                                                                         *)
(* create_session, get_store, get_session and _purge_expired read the      *)
(* clock first and take the lock afterwards: their time may be old by      *)
(* then, and a later caller may have been faster.  Time is kept relative:  *)
(* how long ago a session was created and accessed, and how long ago each  *)
(* caller in flight read the clock.                                        *)
(***************************************************************************)
EXTENDS Naturals, FiniteSets

CONSTANTS
    Users,       \* sessions of create_session
    Named,       \* sessions of get_or_create_named: protected
    Default,     \* the __default__ session
    Callers,     \* threads that call the manager
    Cleaner,     \* the cleanup thread
    NoSession,
    TTL,         \* ttl_seconds
    MaxAge,      \* max_age_seconds
    MaxSessions, \* max_sessions
    MaxWait,     \* the longest a caller waits for the lock
    SingleModelMode

Ids == Users \cup Named \cup {Default}
Threads == Callers \cup {Cleaner}

ASSUME SessionAssumption ==
    /\ IsFiniteSet(Ids) /\ IsFiniteSet(Threads)
    /\ Users \cap Named = {} /\ Default \notin Users \cup Named
    /\ NoSession \notin Ids /\ Cleaner \notin Callers
    /\ {TTL, MaxAge, MaxSessions, MaxWait} \subseteq Nat
    /\ SingleModelMode \in BOOLEAN

VARIABLES
    exists,   \* the keys of _sessions
    idle,     \* time since last_accessed
    age,      \* time since created_at_mono
    unused,   \* time since the clock reading of the latest access (history)
    pc,       \* what each thread is calling
    target,   \* the session it asks for
    waited    \* how long ago it read the clock

sessionVars == <<exists, idle, age, unused>>
callVars == <<pc, target, waited>>
vars == <<sessionVars, callVars>>

\* Past these a clock compares like any later time, for the oldest reading.
IdleCap == TTL + MaxWait + 1
AgeCap == MaxAge + MaxWait + 1

TypeOK ==
    /\ exists \in SUBSET Ids
    /\ idle \in [Ids -> 0..IdleCap]
    /\ age \in [Ids -> 0..AgeCap]
    /\ unused \in [Ids -> 0..IdleCap]
    /\ pc \in [Threads -> {"out", "create", "get", "purge"}]
    /\ target \in [Threads -> Ids \cup {NoSession}]
    /\ waited \in [Threads -> 0..MaxWait]

Init ==
    /\ exists = {}
    /\ idle = [s \in Ids |-> 0]
    /\ age = [s \in Ids |-> 0]
    /\ unused = [s \in Ids |-> 0]
    /\ pc = [t \in Threads |-> "out"]
    /\ target = [t \in Threads |-> NoSession]
    /\ waited = [t \in Threads |-> 0]

Protected(s) == s \in Named

\* Mutant: only the idle timeout is looked at.
IsExpiredIdleOnly(s, w) == ~Protected(s) /\ idle[s] > TTL + w

\* Mutant: protected sessions expire like any other.
IsExpiredAll(s, w) == idle[s] > TTL + w \/ age[s] > MaxAge + w

\* _is_expired, by a clock read w ago.
IsExpired(s, w) == ~Protected(s) /\ (idle[s] > TTL + w \/ age[s] > MaxAge + w)

\* Dropped sessions get their clocks reset, so that equal states compare equal.
Drop(S) ==
    /\ exists' = exists \ S
    /\ idle' = [s \in Ids |-> IF s \in S THEN 0 ELSE idle[s]]
    /\ age' = [s \in Ids |-> IF s \in S THEN 0 ELSE age[s]]
    /\ unused' = [s \in Ids |-> IF s \in S THEN 0 ELSE unused[s]]

\* The real time of an access is the latest one; the manager's is the last
\* one to get the lock.
Least(a, b) == IF a < b THEN a ELSE b

\* Mutant: an access leaves last_accessed as it was.
TouchNothing(s, w) ==
    /\ unused' = [unused EXCEPT ![s] = Least(@, w)]
    /\ UNCHANGED <<exists, idle, age>>

\* Mutant: last_accessed is set ahead of the clock.
TouchAhead(s, w) ==
    /\ idle' = [idle EXCEPT ![s] = w - 1]
    /\ unused' = [unused EXCEPT ![s] = Least(@, w)]
    /\ UNCHANGED <<exists, age>>

\* A session found: last_accessed is set to a time w ago.
Touch(s, w) ==
    /\ idle' = [idle EXCEPT ![s] = w]
    /\ unused' = [unused EXCEPT ![s] = Least(@, w)]
    /\ UNCHANGED <<exists, age>>

Insert(s, w) ==
    /\ exists' = exists \cup {s}
    /\ idle' = [idle EXCEPT ![s] = w]
    /\ age' = [age EXCEPT ![s] = w]
    /\ unused' = [unused EXCEPT ![s] = w]

Return(t) ==
    /\ pc' = [pc EXCEPT ![t] = "out"]
    /\ target' = [target EXCEPT ![t] = NoSession]
    /\ waited' = [waited EXCEPT ![t] = 0]

-----------------------------------------------------------------------------
\* Time passes; nobody waits longer than MaxWait for the lock.
Tick ==
    /\ \A t \in Threads : pc[t] # "out" => waited[t] < MaxWait
    /\ idle' = [s \in Ids |-> IF s \in exists THEN Least(idle[s] + 1, IdleCap) ELSE 0]
    /\ age' = [s \in Ids |-> IF s \in exists THEN Least(age[s] + 1, AgeCap) ELSE 0]
    /\ unused' = [s \in Ids |-> IF s \in exists THEN Least(unused[s] + 1, IdleCap) ELSE 0]
    /\ waited' = [t \in Threads |-> IF pc[t] # "out" THEN waited[t] + 1 ELSE 0]
    /\ UNCHANGED <<exists, pc, target>>

\* now_mono = time.monotonic(), before the lock.
ReadClock(t, call, s) ==
    /\ pc[t] = "out"
    /\ pc' = [pc EXCEPT ![t] = call]
    /\ target' = [target EXCEPT ![t] = s]
    /\ waited' = [waited EXCEPT ![t] = 0]
    /\ UNCHANGED sessionVars

CallCreate(t) == t \in Callers /\ ReadClock(t, "create", NoSession)
CallGet(t, s) == t \in Callers /\ ReadClock(t, "get", s)
WakeCleaner == ReadClock(Cleaner, "purge", NoSession)

\* create_session: the cap counts what is not the default and not expired.
\* Bound: with every id of the instance in use, nothing is created either.
CreateSession(t) ==
    LET active == {s \in exists \ {Default} : ~IsExpired(s, waited[t])} IN
    /\ pc[t] = "create"
    /\ Return(t)
    /\ \/ /\ Cardinality(active) < MaxSessions
          /\ \E s \in Users \ exists : Insert(s, waited[t])
       \/ /\ Cardinality(active) >= MaxSessions \/ Users \subseteq exists
          /\ UNCHANGED sessionVars

\* get_store and get_session: an expired session is dropped on access.
GetSession(t) ==
    LET s == target[t]
        w == waited[t]
    IN
    /\ pc[t] = "get"
    /\ Return(t)
    /\ CASE s \notin exists -> UNCHANGED sessionVars
         [] s \in exists /\ IsExpired(s, w) -> Drop({s})
         [] OTHER -> Touch(s, w)

\* get_or_create_default, get_or_create_named: the clock is read under the
\* lock, and a session that is there is taken however old it is.
GetOrCreate(s) ==
    /\ s \in Named \cup {Default}
    /\ IF s \in exists THEN Touch(s, 0) ELSE Insert(s, 0)
    /\ UNCHANGED callVars

CloseSession(s) ==
    /\ s \in exists
    /\ Drop({s})
    /\ UNCHANGED callVars

\* _purge_expired, by the cleanup thread.
PurgeExpired ==
    /\ pc[Cleaner] = "purge"
    /\ Return(Cleaner)
    /\ Drop({s \in exists : /\ ~Protected(s)
                            /\ ~(SingleModelMode /\ s = Default)
                            /\ IsExpired(s, waited[Cleaner])})

-----------------------------------------------------------------------------
Next ==
    \/ Tick \/ WakeCleaner \/ PurgeExpired
    \/ \E t \in Callers : \/ CallCreate(t) \/ CreateSession(t) \/ GetSession(t)
                          \/ \E s \in Ids : CallGet(t, s)
    \/ \E s \in Ids : GetOrCreate(s) \/ CloseSession(s)

Spec == Init /\ [][Next]_vars

\* Time passes, the cleanup thread wakes and runs, a lock is got in the end.
Fairness ==
    /\ SF_vars(Tick) /\ WF_vars(WakeCleaner) /\ WF_vars(PurgeExpired)
    /\ \A t \in Callers : WF_vars(CreateSession(t) \/ GetSession(t))

FairSpec == Spec /\ Fairness

-----------------------------------------------------------------------------
(* Properties                                                              *)

\* A step takes session s away, and it is not a close.
ByExpiry(s) == s \in exists /\ s \notin exists' /\ ~CloseSession(s)

\* A session is dropped for being unused only if it was: a slow caller may
\* set last_accessed back over a faster one, but by no more than it waited.
DroppedOnlyWhenUnused ==
    [][\A s \in Ids : ByExpiry(s) => unused[s] + MaxWait > TTL \/ age[s] > MaxAge]_vars

\* Admin-managed sessions never expire, on access or by the sweep.
ProtectedStay == [][\A s \in Named : ~ByExpiry(s)]_vars

\* "Absolute maximum session lifetime regardless of activity": a session that
\* is used again and again is still dropped, and so is one nobody asks for.
EverySessionEnds ==
    \A s \in Ids \ Named :
        ~(SingleModelMode /\ s = Default) => (s \in exists ~> s \notin exists)
=============================================================================
