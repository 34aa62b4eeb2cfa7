--------------------------- MODULE ConnectionPool ---------------------------
(***************************************************************************)
(* ob_flight/db_router.py: one data source's ConnectionPool and the two    *)
(* context managers that use it, get_connection and connection_slot.       *)
(*                                                                         *)
(* A thread takes a slot, then a connection: an idle one of the pool, a    *)
(* new one, or one of its own outside the pool.  Between these steps other *)
(* threads take theirs.  Connections are alike, so the pool's queue is the *)
(* number of idle ones.                                                    *)
(***************************************************************************)
EXTENDS ConnectionSlots

CONSTANT PoolSize  \* POOL_SIZE, before it is cut to Limit

ASSUME PoolAssumption == PoolSize \in Nat \ {0}

VARIABLES
    idle,  \* connections in _pool
    pc     \* how far each thread is

vars == <<slotVars, idle, pc>>

\* The slot is held from "slot" to "leaving".
HoldingSteps == {"slot", "connecting", "using", "outside", "leaving"}

TypeOK ==
    /\ SlotsTypeOK
    /\ idle \in Nat
    /\ pc \in [Threads -> {"out", "waiting", "late"} \cup HoldingSteps]

Init ==
    /\ SlotsInit
    /\ idle = 0
    /\ pc = [t \in Threads |-> "out"]

GoTo(t, step) == pc' = [pc EXCEPT ![t] = step]

QueueSize == IF Limit > 0 /\ Limit < PoolSize THEN Limit ELSE PoolSize

-----------------------------------------------------------------------------
(* ConnectionSlots.acquire and release, as a thread runs them              *)

Acquire(t) ==
    /\ pc[t] = "out"
    /\ IF SlotFree
       THEN TakeSlot /\ GoTo(t, "slot")
       ELSE LineUp(t) /\ GoTo(t, "waiting")
    /\ UNCHANGED idle

\* wait=False: the probe of a time zone takes a free slot or is refused.
AcquireAtOnce(t) ==
    /\ pc[t] = "out"
    /\ SlotFree
    /\ TakeSlot
    /\ GoTo(t, "slot")
    /\ UNCHANGED idle

Served(t) ==
    /\ pc[t] = "waiting"
    /\ turn[t]
    /\ GoTo(t, "slot")
    /\ UNCHANGED <<slotVars, idle>>

\* Event.wait returns without the event: the lock is not taken yet.
TimeOut(t) ==
    /\ pc[t] = "waiting"
    /\ ~turn[t]
    /\ GoTo(t, "late")
    /\ UNCHANGED <<slotVars, idle>>

\* Mutant: the timeout is final, without a second look at the event.
GiveUpUnchecked(t) ==
    /\ pc[t] = "late"
    /\ GoTo(t, "out")
    /\ waiters' = SelectSeq(waiters, LAMBDA w : w # t)
    /\ UNCHANGED <<inUse, turn, idle>>

\* Under the lock again: the slot may have been handed over meanwhile.
GiveUp(t) ==
    /\ pc[t] = "late"
    /\ IF turn[t]
       THEN GoTo(t, "slot") /\ UNCHANGED slotVars
       ELSE GoTo(t, "out") /\ LeaveLine(t)
    /\ UNCHANGED idle

Leave(t) ==
    /\ pc[t] = "leaving"
    /\ ReleaseSlot
    /\ GoTo(t, "out")
    /\ UNCHANGED idle

-----------------------------------------------------------------------------
(* The connection                                                          *)

\* Mutant: off by one, the last idle connection is left alone.
TakeIdleButOne(t) ==
    /\ pc[t] = "slot"
    /\ IF idle > 1
       THEN idle' = idle - 1 /\ GoTo(t, "using")
       ELSE GoTo(t, "connecting") /\ UNCHANGED idle
    /\ UNCHANGED slotVars

\* ConnectionPool.acquire: get_nowait, or else a new connection.
TakeIdle(t) ==
    /\ pc[t] = "slot"
    /\ IF idle > 0
       THEN idle' = idle - 1 /\ GoTo(t, "using")
       ELSE GoTo(t, "connecting") /\ UNCHANGED idle
    /\ UNCHANGED slotVars

\* connection_slot: the connection is opened and closed by the block.
GoOutside(t) ==
    /\ pc[t] = "slot"
    /\ GoTo(t, "outside")
    /\ UNCHANGED <<slotVars, idle>>

Connect(t) ==
    /\ pc[t] = "connecting"
    /\ GoTo(t, "using") \/ GoTo(t, "leaving")
    /\ UNCHANGED <<slotVars, idle>>

\* A clean exit puts the connection back, or closes it if the pool is full.
ReturnConnection(t) ==
    /\ pc[t] = "using"
    /\ GoTo(t, "leaving")
    /\ idle' = IF idle < QueueSize THEN idle + 1 ELSE idle
    /\ UNCHANGED slotVars

\* An exception closes it; so does the end of a connection_slot block.
DiscardConnection(t) ==
    /\ pc[t] \in {"using", "outside"}
    /\ GoTo(t, "leaving")
    /\ UNCHANGED <<slotVars, idle>>

-----------------------------------------------------------------------------
Next ==
    \E t \in Threads :
        \/ Acquire(t) \/ AcquireAtOnce(t) \/ Served(t) \/ TimeOut(t) \/ GiveUp(t)
        \/ TakeIdle(t) \/ GoOutside(t) \/ Connect(t)
        \/ ReturnConnection(t) \/ DiscardConnection(t) \/ Leave(t)

Spec == Init /\ [][Next]_vars

\* A thread that is not blocked goes on, and a driver call returns or fails.
Fairness ==
    \A t \in Threads :
        /\ WF_vars(Served(t)) /\ WF_vars(GiveUp(t))
        /\ WF_vars(TakeIdle(t) \/ GoOutside(t)) /\ WF_vars(Connect(t))
        /\ WF_vars(ReturnConnection(t) \/ DiscardConnection(t)) /\ WF_vars(Leave(t))

FairSpec == Spec /\ Fairness

-----------------------------------------------------------------------------
(* Properties                                                              *)

\* Threads that have a slot, the one just handed it included.
Holders ==
    {t \in Threads : pc[t] \in HoldingSteps \/ (pc[t] \in {"waiting", "late"} /\ turn[t])}

\* in_use counts the slots taken exactly, whatever timeout crosses whatever
\* hand-over, and stays within the limit.
SlotsExact ==
    /\ inUse = Cardinality(Holders)
    /\ Limit > 0 => inUse <= Limit

\* A thread is in line exactly while it waits for its turn, and only while
\* every slot is taken.
LineSound ==
    /\ \A j, k \in 1..Len(waiters) : waiters[j] = waiters[k] => j = k
    /\ ToSet(waiters) = {t \in Threads : pc[t] \in {"waiting", "late"} /\ ~turn[t]}
    /\ waiters # <<>> => Limit > 0 /\ inUse = Limit

\* The pool's connections open at once, idle ones included: an idle one holds
\* no slot, and still they never outnumber the limit, because a connection is
\* opened only by a thread that found none idle.
PooledOpen == idle + Cardinality({t \in Threads : pc[t] \in {"connecting", "using"}})
OpenBounded == Limit > 0 => PooledOpen <= Limit

\* Those before t in line.
Before(t) ==
    {u \in Threads : \E k \in 1..Len(waiters) : \E j \in 1..(k - 1) :
                        waiters[j] = u /\ waiters[k] = t}

\* The slots implement FifoSlots, whatever their holders do with them.
Slots ==
    INSTANCE FifoSlots WITH
        Clients <- Threads, holders <- Holders, waiting <- ToSet(waiters),
        before <- [t \in Threads |-> Before(t)]
ServesInOrder == Slots!FairSpec

\* A thread in line is served in the end, even without its timeout.
InLine(t) == pc[t] \in {"waiting", "late"}
EveryThreadServed == \A t \in Threads : InLine(t) ~> ~InLine(t)
=============================================================================
