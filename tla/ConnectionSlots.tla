-------------------------- MODULE ConnectionSlots ---------------------------
(***************************************************************************)
(* ob_flight/db_router.py, ConnectionSlots: at most Limit connections of   *)
(* one data source in use at once.  Each critical section under its lock   *)
(* is one operator; ConnectionPool.tla runs them, and waits between them.  *)
(* A waiter is named by its thread, and its event by a flag.               *)
(***************************************************************************)
EXTENDS Integers, Sequences, FiniteSets, SequencesExt

CONSTANTS
    Threads,
    Limit    \* MAX_CONNECTIONS, 0 for none

ASSUME SlotsAssumption == IsFiniteSet(Threads) /\ Limit \in Nat

VARIABLES
    inUse,    \* in_use
    waiters,  \* _waiters
    turn      \* is_set of each waiter's event

slotVars == <<inUse, waiters, turn>>

SlotsTypeOK ==
    /\ inUse \in Nat
    /\ waiters \in Seq(Threads)
    /\ turn \in [Threads -> BOOLEAN]

SlotsInit ==
    /\ inUse = 0
    /\ waiters = <<>>
    /\ turn = [t \in Threads |-> FALSE]

SlotFree == Limit = 0 \/ (inUse < Limit /\ waiters = <<>>)

\* acquire, first critical section, a slot being free.
TakeSlot == inUse' = inUse + 1 /\ UNCHANGED <<waiters, turn>>

\* acquire, first critical section, none being free.
LineUp(t) ==
    /\ waiters' = Append(waiters, t)
    /\ turn' = [turn EXCEPT ![t] = FALSE]
    /\ UNCHANGED inUse

\* acquire, second critical section, the turn not having come.
LeaveLine(t) ==
    /\ \E k \in 1..Len(waiters) : waiters[k] = t /\ waiters' = RemoveAt(waiters, k)
    /\ UNCHANGED <<inUse, turn>>

\* Mutant: the slot is freed, and the waiters are left to notice.
ReleaseWakesNobody == inUse' = inUse - 1 /\ UNCHANGED <<waiters, turn>>

\* Mutant: a stack instead of a queue.
ReleaseWakesLast ==
    IF waiters # <<>>
    THEN /\ turn' = [turn EXCEPT ![Last(waiters)] = TRUE]
         /\ waiters' = Front(waiters)
         /\ UNCHANGED inUse
    ELSE inUse' = inUse - 1 /\ UNCHANGED <<waiters, turn>>

\* release: the slot passes to the first waiter as it is, or is freed.
ReleaseSlot ==
    IF waiters # <<>>
    THEN /\ turn' = [turn EXCEPT ![Head(waiters)] = TRUE]
         /\ waiters' = Tail(waiters)
         /\ UNCHANGED inUse
    ELSE inUse' = inUse - 1 /\ UNCHANGED <<waiters, turn>>
=============================================================================
