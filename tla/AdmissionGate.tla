--------------------------- MODULE AdmissionGate ----------------------------
(***************************************************************************)
(* service/federated_executor.py, AdmissionGate, and the caller that makes *)
(* it hard: run_legs of execute_federated_with_cache (api/query_cache.py). *)
(*                                                                         *)
(* A client is a federated query.  It waits for its ticket through         *)
(* asyncio.wrap_future, under a timeout: giving up first cancels the       *)
(* ticket, in the event loop and without the gate's lock, and only then    *)
(* calls withdraw.  Releases come from other event loops meanwhile: the    *)
(* API's, and one per Flight or CLI thread that calls                      *)
(* execute_federated.  Once admitted, the work is a task of its own, which *)
(* outlives a caller that stops waiting for it.                            *)
(***************************************************************************)
EXTENDS Naturals, Sequences, FiniteSets, SequencesExt

CONSTANTS
    Queries,
    MaxConcurrent  \* FEDERATION_MAX_CONCURRENT

ASSUME GateAssumption == IsFiniteSet(Queries) /\ MaxConcurrent \in Nat

VARIABLES
    active,   \* _active
    waiting,  \* _waiting, a deque of tickets: each named by its query
    ticket,   \* the state of each query's future
    pc        \* how far each query's run_legs is

gateVars == <<active, waiting, ticket>>
vars == <<gateVars, pc>>

Limit == IF MaxConcurrent > 1 THEN MaxConcurrent ELSE 1

TypeOK ==
    /\ active \in Nat
    /\ waiting \in Seq(Queries)
    /\ ticket \in [Queries -> {"none", "pending", "granted", "cancelled"}]
    /\ pc \in [Queries -> {"idle", "waiting", "leaving", "running", "orphaned", "ended"}]

Init ==
    /\ active = 0
    /\ waiting = <<>>
    /\ ticket = [q \in Queries |-> "none"]
    /\ pc = [q \in Queries |-> "idle"]

GoTo(q, step) == pc' = [pc EXCEPT ![q] = step]

-----------------------------------------------------------------------------
(* The gate's methods, each under its lock.  A cancel that does not take   *)
(* the lock may fall between the steps of release's loop, but each ticket  *)
(* is settled by one atomic set_running_or_notify_cancel, and a ticket     *)
(* already passed over was cancelled before: the loop is one action.       *)

\* request, run by the query's own task.
Request(q) ==
    /\ pc[q] = "idle"
    /\ GoTo(q, "waiting")
    /\ IF active < Limit /\ waiting = <<>>
       THEN /\ active' = active + 1
            /\ ticket' = [ticket EXCEPT ![q] = "granted"]
            /\ UNCHANGED waiting
       ELSE /\ waiting' = Append(waiting, q)
            /\ ticket' = [ticket EXCEPT ![q] = "pending"]
            /\ UNCHANGED active

\* Mutant: the slot is handed to the head, whether it still waits or not.
PassOnBlindly(settled) ==
    IF waiting = <<>>
    THEN active' = active - 1 /\ ticket' = settled /\ UNCHANGED waiting
    ELSE /\ ticket' = [settled EXCEPT ![Head(waiting)] =
                          IF @ = "pending" THEN "granted" ELSE @]
         /\ waiting' = Tail(waiting)
         /\ UNCHANGED active

\* Mutant: the head is tried once, without the loop.
PassOnHeadOnly(settled) ==
    IF waiting # <<>> /\ settled[Head(waiting)] = "pending"
    THEN /\ ticket' = [settled EXCEPT ![Head(waiting)] = "granted"]
         /\ waiting' = Tail(waiting)
         /\ UNCHANGED active
    ELSE /\ ticket' = settled
         /\ waiting' = IF waiting = <<>> THEN <<>> ELSE Tail(waiting)
         /\ active' = active - 1

\* Mutant: the newest waiter is served first.
PassOnNewest(settled) ==
    LET n == Len(waiting) IN
    IF n > 0 /\ settled[waiting[n]] = "pending"
    THEN /\ ticket' = [settled EXCEPT ![waiting[n]] = "granted"]
         /\ waiting' = RemoveAt(waiting, n)
         /\ UNCHANGED active
    ELSE /\ active' = active - 1 /\ ticket' = settled
         /\ waiting' = SelectSeq(waiting, LAMBDA q : settled[q] = "pending")

\* release: the slot goes to the first ticket not cancelled, the cancelled
\* ones before it dropped; with none left it is free.  "settled" is the
\* tickets as the caller leaves them.
PassOn(settled) ==
    \/ /\ \A k \in 1..Len(waiting) : settled[waiting[k]] # "pending"
       /\ active' = active - 1
       /\ waiting' = <<>>
       /\ ticket' = settled
    \/ \E k \in 1..Len(waiting) :
          /\ settled[waiting[k]] = "pending"
          /\ \A j \in 1..(k - 1) : settled[waiting[j]] # "pending"
          /\ ticket' = [settled EXCEPT ![waiting[k]] = "granted"]
          /\ waiting' = SubSeq(waiting, k + 1, Len(waiting))
          /\ UNCHANGED active

\* The caller has done with its ticket.
Spent(q) == [ticket EXCEPT ![q] = "none"]

\* Mutant: a slot granted as its caller gave up is forgotten.
WithdrawForgetsGrant(q) ==
    /\ pc[q] = "leaving"
    /\ GoTo(q, "idle")
    /\ ticket' = Spent(q)
    /\ waiting' = SelectSeq(waiting, LAMBDA r : r # q)
    /\ UNCHANGED active

\* withdraw: a ticket not granted is cancelled and leaves the deque, if a
\* release has not dropped it already; a granted one's slot is released.
Withdraw(q) ==
    /\ pc[q] = "leaving"
    /\ GoTo(q, "idle")
    /\ IF ticket[q] # "granted"
       THEN /\ ticket' = Spent(q)
            /\ waiting' = IF \E k \in 1..Len(waiting) : waiting[k] = q
                          THEN RemoveAt(waiting, CHOOSE k \in 1..Len(waiting) : waiting[k] = q)
                          ELSE waiting
            /\ UNCHANGED active
       ELSE PassOn(Spent(q))

-----------------------------------------------------------------------------
(* The caller                                                              *)

\* wait_for returns: the work starts as a task of its own.
Admitted(q) ==
    /\ pc[q] = "waiting"
    /\ ticket[q] = "granted"
    /\ GoTo(q, "running")
    /\ UNCHANGED gateVars

\* The wait times out, or the request is cancelled, and wrap_future cancels
\* the ticket if it is still pending.  It may have been granted already.
StopWaiting(q) ==
    /\ pc[q] = "waiting"
    /\ GoTo(q, "leaving")
    /\ ticket' = IF ticket[q] = "pending" THEN [ticket EXCEPT ![q] = "cancelled"] ELSE ticket
    /\ UNCHANGED <<active, waiting>>

\* Mutant: without the shield, a cancelled caller releases its slot at once
\* while its legs go on in their threads, and again when they end.
CancelReleases(q) ==
    /\ pc[q] = "running"
    /\ GoTo(q, "orphaned")
    /\ PassOn(Spent(q))

\* The caller is cancelled; asyncio.shield keeps the work going.
CancelCaller(q) ==
    /\ pc[q] = "running"
    /\ GoTo(q, "orphaned")
    /\ UNCHANGED gateVars

\* Every leg and the combine have ended, well or not.
EndWork(q) ==
    /\ pc[q] \in {"running", "orphaned"}
    /\ GoTo(q, "ended")
    /\ UNCHANGED gateVars

\* _admitted_done, the task's done callback.
AdmittedDone(q) ==
    /\ pc[q] = "ended"
    /\ GoTo(q, "idle")
    /\ PassOn(Spent(q))

-----------------------------------------------------------------------------
Next ==
    \E q \in Queries :
        \/ Request(q) \/ Admitted(q) \/ StopWaiting(q) \/ Withdraw(q)
        \/ CancelCaller(q) \/ EndWork(q) \/ AdmittedDone(q)

Spec == Init /\ [][Next]_vars

\* The event loop runs every callback that is ready, and a leg or a combine
\* ends (its driver returns or fails).  Nobody has to time out.
Fairness ==
    \A q \in Queries :
        /\ WF_vars(Admitted(q)) /\ WF_vars(Withdraw(q))
        /\ WF_vars(EndWork(q)) /\ WF_vars(AdmittedDone(q))

FairSpec == Spec /\ Fairness

-----------------------------------------------------------------------------
(* Properties                                                              *)

Granted == {q \in Queries : ticket[q] = "granted"}
Working == {q \in Queries : pc[q] \in {"running", "orphaned", "ended"}}

\* _active counts the granted tickets exactly, whoever gave up and whenever:
\* a slot that nobody has is lost until restart, one that two queries have
\* breaks the bound.
SlotsExact == active = Cardinality(Granted) /\ active <= Limit

\* Work runs only under a granted ticket, the work of a caller that is gone
\* included: so no more than Limit federated queries use the leg threads.
WorkHoldsSlot == Working \subseteq Granted

\* A query that waits is in the deque, once, and tickets are in it only while
\* every slot is taken: no slot is idle while somebody waits for one.
NoIdleSlot ==
    /\ \A k \in 1..Len(waiting) : ticket[waiting[k]] \in {"pending", "cancelled"}
    /\ \A j, k \in 1..Len(waiting) : waiting[j] = waiting[k] => j = k
    /\ \A q \in Queries : ticket[q] = "pending" => q \in ToSet(waiting)
    /\ waiting # <<>> => active = Limit

\* Queries that still wait, and those of them before q in the deque.
Pending == {q \in Queries : ticket[q] = "pending"}
Before(q) ==
    {r \in Pending : \E k \in 1..Len(waiting) : \E j \in 1..(k - 1) :
                        waiting[j] = r /\ waiting[k] = q}

\* The gate implements FifoSlots: cancelled tickets, still in the deque or
\* not, have left the line.  With fairness: a query admitted always finishes,
\* and one that does not give up is admitted in its turn.
Slots ==
    INSTANCE FifoSlots WITH
        Clients <- Queries, holders <- Granted, waiting <- Pending,
        before <- [q \in Queries |-> IF q \in Pending THEN Before(q) ELSE {}]
ServesInOrder == Slots!FairSpec

\* No query waits for ever, even one whose timeout never comes.
EveryQueryServed == \A q \in Queries : pc[q] = "waiting" ~> pc[q] # "waiting"
=============================================================================
