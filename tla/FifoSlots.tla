----------------------------- MODULE FifoSlots ------------------------------
(***************************************************************************)
(* What both limiters of the system promise: at most Limit holders at      *)
(* once, and the rest served in order of arrival.  It is the abstract      *)
(* specification of                                                        *)
(*   AdmissionGate.tla   (federated queries, across the process), and      *)
(*   ConnectionPool.tla  (connections of one data source),                 *)
(* which implement it with counters, tickets, events and timeouts that are *)
(* not atomic.  Nothing here is read from the code: the refinements are    *)
(* what connects it to the code.                                           *)
(*                                                                         *)
(* The order of arrival is kept as who is before whom.  A queue with       *)
(* clients in it that have given up, as the gate's deque is, has the same  *)
(* order as one without.                                                   *)
(***************************************************************************)
EXTENDS Naturals, FiniteSets

CONSTANTS
    Clients,
    Limit     \* 0 means no limit

VARIABLES
    holders,  \* the clients that have a slot
    waiting,  \* the clients that wait for one
    before    \* those that wait and came before each client that waits

vars == <<holders, waiting, before>>

TypeOK ==
    /\ holders \in SUBSET Clients
    /\ waiting \in SUBSET Clients
    /\ before \in [Clients -> SUBSET Clients]

Init ==
    /\ holders = {}
    /\ waiting = {}
    /\ before = [c \in Clients |-> {}]

Free == Limit = 0 \/ (Cardinality(holders) < Limit /\ waiting = {})

\* A client that finds no slot free, or somebody waiting before it, waits.
Enter(c) ==
    /\ c \notin holders \cup waiting
    /\ IF Free
       THEN holders' = holders \cup {c} /\ UNCHANGED <<waiting, before>>
       ELSE /\ waiting' = waiting \cup {c}
            /\ before' = [before EXCEPT ![c] = waiting]
            /\ UNCHANGED holders

WaitsNoMore(c) ==
    /\ waiting' = waiting \ {c}
    /\ before' = [d \in Clients |-> IF d = c THEN {} ELSE before[d] \ {c}]

\* The slot of a client that leaves goes straight to the first that waits.
Leave(c) ==
    /\ c \in holders
    /\ \/ /\ waiting = {}
          /\ holders' = holders \ {c}
          /\ UNCHANGED <<waiting, before>>
       \/ \E first \in waiting :
             /\ before[first] = {}
             /\ holders' = (holders \ {c}) \cup {first}
             /\ WaitsNoMore(first)

GiveUp(c) ==
    /\ c \in waiting
    /\ WaitsNoMore(c)
    /\ UNCHANGED holders

Next == \E c \in Clients : Enter(c) \/ Leave(c) \/ GiveUp(c)

Spec == Init /\ [][Next]_vars

\* Whoever has a slot gives it back in the end; nobody has to give up.
FairSpec == Spec /\ \A c \in Clients : WF_vars(Leave(c))
=============================================================================
