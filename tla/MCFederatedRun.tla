--------------------------- MODULE MCFederatedRun ---------------------------
EXTENDS FederatedRun

CONSTANTS warehouse, crm, orders, customers

\* Two legs on two sources.
MCSource == [l \in Legs |-> IF l = orders THEN warehouse ELSE crm]

\* One connection of each source.
MCMaxConnections == [s \in Sources |-> 1]

\* The other user reads the customers.
MCUses == [u \in Others |-> crm]
=============================================================================
