CONSTANTS
    Queries = {q1, q2}
    orders = orders
    customers = customers
    warehouse = warehouse
    crm = crm
    Legs = {orders, customers}
    Fact = orders
    Sources = {warehouse, crm}
    Source <- MCSource
    Others = {u}
    Uses <- MCUses
    MaxConcurrent = 2
    LegThreads = 2
    MaxConnections <- MCMaxConnections
    Threshold = 1
    MaxLeg = 1
    SpillMax = 3
    SpillBudget = 4
    Combine = Combine
SPECIFICATION FairSpec
INVARIANTS TypeOK SpillExact SlotCoversWork ConnectionsExact
PROPERTY SlotsComeBack
