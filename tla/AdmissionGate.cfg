CONSTANTS
    Queries = {q1, q2, q3, q4}
    MaxConcurrent = 2
SPECIFICATION FairSpec
INVARIANTS TypeOK SlotsExact WorkHoldsSlot NoIdleSlot
PROPERTIES ServesInOrder EveryQueryServed
