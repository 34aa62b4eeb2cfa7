CONSTANTS
    Threads = {t1, t2, t3, t4}
    Limit = 2
    PoolSize = 1
SPECIFICATION FairSpec
INVARIANTS SlotsExact OpenBounded
PROPERTIES ServesInOrder EveryThreadServed
