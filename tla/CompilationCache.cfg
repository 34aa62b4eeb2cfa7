CONSTANTS
    Threads = {t1, t2}
    Models = {m1, m2}
    Ids = {i1, i2}
    federated = federated
    plain = plain
    odd = odd
    Queries <- MCQueries
    Keyless <- MCKeyless
    Sources = {s1, s2}
    Reads <- MCReads
    Length <- MCLength
    MaxEntries = 2
    MaxBytes = 4
    MaxEntryBytes = 3
    NoModel = NoModel
    NoId = NoId
    NoSource = NoSource
SYMMETRY Symmetric
SPECIFICATION Spec
INVARIANTS TypeOK HitIsCurrent RetiredLeave BudgetExact
