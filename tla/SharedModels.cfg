CONSTANTS
    Threads = {t1, t2, t3}
    Stores = {s1, s2}
    Hashes = {h1, h2}
    Ids <- DistinctIds
    ContentId <- DistinctContentId
    PrivateIds = {p1}
    MaxModels = 2
    NoHash = NoHash
    NoId = NoId
    NoThread = NoThread
SYMMETRY Symmetric
VIEW LiveState
SPECIFICATION Spec
INVARIANTS RefcountExact LabelsAgree IndexSound CapacityRespected
CHECK_DEADLOCK FALSE
