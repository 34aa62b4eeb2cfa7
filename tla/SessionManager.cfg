CONSTANTS
    Users = {u1}
    Named = {n1}
    Default = Default
    Callers = {c1}
    Cleaner = Cleaner
    NoSession = NoSession
    TTL = 1
    MaxAge = 2
    MaxSessions = 2
    MaxWait = 1
    SingleModelMode = FALSE
SPECIFICATION FairSpec
INVARIANT TypeOK
PROPERTIES DroppedOnlyWhenUnused ProtectedStay EverySessionEnds
