CONSTANTS
    N = 6
    Schemas <- MCSchemas
    QueryObjects <- MCQueryObjects
SPECIFICATION PlanSpec
INVARIANTS PlanTypeOK SumsWhole ReadsAreJoined CommonRootSuffices
