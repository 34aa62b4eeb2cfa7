CONSTANTS
    N = 6
    Schemas <- MCSchemas
    QueryObjects <- MCQueryObjects
SPECIFICATION PlanSpec
INVARIANT LegsWithoutFanout
