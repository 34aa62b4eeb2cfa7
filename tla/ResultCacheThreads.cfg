CONSTANTS
    Queries = {q1, q2}
    OnLoop = {q1}
    Maintainer = maintainer
    orders = orders
    joined = joined
    OrdersTable = OrdersTable
    CustomersTable = CustomersTable
    Keys <- QueryKeys
    Tables <- QueryTables
    Reads <- QueryReads
    MaxVersion = 1
    NoKey = NoKey
    NoFile = NoFile
SPECIFICATION Spec
INVARIANTS HitIsOwnResult
