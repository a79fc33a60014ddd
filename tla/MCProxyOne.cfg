CONSTANTS
    a1 = a1
    a2 = a2
    k1 = k1
    r1 = r1
    r2 = r2
    UnknownAccount = UnknownAccount
    NoAccount = NoAccount
    Seed = Seed
    NoId = NoId
    Accounts <- TwoAccounts
    Keys <- OneKey
    Requests <- OneRequest
    LockPool <- PoolOfOneRow
    Inputs <- AllInputs
    InitialRows <- PinnedOrTimedRows
    kStreamRetryBudget = 2
SPECIFICATION Spec
CHECK_DEADLOCK FALSE
INVARIANTS
    RoutingSafety
PROPERTIES
    RequestsAreAnswered
