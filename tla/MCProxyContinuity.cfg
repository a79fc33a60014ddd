CONSTANTS
    a1 = a1
    a2 = a2
    k1 = k1
    r1 = r1
    r2 = r2
    UnknownAccount = UnknownAccount
    NoAccount = NoAccount
    Seed = Seed
    NoId = NoId
    Accounts <- TwoAccounts
    Keys <- OneKey
    Requests <- TwoRequests
    LockPool <- NoPool
    Inputs <- Continuations
    InitialRows <- FreshRows
    kStreamRetryBudget = 0
SPECIFICATION Spec
SYMMETRY Symmetric
CHECK_DEADLOCK FALSE
INVARIANTS
    ContinuityIsKept
