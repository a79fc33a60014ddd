CONSTANTS
    a1 = a1
    a2 = a2
    t1 = t1
    u1 = u1
    NoAccount = NoAccount
    Accounts <- TwoAccounts
    TokenRefreshers <- None
    UsageRefreshers <- None
SPECIFICATION RoutingSpec
INVARIANTS
    ActiveHasPrimaryRoom
    OnlyOnePin
