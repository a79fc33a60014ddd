CONSTANTS
    UReqs = {r1, r2}
    UKeys = {k1, k2}
    USessions = {s1, s2, s3}
    UAccounts = {a1, a2}
    NoSession = NoSession
    NoReq = NoReq
    kPersistentBridgeMaxSessions = 1
    MaxLogins = 2
    Pollers = {p1, p2}
    NoPoller = NoPoller
    DNone = DNone
    DSessions = {d1, d2}
    Secrets = {x1, x2}
    MaxTime = 1
    SessionTtl = 1
    MaxNumber = 2
    CNone = CNone
    CallIds = {c1, c2}
    MaxPieces = 2
    MaxMessages = 2
SPECIFICATION Spec
CHECK_DEADLOCK FALSE
INVARIANTS
    SessionsSafety
    LoginSafety
    DashboardSafety
    
PROPERTIES
    
    LoginsEnd
