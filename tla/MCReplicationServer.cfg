CONSTANTS
    w1 = w1
    w2 = w2
    c1 = c1
    c2 = c2
    c3 = c3
    NoConnection = NoConnection
    Workers <- TwoWorkers
    WorkersWithoutDb <- OneWorkerWithoutDb
    Connections <- ThreeConnections
    kMaxPendingAcceptedConnections = 2
SPECIFICATION Spec
INVARIANTS
    ListenerSafety
    QueuedBeforeStopIsHandled

    
