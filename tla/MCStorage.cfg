CONSTANTS
    a1 = a1
    a2 = a2
    Addresses = {a1, a2}
    Identity <- MCIdentity
    NoAddress = NoAddress
    Announced = {a2}
    PeerLists <- MCPeerLists
    MaxSite = 3
    MaxProbes = 1
    FailClosedAfter = 2
    EvictAfter = 2
    ProbeOnAdd = FALSE
    Entries = {x, y}
    MaxIndex = 3
    MaxPack = 2
    Sites = {1, 2}
    w1 = w1
    w2 = w2
    w3 = w3
    Workers = {w1, w2, w3}
    SiteOf <- MCSiteOf
    Elements = {v1}
    NoReg = NoReg
    NoWork = NoWork
    MaxUpdates = 2
    MaxClock = 1
    Batches = {b1, b2}
    MaxAppends = 3
    MaxWall = 2
    WallModulus = 16
    min_entries = 2
    check_interval_entries = 2
    retention_ms = 1
    min_applied_value = 2
    ReadLimit = 2
    kHeaderSize = 2
    PayloadSizes = {0, 1, 3, 5, 6}
    MaxFrames = 3
    MaxChunk = 6
    MaxBufferedBytes = 12
    MaxQueuedFrames = 2
    MaxQueuedPayload = 4
    MaxFramePayload = 5
    SizeModulus = 64
    INone = INone
    e1 = e1
    e2 = e2
    g1 = g1
    SourceRows <- MCRows
    Destinations <- MCDestinations
    MaxSourceRows = 2
    Passes = {p1, p2}
    NoPass = NoPass
    DbAccounts = {t1}
    kMaxUnlockAttempts = 5
    SOps = {o1, o2}
    NullRow = NullRow
    MaxVersion = 2
    MaxEdits = 1
    MaxCalls = 2
    HAccounts = {a1, a2}
    HNone = HNone
    HPool = {a1, a2}
    MaxEvents = 3
SPECIFICATION Spec
CHECK_DEADLOCK FALSE
INVARIANTS
    
    
    
    
    RpcSafety
    
    
    DraftSafety
    
PROPERTIES
    StoresTheLog
    AppendKeepsRecentEntries
