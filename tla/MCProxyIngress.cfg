CONSTANTS
    KeyIds = {k1}
    Models = {m1, m2}
    NoModel = NoModel
    NoKey = NoKey
    MaxSecrets = 1
    Requests = {r1, r2}
    TranscriptionModel = m2
    Sockets = {s1}
    NoSocket = NoSocket
    Nobody = Nobody
    ExecutorSize = 2
    kMaxInFlightTasks = 2
    Addresses = {a1, a2, t1, t2}
    NoAddress = NoAddress
    Trusted = {t1, t2}
    MaxHops = 3
    MaxLayers = 2
    LAccounts = {l1}
    NoOne = NoOne
    LThreads = {w1, w2}
    LTasks = {j1, j2}
    Threshold = 2
    MinInterval = 2
    MaxNow = 3
    MaxAnswers = 2
    TAccounts = {l1}
    TWorkers = {w1, w2}
    Nothing = Nothing
    Throttle = 2
    MaxBytes = 3
    MaxTick = 4
SPECIFICATION Spec
CHECK_DEADLOCK FALSE
INVARIANTS
    IngressSafety
    FiltersAreSound
    MeteringSafety
PROPERTIES
    WritesOnceToLiveClient
    RequestsComplete
