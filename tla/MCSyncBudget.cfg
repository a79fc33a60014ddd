SPECIFICATION Spec
CONSTANTS
    w1 = w1  w2 = w2  w3 = w3  p0 = p0  p1 = p1  p2 = p2  A = A  B = B
    Workers = {w1, w2, w3}
    Peers = {p0, p1}
    UnknownPeer = p0
    Handshakes <- BudgetHandshakes
    NoHandshake = NoHandshake
    Batches <- BudgetBatches
    NoBatch = NoBatch
    Checksums = {A, B}
    NoRow = NoRow
    LocalChecksum = A
    MaxSeq = 0
    MaxReceived = 2
    max_wire_batch_bytes = 2
    max_wire_batch_entries = 1
    max_inflight_wire_batches = 2
    max_inflight_wire_bytes = 3
    max_inflight_wire_bytes_per_peer = 2
    max_inflight_wire_batches_per_peer = 2
    peer_rate_limit_burst_entries = 1
SYMMETRY Symmetric
INVARIANTS
    WithinLimits
    LedgersBalance
