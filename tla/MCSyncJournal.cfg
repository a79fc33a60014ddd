SPECIFICATION Spec
CONSTANTS
    w1 = w1  w2 = w2  w3 = w3  p0 = p0  p1 = p1  p2 = p2  A = A  B = B
    Workers = {w1, w2}
    Peers = {p0, p1, p2}
    UnknownPeer = p0
    Handshakes <- JournalHandshakes
    NoHandshake = NoHandshake
    Batches <- JournalBatches
    NoBatch = NoBatch
    Checksums = {A, B}
    NoRow = NoRow
    LocalChecksum = B
    MaxSeq = 2
    MaxReceived = 2
    max_wire_batch_bytes = 2
    max_wire_batch_entries = 2
    max_inflight_wire_batches = 2
    max_inflight_wire_bytes = 4
    max_inflight_wire_bytes_per_peer = 4
    max_inflight_wire_batches_per_peer = 1
    peer_rate_limit_burst_entries = 2
SYMMETRY SymmetricPairs
INVARIANTS
    AcceptedBatchIsJournaled
PROPERTIES
    JournalGrowsByWholeBatches
