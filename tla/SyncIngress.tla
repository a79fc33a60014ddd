---------------------------- MODULE SyncIngress ----------------------------
(***************************************************************************)
(* The receiving side of journal replication.  A connection worker of      *)
(* ReplicationSocketServer (sync/src/transport/replication_socket_server   *)
(* .cpp) owns a connection; its ReplicationIngressSession                  *)
(* (replication_ingress.cpp) takes a handshake and then wire batches, each *)
(* of which SyncEngine::apply_wire_batch (sync/src/sync_engine.cpp) admits *)
(* against process-wide budgets and applies to the journal.                *)
(*                                                                         *)
(* Workers share the in-flight counter (an atomic), the wire budget, the   *)
(* rate-limit buckets and the telemetry (a mutex each) and the journal     *)
(* table (SQLite, one connection per thread, BEGIN IMMEDIATE).  A step     *)
(* below is what one worker does between two of those points.              *)
(*                                                                         *)
(* The session is configured as Bridge does (bridge.cpp 983-1010): a       *)
(* handshake is required first and an unknown channel is an error.  A      *)
(* batch is a record [bytes, decodes, entries]; an entry is a record       *)
(* [seq, checksum, valid], valid being "the table is replicated and the    *)
(* checksum is that of the content".                                       *)
(***************************************************************************)
EXTENDS Integers, Sequences, FiniteSets, FiniteSetsExt

CONSTANTS
    Workers,            \* the connection worker threads
    Peers,              \* the site ids a handshake may carry
    UnknownPeer,        \* site id 0, which the telemetry ignores
    Handshakes,         \* records [site_id, auth, schema, last_recv_seq]
    NoHandshake,        \* the default request of a new session
    Batches,            \* the wire batches peers send
    NoBatch,
    Checksums, NoRow,   \* what a journal row holds; no row
    LocalChecksum,      \* the checksum of a row the local triggers write
    MaxSeq,             \* bound: journal sequence numbers are 1..MaxSeq
    MaxReceived,        \* bound: outcomes recorded per peer
    max_wire_batch_bytes, max_wire_batch_entries,
    max_inflight_wire_batches,
    max_inflight_wire_bytes, max_inflight_wire_bytes_per_peer,
    max_inflight_wire_batches_per_peer,
    peer_rate_limit_burst_entries

Seqs == 1 .. MaxSeq

Entries == [seq : Seqs, checksum : Checksums, valid : BOOLEAN]

ASSUME SyncIngressAssumption ==
    /\ IsFiniteSet(Workers)
    /\ UnknownPeer \in Peers
    /\ Handshakes \subseteq
           [site_id : Peers, auth : BOOLEAN, schema : BOOLEAN, last_recv_seq : Nat]
    /\ NoHandshake \notin Handshakes
    /\ Batches \subseteq [bytes : Nat, decodes : BOOLEAN, entries : Seq(Entries)]
    /\ NoBatch \notin Batches
    /\ NoRow \notin Checksums /\ LocalChecksum \in Checksums
    /\ MaxSeq \in Nat /\ MaxReceived \in Nat
    /\ max_wire_batch_bytes \in Nat /\ max_wire_batch_entries \in Nat
    /\ max_inflight_wire_batches \in Nat
    /\ max_inflight_wire_bytes \in Nat /\ max_inflight_wire_bytes_per_peer \in Nat
    /\ max_inflight_wire_batches_per_peer \in Nat
    /\ peer_rate_limit_burst_entries \in Nat

VARIABLES
    pc,                     \* per worker: what it does next
    handshake,              \* per worker: request_.remote_handshake
    batch,                  \* per worker: the wire batch it applies
    slot,                   \* per worker: inflight_guard.acquired_
    budget,                 \* per worker: inflight_budget_guard.acquired_
    result,                 \* per worker: success and applied_up_to_seq
    inflight_wire_batches,  \* the atomic counter
    total_bytes,            \* inflight_wire_total_bytes
    peer_batches, peer_bytes,   \* inflight_wire_peer_state, per peer
    tokens,                 \* rate-limit bucket, per peer
    journal,                \* _sync_journal: checksum per seq
    telemetry,              \* PeerIngressTelemetry, per peer
    received                \* history: outcomes owed to the telemetry, per peer

workerVars == <<pc, handshake, batch, slot, budget, result>>
budgetVars == <<inflight_wire_batches, total_bytes, peer_batches, peer_bytes>>
vars == <<workerVars, budgetVars, tokens, journal, telemetry, received>>

Rejected == [success |-> FALSE, applied_up_to_seq |-> 0]

Between == {"closed", "handshake", "ready"}
Applying == {"slot", "budget", "check", "rate", "apply", "record"}

TypeOK ==
    /\ pc \in [Workers -> Between \union Applying \union {"free_budget", "free_slot"}]
    /\ handshake \in [Workers -> Handshakes \union {NoHandshake}]
    /\ batch \in [Workers -> Batches \union {NoBatch}]
    /\ slot \in [Workers -> BOOLEAN]
    /\ budget \in [Workers -> BOOLEAN]
    /\ result \in [Workers -> [success : BOOLEAN, applied_up_to_seq : {0} \union Seqs]]
    /\ inflight_wire_batches \in Nat
    /\ total_bytes \in Nat
    /\ peer_batches \in [Peers -> Nat]
    /\ peer_bytes \in [Peers -> Nat]
    /\ tokens \in [Peers -> 0 .. peer_rate_limit_burst_entries]
    /\ journal \in [Seqs -> Checksums \union {NoRow}]
    /\ telemetry \in [Peers ->
           [last_reported_seq : Nat, last_applied_up_to_seq : {0} \union Seqs,
            accepted_batches : Nat, rejected_batches : Nat, consecutive_failures : Nat]]
    /\ received \in [Peers -> 0 .. MaxReceived]

Init ==
    /\ pc = [w \in Workers |-> "closed"]
    /\ handshake = [w \in Workers |-> NoHandshake]
    /\ batch = [w \in Workers |-> NoBatch]
    /\ slot = [w \in Workers |-> FALSE]
    /\ budget = [w \in Workers |-> FALSE]
    /\ result = [w \in Workers |-> Rejected]
    /\ inflight_wire_batches = 0
    /\ total_bytes = 0
    /\ peer_batches = [p \in Peers |-> 0]
    /\ peer_bytes = [p \in Peers |-> 0]
    /\ tokens = [p \in Peers |-> peer_rate_limit_burst_entries]
    /\ journal = [s \in Seqs |-> NoRow]
    /\ telemetry = [p \in Peers |->
           [last_reported_seq |-> 0, last_applied_up_to_seq |-> 0,
            accepted_batches |-> 0, rejected_batches |-> 0, consecutive_failures |-> 0]]
    /\ received = [p \in Peers |-> 0]

Peer(w) == handshake[w].site_id

-----------------------------------------------------------------------------
(* Telemetry *)

Larger(m, n) == IF m < n THEN n ELSE m

\* record_peer_ingress_result.  Both sequence numbers are taken over whether
\* the batch was accepted or not.
Record(p, reported, res) ==
    telemetry' =
      IF p = UnknownPeer THEN telemetry
      ELSE [telemetry EXCEPT ![p] =
             [last_reported_seq |-> Larger(@.last_reported_seq, reported),
              last_applied_up_to_seq |->
                  Larger(@.last_applied_up_to_seq, res.applied_up_to_seq),
              accepted_batches |-> @.accepted_batches + (IF res.success THEN 1 ELSE 0),
              rejected_batches |-> @.rejected_batches + (IF res.success THEN 0 ELSE 1),
              consecutive_failures |->
                  IF res.success THEN 0 ELSE @.consecutive_failures + 1]]

\* Something of peer p arrived whose outcome is to be recorded.
Receive(p) ==
    /\ received[p] < MaxReceived
    /\ received' = [received EXCEPT ![p] = @ + 1]

-----------------------------------------------------------------------------
(* The session *)

\* The connection ends and its session with it.
Close(w) ==
    /\ pc' = [pc EXCEPT ![w] = "closed"]
    /\ handshake' = [handshake EXCEPT ![w] = NoHandshake]

\* A worker takes an accepted connection from the queue: a new session.
Connect(w) ==
    /\ pc[w] = "closed"
    /\ pc' = [pc EXCEPT ![w] = "handshake"]
    /\ UNCHANGED <<handshake, batch, slot, budget, result, budgetVars, tokens, journal, telemetry, received>>

\* End of stream, a read error or stop(): nothing is recorded for the peer.
Disconnect(w) ==
    /\ pc[w] \in {"handshake", "ready"}
    /\ Close(w)
    /\ UNCHANGED <<batch, slot, budget, result, budgetVars, tokens, journal,
                   telemetry, received>>

\* The first frame is a handshake.  A refusal is recorded under the site id
\* the handshake claims, and ends the connection.
HandshakeFrame(w, hs) ==
    /\ pc[w] = "handshake"
    /\ \/ /\ hs.auth /\ hs.schema
          /\ handshake' = [handshake EXCEPT ![w] = hs]
          /\ pc' = [pc EXCEPT ![w] = "ready"]
          /\ UNCHANGED <<telemetry, received>>
       \/ /\ ~(hs.auth /\ hs.schema)
          /\ Receive(hs.site_id)
          /\ Record(hs.site_id, 0, Rejected)
          /\ Close(w)
    /\ UNCHANGED <<batch, slot, budget, result, budgetVars, tokens, journal>>

\* A frame that overflows the rpc buffer or names another channel.  Before
\* the handshake the peer has no site id and nothing is recorded.
ProtocolError(w) ==
    /\ pc[w] \in {"handshake", "ready"}
    /\ \/ /\ pc[w] = "handshake"
          /\ UNCHANGED <<telemetry, received>>
       \/ /\ pc[w] = "ready"
          /\ Receive(Peer(w))
          /\ Record(Peer(w), 0, Rejected)
    /\ Close(w)
    /\ UNCHANGED <<batch, slot, budget, result, budgetVars, tokens, journal>>

-----------------------------------------------------------------------------
(* apply_wire_batch *)

\* Leave for the recording of a rejection.
Reject(w) ==
    /\ pc' = [pc EXCEPT ![w] = "record"]
    /\ result' = [result EXCEPT ![w] = Rejected]

Proceed(w, next) ==
    /\ pc' = [pc EXCEPT ![w] = next]
    /\ UNCHANGED result

\* A replication frame: the size check comes before any guard.
WireBatch(w, b) ==
    /\ pc[w] = "ready"
    /\ Receive(Peer(w))
    /\ batch' = [batch EXCEPT ![w] = b]
    /\ IF b.bytes > max_wire_batch_bytes THEN Reject(w) ELSE Proceed(w, "slot")
    /\ UNCHANGED <<handshake, slot, budget, budgetVars, tokens, journal, telemetry>>

(* mutant: the loop's condition admits one batch too many. *)
AcquireSlot_OffByOne(w) ==
    /\ pc[w] = "slot"
    /\ IF inflight_wire_batches <= max_inflight_wire_batches
       THEN /\ inflight_wire_batches' = inflight_wire_batches + 1
            /\ slot' = [slot EXCEPT ![w] = TRUE]
            /\ Proceed(w, "budget")
       ELSE Reject(w) /\ UNCHANGED <<inflight_wire_batches, slot>>
    /\ UNCHANGED <<handshake, batch, budget, total_bytes, peer_batches, peer_bytes,
                   tokens, journal, telemetry, received>>

\* InflightBatchGuard: the compare-and-swap loop is one atomic step.
AcquireSlot(w) ==
    /\ pc[w] = "slot"
    /\ IF inflight_wire_batches < max_inflight_wire_batches
       THEN /\ inflight_wire_batches' = inflight_wire_batches + 1
            /\ slot' = [slot EXCEPT ![w] = TRUE]
            /\ Proceed(w, "budget")
       ELSE Reject(w) /\ UNCHANGED <<inflight_wire_batches, slot>>
    /\ UNCHANGED <<handshake, batch, budget, total_bytes, peer_batches, peer_bytes,
                   tokens, journal, telemetry, received>>

\* What InflightWireBudgetGuard admits for b bytes of peer p.
WithinWireBudget(p, b) ==
    /\ total_bytes + b <= max_inflight_wire_bytes
    /\ peer_batches[p] < max_inflight_wire_batches_per_peer
    /\ peer_bytes[p] + b <= max_inflight_wire_bytes_per_peer

\* InflightWireBudgetGuard, under its mutex.
AcquireBudget(w) ==
    /\ pc[w] = "budget"
    /\ LET p == Peer(w)  b == batch[w].bytes
       IN IF WithinWireBudget(p, b)
          THEN /\ total_bytes' = total_bytes + b
               /\ peer_batches' = [peer_batches EXCEPT ![p] = @ + 1]
               /\ peer_bytes' = [peer_bytes EXCEPT ![p] = @ + b]
               /\ budget' = [budget EXCEPT ![w] = TRUE]
               /\ Proceed(w, "check")
          ELSE Reject(w) /\ UNCHANGED <<total_bytes, peer_batches, peer_bytes, budget>>
    /\ UNCHANGED <<handshake, batch, slot, inflight_wire_batches, tokens, journal,
                   telemetry, received>>

\* The handshake is validated again, the batch decoded and its entries counted.
Check(w) ==
    /\ pc[w] = "check"
    /\ IF /\ handshake[w].auth /\ handshake[w].schema
          /\ batch[w].decodes
          /\ Len(batch[w].entries) <= max_wire_batch_entries
       THEN Proceed(w, "rate")
       ELSE Reject(w)
    /\ UNCHANGED <<handshake, batch, slot, budget, budgetVars, tokens, journal,
                   telemetry, received>>

\* consume_peer_rate_limit_tokens.  A batch larger than the burst can never pass.
ConsumeTokens(w) ==
    /\ pc[w] = "rate"
    /\ LET p == Peer(w)  n == Len(batch[w].entries)
       IN IF n <= tokens[p]
          THEN tokens' = [tokens EXCEPT ![p] = @ - n] /\ Proceed(w, "apply")
          ELSE Reject(w) /\ UNCHANGED tokens
    /\ UNCHANGED <<handshake, batch, slot, budget, budgetVars, journal, telemetry, received>>

\* Time passes and a bucket gains an entry, up to the burst.
Refill(p) ==
    /\ tokens[p] < peer_rate_limit_burst_entries
    /\ tokens' = [tokens EXCEPT ![p] = @ + 1]
    /\ UNCHANGED <<workerVars, budgetVars, journal, telemetry, received>>

-----------------------------------------------------------------------------
(* apply_batch: one transaction *)

(* mutant: a row that exists already is taken for a duplicate unchecked. *)
Insertable_AnyDuplicate(entries, i) ==
    entries[i].valid

\* Entry i of the transaction inserts a row, or finds one with its checksum:
\* in the journal, or put there by an earlier entry of the same batch.
Insertable(entries, i) ==
    /\ entries[i].valid
    /\ journal[entries[i].seq] \in {NoRow, entries[i].checksum}
    /\ \A k \in 1 .. (i - 1) :
         entries[k].seq = entries[i].seq => entries[k].checksum = entries[i].checksum

\* The first n entries leave applied_up_to_seq at s.
UpTo(entries, n, s) ==
    /\ s \in {0} \union {entries[k].seq : k \in 1 .. n}
    /\ \A k \in 1 .. n : entries[k].seq <= s

\* INSERT OR IGNORE of every entry.
Inserted(entries) ==
    [s \in Seqs |->
        IF journal[s] = NoRow /\ \E k \in DOMAIN entries : entries[k].seq = s
        THEN entries[CHOOSE k \in DOMAIN entries : entries[k].seq = s].checksum
        ELSE journal[s]]

\* Everything was inserted and COMMIT succeeded.
ApplyCommits(w) ==
    /\ pc[w] = "apply"
    /\ LET es == batch[w].entries
       IN /\ \A i \in DOMAIN es : Insertable(es, i)
          /\ journal' = Inserted(es)
          /\ \E s \in {0} \union Seqs :
                /\ UpTo(es, Len(es), s)
                /\ result' = [result EXCEPT ![w] =
                                 [success |-> TRUE, applied_up_to_seq |-> s]]
    /\ pc' = [pc EXCEPT ![w] = "record"]
    /\ UNCHANGED <<handshake, batch, slot, budget, budgetVars, tokens, telemetry, received>>

(* mutant: an error path returns without ROLLBACK, and what was inserted stays. *)
ApplyFails_NoRollback(w) ==
    /\ pc[w] = "apply"
    /\ LET es == batch[w].entries
       IN \E n \in 0 .. Len(es) :
            /\ \A i \in 1 .. n : Insertable(es, i)
            /\ \E s \in {0} \union Seqs :
                 /\ UpTo(es, n, s)
                 /\ result' = [result EXCEPT ![w] =
                                  [success |-> FALSE, applied_up_to_seq |-> s]]
            /\ journal' = Inserted(SubSeq(es, 1, n))
    /\ pc' = [pc EXCEPT ![w] = "record"]
    /\ UNCHANGED <<handshake, batch, slot, budget, budgetVars, tokens, telemetry, received>>

\* n entries went in, then an entry was refused, or SQLite failed (BEGIN timed
\* out on the write lock, the insert or COMMIT failed).  The transaction is
\* rolled back; applied_up_to_seq keeps what the n entries made it.
ApplyFails(w) ==
    /\ pc[w] = "apply"
    /\ LET es == batch[w].entries
       IN \E n \in 0 .. Len(es) :
            /\ \A i \in 1 .. n : Insertable(es, i)
            /\ \E s \in {0} \union Seqs :
                 /\ UpTo(es, n, s)
                 /\ result' = [result EXCEPT ![w] =
                                  [success |-> FALSE, applied_up_to_seq |-> s]]
    /\ pc' = [pc EXCEPT ![w] = "record"]
    /\ UNCHANGED <<handshake, batch, slot, budget, budgetVars, tokens, journal, telemetry,
                   received>>

\* A local write: the CDC trigger inserts a row at the next rowid, which is
\* one above the largest in the table.
LocalWrite(s) ==
    /\ \A t \in Seqs : t >= s => journal[t] = NoRow
    /\ s > 1 => journal[s - 1] # NoRow
    /\ journal' = [journal EXCEPT ![s] = LocalChecksum]
    /\ UNCHANGED <<workerVars, budgetVars, tokens, telemetry, received>>

-----------------------------------------------------------------------------
(* Returning from apply_wire_batch *)

RecordOutcome(w) ==
    /\ pc[w] = "record"
    /\ Record(Peer(w), handshake[w].last_recv_seq, result[w])
    /\ pc' = [pc EXCEPT ![w] = "free_budget"]
    /\ UNCHANGED <<handshake, batch, slot, budget, result, budgetVars, tokens, journal, received>>

Less(m, n) == IF m >= n THEN m - n ELSE 0

(* mutant: the release forgets the peer's bytes. *)
ReleaseBudget_KeepsPeerBytes(w) ==
    /\ pc[w] = "free_budget"
    /\ LET p == Peer(w)  b == batch[w].bytes
       IN IF budget[w]
          THEN /\ total_bytes' = Less(total_bytes, b)
               /\ peer_batches' = [peer_batches EXCEPT ![p] = Less(@, 1)]
          ELSE UNCHANGED <<total_bytes, peer_batches>>
    /\ UNCHANGED peer_bytes
    /\ budget' = [budget EXCEPT ![w] = FALSE]
    /\ pc' = [pc EXCEPT ![w] = "free_slot"]
    /\ UNCHANGED <<handshake, batch, slot, result, inflight_wire_batches, tokens, journal,
                   telemetry, received>>

\* ~InflightWireBudgetGuard, the later of the two guards and so the first freed.
ReleaseBudget(w) ==
    /\ pc[w] = "free_budget"
    /\ LET p == Peer(w)  b == batch[w].bytes
       IN IF budget[w]
          THEN /\ total_bytes' = Less(total_bytes, b)
               /\ peer_batches' = [peer_batches EXCEPT ![p] = Less(@, 1)]
               /\ peer_bytes' = [peer_bytes EXCEPT ![p] = Less(@, b)]
          ELSE UNCHANGED <<total_bytes, peer_batches, peer_bytes>>
    /\ budget' = [budget EXCEPT ![w] = FALSE]
    /\ pc' = [pc EXCEPT ![w] = "free_slot"]
    /\ UNCHANGED <<handshake, batch, slot, result, inflight_wire_batches, tokens, journal,
                   telemetry, received>>

\* ~InflightBatchGuard; consume_frames goes on after an accepted batch and
\* ends the connection after a rejected one.
ReleaseSlot(w) ==
    /\ pc[w] = "free_slot"
    /\ inflight_wire_batches' = inflight_wire_batches - (IF slot[w] THEN 1 ELSE 0)
    /\ slot' = [slot EXCEPT ![w] = FALSE]
    /\ batch' = [batch EXCEPT ![w] = NoBatch]
    /\ result' = [result EXCEPT ![w] = Rejected]
    /\ IF result[w].success
       THEN pc' = [pc EXCEPT ![w] = "ready"] /\ UNCHANGED handshake
       ELSE Close(w)
    /\ UNCHANGED <<budget, total_bytes, peer_batches, peer_bytes, tokens,
                   journal, telemetry, received>>

-----------------------------------------------------------------------------
\* Steps a worker takes by itself once it has a batch.
Step(w) ==
    \/ AcquireSlot(w) \/ AcquireBudget(w) \/ Check(w) \/ ConsumeTokens(w)
    \/ ApplyCommits(w) \/ ApplyFails(w)
    \/ RecordOutcome(w) \/ ReleaseBudget(w) \/ ReleaseSlot(w)

Next ==
    \/ \E w \in Workers :
         \/ Connect(w) \/ Disconnect(w) \/ ProtocolError(w)
         \/ \E hs \in Handshakes : HandshakeFrame(w, hs)
         \/ \E b \in Batches : WireBatch(w, b)
         \/ Step(w)
    \/ \E p \in Peers : Refill(p)
    \/ \E s \in Seqs : LocalWrite(s)

Spec == Init /\ [][Next]_vars

-----------------------------------------------------------------------------
(* Properties *)

SlotHolders == {w \in Workers : slot[w]}
BudgetHolders(p) == {w \in Workers : budget[w] /\ Peer(w) = p}

\* The limits read_ingress_limits sets hold in every interleaving of the
\* workers: never more batches or bytes in flight, in all or of one peer.
WithinLimits ==
    /\ inflight_wire_batches <= max_inflight_wire_batches
    /\ total_bytes <= max_inflight_wire_bytes
    /\ \A p \in Peers :
         /\ peer_batches[p] <= max_inflight_wire_batches_per_peer
         /\ peer_bytes[p] <= max_inflight_wire_bytes_per_peer

\* The batch counters are exact: each counts the workers whose guard holds a
\* share of it, and a worker that is not inside apply_wire_batch holds none.
\* A path that returned without its guard's destructor, or one that freed
\* what it never had, would make the budget shrink or grow for good.
CountersMatchHolders ==
    /\ inflight_wire_batches = Cardinality(SlotHolders)
    /\ \A p \in Peers : peer_batches[p] = Cardinality(BudgetHolders(p))
    /\ \A w \in Workers :
         /\ pc[w] \in Between => ~slot[w] /\ ~budget[w]
         /\ budget[w] => slot[w]

\* The byte counters are exact too: the saturating subtractions of the guard's
\* destructor never lose a byte of another batch.
BytesMatchHolders ==
    LET bytes(S) == MapThenSumSet(LAMBDA w : batch[w].bytes, S)
    IN /\ total_bytes = bytes({w \in Workers : budget[w]})
       /\ \A p \in Peers : peer_bytes[p] = bytes(BudgetHolders(p))

\* A batch reported as accepted is in the journal, every entry with the
\* checksum it was sent with, whatever other workers and local writes did
\* to the table in between.
AcceptedBatchIsJournaled ==
    \A w \in Workers :
      pc[w] \in {"record", "free_budget", "free_slot"} /\ result[w].success =>
        \A i \in DOMAIN batch[w].entries :
          journal[batch[w].entries[i].seq] = batch[w].entries[i].checksum

\* The journal only grows, and in one of two ways: by the row of a local write,
\* or by a batch that is then reported as accepted, after which it holds every
\* entry as it was sent and no row that is not the batch's.  A rejected batch
\* leaves no row behind, and two batches are never mixed.
JournalGrowsByWholeBatches ==
    [][/\ \A s \in Seqs : journal[s] # NoRow => journal'[s] = journal[s]
       /\ journal' # journal =>
            \/ pc' = pc /\ \E s \in Seqs : journal' = [journal EXCEPT ![s] = LocalChecksum]
            \/ \E w \in Workers :
                 LET es == batch[w].entries
                 IN  /\ pc[w] = "apply" /\ pc'[w] = "record" /\ result'[w].success
                     /\ \A i \in DOMAIN es : journal'[es[i].seq] = es[i].checksum
                     /\ \A s \in Seqs : journal'[s] # journal[s] =>
                          \E i \in DOMAIN es : es[i].seq = s]_vars

\* Every batch and every refused frame of a known peer is counted exactly
\* once, as accepted or as rejected, on every path out of apply_wire_batch
\* and of the session.
OutcomesAreCounted ==
    \A p \in Peers \ {UnknownPeer} :
      received[p] = telemetry[p].accepted_batches + telemetry[p].rejected_batches
                      + Cardinality({w \in Workers : pc[w] \in Applying /\ Peer(w) = p})

\* Nothing is lost from the ledgers: the batches and bytes in flight are those
\* of the held guards, and every batch received has one outcome.
LedgersBalance == CountersMatchHolders /\ BytesMatchHolders /\ OutcomesAreCounted
=============================================================================
