------------------------- MODULE SyncIngressProofs -------------------------
(***************************************************************************)
(* Proofs about SyncIngress, for any number of workers, peers, batches and *)
(* any limits.  TypeOK alone is not inductive: that the in-flight counter  *)
(* stays a natural number when a worker frees its slot needs the counter   *)
(* to be the number of slot holders, and a worker's reads of its batch and *)
(* handshake need both to be there.                                        *)
(*                                                                         *)
(* The byte counters are sums over the workers that hold a share.  A sum   *)
(* is a recursive function of a finite set that takes its elements out in  *)
(* an order nobody knows: that it exists, and that any element may be      *)
(* taken out first, is proved from a smallest set for which it fails       *)
(* (SumExists, BytesWithout).                                              *)
(***************************************************************************)
EXTENDS SyncIngress, FiniteSetTheorems, WellFoundedInduction, NaturalsInduction, TLAPS

\* A worker past its handshake has an accepted one, and a worker inside
\* apply_wire_batch has a batch.
HasRequest ==
    \A w \in Workers :
      /\ pc[w] \notin {"closed", "handshake"} => handshake[w] \in Handshakes
      /\ pc[w] \notin Between => batch[w] \in Batches

\* Where a guard can be held: a slot between AcquireSlot and ReleaseSlot, a
\* share of the wire budget between AcquireBudget and ReleaseBudget.
GuardsHeld ==
    \A w \in Workers :
      /\ pc[w] \in Between \union {"slot"} => ~slot[w]
      /\ pc[w] \in Between \union {"slot", "budget", "free_slot"} => ~budget[w]
      /\ budget[w] => slot[w]
      /\ pc[w] = "budget" => slot[w]

IInv == TypeOK /\ HasRequest /\ GuardsHeld /\ CountersMatchHolders

BatchType == [bytes : Nat, decodes : BOOLEAN, entries : Seq(Entries)]

-----------------------------------------------------------------------------
(* Slots *)

\* The slot holders are finitely many.
LEMMA HoldersFinite ==
    \A S \in SUBSET Workers : IsFiniteSet(S) /\ Cardinality(S) \in Nat
  BY SyncIngressAssumption, FS_Subset, FS_CardinalityType

\* One more worker acquires a slot.
LEMMA SlotTaken ==
    ASSUME NEW w \in Workers, TypeOK, ~slot[w], slot' = [slot EXCEPT ![w] = TRUE]
    PROVE  Cardinality(SlotHolders') = Cardinality(SlotHolders) + 1
<1>1. SlotHolders' = SlotHolders \union {w} /\ w \notin SlotHolders
  BY DEF SlotHolders, TypeOK
<1>2. IsFiniteSet(SlotHolders)
  BY HoldersFinite DEF SlotHolders
<1> QED BY <1>1, <1>2, FS_AddElement

\* A worker gives its slot back.
LEMMA SlotFreed ==
    ASSUME NEW w \in Workers, TypeOK, slot[w], slot' = [slot EXCEPT ![w] = FALSE]
    PROVE  /\ Cardinality(SlotHolders') = Cardinality(SlotHolders) - 1
           /\ Cardinality(SlotHolders) >= 1
<1>1. SlotHolders' = SlotHolders \ {w} /\ w \in SlotHolders
  BY DEF SlotHolders, TypeOK
<1>2. IsFiniteSet(SlotHolders) /\ Cardinality(SlotHolders) \in Nat
  BY HoldersFinite DEF SlotHolders
<1>3. IsFiniteSet(SlotHolders') /\ Cardinality(SlotHolders') \in Nat
  BY HoldersFinite DEF SlotHolders
<1>4. Cardinality(SlotHolders') = Cardinality(SlotHolders) - 1
  BY <1>1, <1>2, FS_RemoveElement
<1> QED BY <1>2, <1>3, <1>4

-----------------------------------------------------------------------------
(* What the operators return *)

\* An entry of a batch is an entry.
LEMMA EntryType ==
    ASSUME NEW b \in Batches
    PROVE  /\ b.bytes \in Nat
           /\ Len(b.entries) \in Nat /\ DOMAIN b.entries = 1 .. Len(b.entries)
           /\ \A i \in DOMAIN b.entries :
                b.entries[i].seq \in Seqs /\ b.entries[i].checksum \in Checksums
<1>1. b \in BatchType
  BY SyncIngressAssumption DEF BatchType
<1>2. b.bytes \in Nat /\ b.entries \in Seq(Entries)
  BY <1>1 DEF BatchType
<1>3. Len(b.entries) \in Nat /\ DOMAIN b.entries = 1 .. Len(b.entries)
  BY <1>2
<1>4. \A i \in DOMAIN b.entries : b.entries[i] \in Entries
  BY <1>2
<1> QED BY <1>2, <1>3, <1>4 DEF Entries

\* INSERT OR IGNORE of a batch yields a journal.
LEMMA InsertedType ==
    ASSUME TypeOK, NEW b \in Batches
    PROVE  Inserted(b.entries) \in [Seqs -> Checksums \union {NoRow}]
<1> SUFFICES ASSUME NEW s \in Seqs
             PROVE  Inserted(b.entries)[s] \in Checksums \union {NoRow}
  BY DEF Inserted
<1>1. journal[s] \in Checksums \union {NoRow}
  BY DEF TypeOK
<1>2. CASE journal[s] = NoRow /\ \E k \in DOMAIN b.entries : b.entries[k].seq = s
  <2>1. (CHOOSE k \in DOMAIN b.entries : b.entries[k].seq = s) \in DOMAIN b.entries
    BY <1>2
  <2> QED BY <1>2, <2>1, EntryType DEF Inserted
<1>3. CASE ~(journal[s] = NoRow /\ \E k \in DOMAIN b.entries : b.entries[k].seq = s)
  BY <1>1, <1>3 DEF Inserted
<1> QED BY <1>2, <1>3

\* A recorded outcome leaves the telemetry well formed.
LEMMA RecordType ==
    ASSUME TypeOK, NEW p \in Peers, NEW n \in Nat,
           NEW r \in [success : BOOLEAN, applied_up_to_seq : {0} \union Seqs],
           Record(p, n, r)
    PROVE  telemetry' \in [Peers ->
              [last_reported_seq : Nat, last_applied_up_to_seq : {0} \union Seqs,
               accepted_batches : Nat, rejected_batches : Nat, consecutive_failures : Nat]]
  BY DEF TypeOK, Record, Larger

\* The rejection that every early return reports is an outcome.
LEMMA RejectedType ==
    Rejected \in [success : BOOLEAN, applied_up_to_seq : {0} \union Seqs]
  BY DEF Rejected

\* Rejecting a batch or going on with it keeps the types of what it changes.
LEMMA VerdictType ==
    ASSUME TypeOK, NEW w \in Workers, NEW next \in Applying, Reject(w) \/ Proceed(w, next)
    PROVE  /\ pc' \in [Workers -> Between \union Applying \union {"free_budget", "free_slot"}]
           /\ result' \in [Workers -> [success : BOOLEAN, applied_up_to_seq : {0} \union Seqs]]
<1>1. CASE Reject(w)
  BY <1>1, RejectedType DEF Reject, TypeOK, Applying
<1>2. CASE Proceed(w, next)
  BY <1>2 DEF Proceed, TypeOK
<1> QED BY <1>1, <1>2

\* A token bucket never holds less than nothing or more than the burst.
LEMMA TokensType ==
    ASSUME TypeOK, NEW p \in Peers,
           \/ tokens[p] < peer_rate_limit_burst_entries /\ tokens' = [tokens EXCEPT ![p] = @ + 1]
           \/ \E n \in Nat : n <= tokens[p] /\ tokens' = [tokens EXCEPT ![p] = @ - n]
    PROVE  tokens' \in [Peers -> 0 .. peer_rate_limit_burst_entries]
<1>1. peer_rate_limit_burst_entries \in Nat
  BY SyncIngressAssumption
<1>2. tokens \in [Peers -> 0 .. peer_rate_limit_burst_entries]
  BY DEF TypeOK
<1> QED BY <1>1, <1>2

\* The history counter stays below its bound.
LEMMA ReceiveType ==
    ASSUME TypeOK, NEW p \in Peers, Receive(p)
    PROVE  received' \in [Peers -> 0 .. MaxReceived]
<1>1. MaxReceived \in Nat
  BY SyncIngressAssumption
<1> QED BY <1>1 DEF TypeOK, Receive

-----------------------------------------------------------------------------
(* The inductive invariant *)

\* A handshake and a batch give what the steps of a worker read of them.
LEMMA RequestType ==
    ASSUME IInv, NEW w \in Workers
    PROVE  /\ pc[w] \notin {"closed", "handshake"} =>
                 Peer(w) \in Peers /\ handshake[w].last_recv_seq \in Nat
           /\ pc[w] \notin Between => batch[w] \in Batches /\ batch[w].bytes \in Nat
                                       /\ Len(batch[w].entries) \in Nat
  BY SyncIngressAssumption, EntryType DEF IInv, HasRequest, Peer

\* No step leaves the types.
LEMMA TypeStep ==
    ASSUME IInv, [Next]_vars
    PROVE  TypeOK'
<1> USE DEF TypeOK, Between, Applying, workerVars, budgetVars
<1>0. TypeOK
  BY DEF IInv
<1>1. ASSUME NEW w \in Workers, Connect(w) PROVE TypeOK'
  BY <1>0, <1>1 DEF Connect
<1>2. ASSUME NEW w \in Workers, Disconnect(w) PROVE TypeOK'
  BY <1>0, <1>2 DEF Disconnect, Close
<1>3. ASSUME NEW w \in Workers, ProtocolError(w) PROVE TypeOK'
  <2>1. CASE pc[w] = "handshake"
    BY <1>0, <1>3, <2>1 DEF ProtocolError, Close
  <2>2. CASE pc[w] = "ready"
    <3>1. Peer(w) \in Peers /\ Receive(Peer(w)) /\ Record(Peer(w), 0, Rejected)
      BY <1>3, <2>2, RequestType DEF ProtocolError
    <3>2. received' \in [Peers -> 0 .. MaxReceived]
      BY <1>0, <3>1, ReceiveType
    <3> HIDE DEF TypeOK
    <3>3. telemetry' \in [Peers ->
              [last_reported_seq : Nat, last_applied_up_to_seq : {0} \union Seqs,
               accepted_batches : Nat, rejected_batches : Nat, consecutive_failures : Nat]]
      BY <1>0, <3>1, RecordType, RejectedType
    <3> QED BY <1>0, <1>3, <3>2, <3>3 DEF ProtocolError, Close, TypeOK
  <2> QED BY <1>3, <2>1, <2>2 DEF ProtocolError
<1>4. ASSUME NEW w \in Workers, NEW hs \in Handshakes, HandshakeFrame(w, hs) PROVE TypeOK'
  <2>1. CASE hs.auth /\ hs.schema
    BY <1>0, <1>4, <2>1, ZenonT(60) DEF HandshakeFrame
  <2>2. CASE ~(hs.auth /\ hs.schema)
    <3>1. hs.site_id \in Peers /\ Receive(hs.site_id) /\ Record(hs.site_id, 0, Rejected)
      BY <1>4, <2>2, SyncIngressAssumption DEF HandshakeFrame
    <3>2. received' \in [Peers -> 0 .. MaxReceived]
      BY <1>0, <3>1, ReceiveType
    <3> HIDE DEF TypeOK
    <3>3. telemetry' \in [Peers ->
              [last_reported_seq : Nat, last_applied_up_to_seq : {0} \union Seqs,
               accepted_batches : Nat, rejected_batches : Nat, consecutive_failures : Nat]]
      BY <1>0, <3>1, RecordType, RejectedType
    <3> QED BY <1>0, <1>4, <2>2, <3>2, <3>3 DEF HandshakeFrame, Close, TypeOK
  <2> QED BY <2>1, <2>2
<1>5. ASSUME NEW w \in Workers, NEW b \in Batches, WireBatch(w, b) PROVE TypeOK'
  <2>1. received' \in [Peers -> 0 .. MaxReceived]
    BY <1>0, <1>5, RequestType, ReceiveType DEF WireBatch
  <2>2. Reject(w) \/ Proceed(w, "slot")
    BY <1>5 DEF WireBatch
  <2> QED BY <1>0, <1>5, <2>1, <2>2, VerdictType DEF WireBatch
<1>6. ASSUME NEW w \in Workers, AcquireSlot(w) PROVE TypeOK'
  <2>1. Reject(w) \/ Proceed(w, "budget")
    BY <1>6 DEF AcquireSlot
  <2>2. \/ /\ inflight_wire_batches' = inflight_wire_batches + 1
           /\ slot' = [slot EXCEPT ![w] = TRUE]
        \/ UNCHANGED <<inflight_wire_batches, slot>>
    BY <1>6 DEF AcquireSlot
  <2>3. inflight_wire_batches' \in Nat
    BY <1>0, <2>2
  <2>4. slot' \in [Workers -> BOOLEAN]
    BY <1>0, <2>2
  <2> QED BY <1>0, <1>6, <2>1, <2>3, <2>4, VerdictType DEF AcquireSlot
<1>7. ASSUME NEW w \in Workers, AcquireBudget(w) PROVE TypeOK'
  <2>1. Peer(w) \in Peers /\ batch[w].bytes \in Nat
    BY <1>7, RequestType DEF AcquireBudget
  <2>2. Reject(w) \/ Proceed(w, "check")
    BY <1>7 DEF AcquireBudget
  <2>3. \/ /\ total_bytes' = total_bytes + batch[w].bytes
           /\ peer_batches' = [peer_batches EXCEPT ![Peer(w)] = @ + 1]
           /\ peer_bytes' = [peer_bytes EXCEPT ![Peer(w)] = @ + batch[w].bytes]
           /\ budget' = [budget EXCEPT ![w] = TRUE]
        \/ UNCHANGED <<total_bytes, peer_batches, peer_bytes, budget>>
    BY <1>7 DEF AcquireBudget
  <2>4. total_bytes' \in Nat /\ peer_batches' \in [Peers -> Nat] /\ peer_bytes' \in [Peers -> Nat]
    BY <1>0, <2>1, <2>3, SMTT(60)
  <2>5. budget' \in [Workers -> BOOLEAN]
    BY <1>0, <2>3
  <2> QED BY <1>0, <1>7, <2>2, <2>4, <2>5, VerdictType DEF AcquireBudget
<1>8. ASSUME NEW w \in Workers, Check(w) PROVE TypeOK'
  <2>1. Reject(w) \/ Proceed(w, "rate")
    BY <1>8 DEF Check
  <2> QED BY <1>0, <1>8, <2>1, VerdictType DEF Check
<1>9. ASSUME NEW w \in Workers, ConsumeTokens(w) PROVE TypeOK'
  <2>1. Peer(w) \in Peers /\ Len(batch[w].entries) \in Nat
    BY <1>9, RequestType DEF ConsumeTokens
  <2>2. tokens' \in [Peers -> 0 .. peer_rate_limit_burst_entries]
    BY <1>0, <1>9, <2>1, TokensType DEF ConsumeTokens
  <2>3. Reject(w) \/ Proceed(w, "apply")
    BY <1>9 DEF ConsumeTokens
  <2> QED BY <1>0, <1>9, <2>2, <2>3, VerdictType DEF ConsumeTokens
<1>10. ASSUME NEW w \in Workers, ApplyCommits(w) PROVE TypeOK'
  <2>1. batch[w] \in Batches
    BY <1>10, RequestType DEF ApplyCommits
  <2>2. journal' \in [Seqs -> Checksums \union {NoRow}]
    BY <1>0, <1>10, <2>1, InsertedType DEF ApplyCommits
  <2> QED BY <1>0, <1>10, <2>2 DEF ApplyCommits
<1>11. ASSUME NEW w \in Workers, ApplyFails(w) PROVE TypeOK'
  BY <1>0, <1>11 DEF ApplyFails
<1>12. ASSUME NEW w \in Workers, RecordOutcome(w) PROVE TypeOK'
  <2>1. /\ Peer(w) \in Peers /\ handshake[w].last_recv_seq \in Nat
        /\ Record(Peer(w), handshake[w].last_recv_seq, result[w])
    BY <1>12, RequestType DEF RecordOutcome
  <2>2. result[w] \in [success : BOOLEAN, applied_up_to_seq : {0} \union Seqs]
    BY <1>0
  <2> HIDE DEF TypeOK
  <2>3. telemetry' \in [Peers ->
            [last_reported_seq : Nat, last_applied_up_to_seq : {0} \union Seqs,
             accepted_batches : Nat, rejected_batches : Nat, consecutive_failures : Nat]]
    BY <1>0, <2>1, <2>2, RecordType
  <2> QED BY <1>0, <1>12, <2>3 DEF RecordOutcome, TypeOK
<1>13. ASSUME NEW w \in Workers, ReleaseBudget(w) PROVE TypeOK'
  <2>1. Peer(w) \in Peers /\ batch[w].bytes \in Nat
    BY <1>13, RequestType DEF ReleaseBudget
  <2> QED BY <1>0, <1>13, <2>1 DEF ReleaseBudget, Less
<1>14. ASSUME NEW w \in Workers, ReleaseSlot(w) PROVE TypeOK'
  <2>1. inflight_wire_batches' \in Nat
    <3>1. CASE slot[w]
      <4>1. Cardinality(SlotHolders) >= 1 /\ inflight_wire_batches = Cardinality(SlotHolders)
        BY <1>0, <1>14, <3>1, SlotFreed DEF ReleaseSlot, IInv, CountersMatchHolders
      <4> QED BY <1>0, <1>14, <3>1, <4>1 DEF ReleaseSlot
    <3>2. CASE ~slot[w]
      BY <1>0, <1>14, <3>2 DEF ReleaseSlot
    <3> QED BY <3>1, <3>2
  <2> QED BY <1>0, <1>14, <2>1, RejectedType DEF ReleaseSlot, Close
<1>15. ASSUME NEW p \in Peers, Refill(p) PROVE TypeOK'
  BY <1>0, <1>15, TokensType DEF Refill
<1>16. ASSUME NEW s \in Seqs, LocalWrite(s) PROVE TypeOK'
  BY <1>0, <1>16, SyncIngressAssumption DEF LocalWrite
<1>17. CASE UNCHANGED vars
  BY <1>0, <1>17 DEF vars
<1> QED
  BY <1>1, <1>2, <1>3, <1>4, <1>5, <1>6, <1>7, <1>8, <1>9, <1>10, <1>11, <1>12, <1>13,
     <1>14, <1>15, <1>16, <1>17 DEF Next, Step

\* Every step of a worker finds the batch and the handshake it reads.
LEMMA RequestStep ==
    ASSUME IInv, [Next]_vars
    PROVE  HasRequest'
<1> USE DEF Between, Applying, workerVars, HasRequest
<1>0. TypeOK /\ HasRequest
  BY DEF IInv
<1>1. /\ pc \in [Workers -> Between \union Applying \union {"free_budget", "free_slot"}]
      /\ handshake \in [Workers -> Handshakes \union {NoHandshake}]
      /\ batch \in [Workers -> Batches \union {NoBatch}]
  BY <1>0 DEF TypeOK
<1>2. ASSUME NEW w \in Workers, Connect(w) PROVE HasRequest'
  BY <1>0, <1>1, <1>2 DEF Connect
<1>3. ASSUME NEW w \in Workers, Disconnect(w) \/ ProtocolError(w) PROVE HasRequest'
  BY <1>0, <1>1, <1>3 DEF Disconnect, ProtocolError, Close
<1>4. ASSUME NEW w \in Workers, NEW hs \in Handshakes, HandshakeFrame(w, hs) PROVE HasRequest'
  BY <1>0, <1>1, <1>4 DEF HandshakeFrame, Close
<1>5. ASSUME NEW w \in Workers, NEW b \in Batches, WireBatch(w, b) PROVE HasRequest'
  BY <1>0, <1>1, <1>5 DEF WireBatch, Reject, Proceed
<1>6. ASSUME NEW w \in Workers,
             AcquireSlot(w) \/ AcquireBudget(w) \/ Check(w) \/ ConsumeTokens(w)
      PROVE  HasRequest'
  <2>1. /\ pc[w] \notin Between /\ UNCHANGED <<handshake, batch>>
        /\ \E x : pc' = [pc EXCEPT ![w] = x]
    BY <1>6 DEF AcquireSlot, AcquireBudget, Check, ConsumeTokens, Reject, Proceed
  <2> QED BY <1>0, <1>1, <2>1
<1>7. ASSUME NEW w \in Workers,
             ApplyCommits(w) \/ ApplyFails(w) \/ RecordOutcome(w) \/ ReleaseBudget(w)
      PROVE  HasRequest'
  <2>1. /\ pc[w] \notin Between /\ UNCHANGED <<handshake, batch>>
        /\ \E x : pc' = [pc EXCEPT ![w] = x]
    BY <1>7 DEF ApplyCommits, ApplyFails, RecordOutcome, ReleaseBudget
  <2> QED BY <1>0, <1>1, <2>1
<1>8. ASSUME NEW w \in Workers, ReleaseSlot(w) PROVE HasRequest'
  BY <1>0, <1>1, <1>8 DEF ReleaseSlot, Close
<1>9. CASE \/ \E p \in Peers : Refill(p)
           \/ \E s \in Seqs : LocalWrite(s)
           \/ UNCHANGED vars
  BY <1>0, <1>9 DEF Refill, LocalWrite, vars
<1> QED
  BY <1>2, <1>3, <1>4, <1>5, <1>6, <1>7, <1>8, <1>9 DEF Next, Step

\* A step that neither acquires nor frees a guard leaves the guards alone, and
\* changes the handshake and the position of a worker only consistently.
QuietStep ==
    /\ UNCHANGED <<slot, budget, inflight_wire_batches, peer_batches, total_bytes, peer_bytes>>
    /\ \/ UNCHANGED <<pc, handshake>>
       \/ \E w \in Workers :
            /\ \E x : pc' = [pc EXCEPT ![w] = x]
            /\ \/ pc[w] \in Between /\ pc'[w] \in Between \union {"slot", "record"}
                  /\ \E h : handshake' = [handshake EXCEPT ![w] = h]
               \/ pc[w] \notin Between /\ pc'[w] = "record" /\ UNCHANGED handshake
               \/ pc[w] \in {"check", "rate", "apply", "record"}
                  /\ pc'[w] \in {"rate", "apply", "record", "free_budget"} /\ UNCHANGED handshake

\* The steps that touch a guard are named; all the others are quiet.
LEMMA StepKinds ==
    ASSUME IInv, [Next]_vars
    PROVE  \/ QuietStep
           \/ \E w \in Workers :
                \/ AcquireSlot(w) /\ slot' # slot
                \/ AcquireBudget(w) /\ budget' # budget
                \/ ReleaseBudget(w)
                \/ ReleaseSlot(w)
<1> USE DEF Between, workerVars, budgetVars
<1>0. /\ pc \in [Workers -> Between \union Applying \union {"free_budget", "free_slot"}]
      /\ handshake \in [Workers -> Handshakes \union {NoHandshake}]
      /\ slot \in [Workers -> BOOLEAN] /\ budget \in [Workers -> BOOLEAN]
  BY DEF IInv, TypeOK
<1>1. ASSUME NEW w \in Workers, Connect(w) \/ Disconnect(w) \/ ProtocolError(w)
      PROVE  QuietStep
  BY <1>0, <1>1 DEF Connect, Disconnect, ProtocolError, Close, QuietStep
<1>2. ASSUME NEW w \in Workers, NEW hs \in Handshakes, HandshakeFrame(w, hs) PROVE QuietStep
  BY <1>0, <1>2 DEF HandshakeFrame, Close, QuietStep
<1>3. ASSUME NEW w \in Workers, NEW b \in Batches, WireBatch(w, b) PROVE QuietStep
  BY <1>0, <1>3 DEF WireBatch, Reject, Proceed, QuietStep
<1>4. ASSUME NEW w \in Workers, AcquireSlot(w), slot' = slot PROVE QuietStep
  <2>1. ~slot[w]
    BY <1>4 DEF AcquireSlot, IInv, GuardsHeld
  <2>2. Reject(w) /\ UNCHANGED <<inflight_wire_batches, slot>>
    BY <1>0, <1>4, <2>1 DEF AcquireSlot
  <2> QED BY <1>0, <1>4, <2>2 DEF AcquireSlot, Reject, QuietStep
<1>5. ASSUME NEW w \in Workers, AcquireBudget(w), budget' = budget PROVE QuietStep
  <2>1. ~budget[w]
    BY <1>5 DEF AcquireBudget, IInv, GuardsHeld
  <2>2. Reject(w) /\ UNCHANGED <<total_bytes, peer_batches, peer_bytes, budget>>
    BY <1>0, <1>5, <2>1 DEF AcquireBudget
  <2> QED BY <1>0, <1>5, <2>2 DEF AcquireBudget, Reject, QuietStep
<1>6. ASSUME NEW w \in Workers, Check(w) \/ ConsumeTokens(w) PROVE QuietStep
  BY <1>0, <1>6 DEF Check, ConsumeTokens, Reject, Proceed, QuietStep
<1>7. ASSUME NEW w \in Workers, ApplyCommits(w) \/ ApplyFails(w) \/ RecordOutcome(w)
      PROVE  QuietStep
  BY <1>0, <1>7 DEF ApplyCommits, ApplyFails, RecordOutcome, QuietStep
<1>8. CASE \/ \E p \in Peers : Refill(p)
           \/ \E s \in Seqs : LocalWrite(s)
           \/ UNCHANGED vars
  BY <1>8 DEF Refill, LocalWrite, vars, QuietStep
<1> QED
  BY <1>1, <1>2, <1>3, <1>4, <1>5, <1>6, <1>7, <1>8 DEF Next, Step

\* Guards are held only where the code can hold them.
LEMMA GuardsStep ==
    ASSUME IInv, [Next]_vars
    PROVE  GuardsHeld'
<1> USE DEF Between, GuardsHeld
<1>0. /\ pc \in [Workers -> Between \union Applying \union {"free_budget", "free_slot"}]
      /\ slot \in [Workers -> BOOLEAN] /\ budget \in [Workers -> BOOLEAN]
      /\ GuardsHeld
  BY DEF IInv, TypeOK
<1>1. CASE QuietStep
  BY <1>0, <1>1 DEF QuietStep
<1>2. ASSUME NEW w \in Workers, AcquireSlot(w), slot' # slot PROVE GuardsHeld'
  <2>1. /\ pc[w] = "slot" /\ pc' = [pc EXCEPT ![w] = "budget"]
        /\ slot' = [slot EXCEPT ![w] = TRUE] /\ budget' = budget
    BY <1>2 DEF AcquireSlot, Proceed
  <2> QED BY <1>0, <2>1
<1>3. ASSUME NEW w \in Workers, AcquireBudget(w), budget' # budget PROVE GuardsHeld'
  <2>1. /\ pc[w] = "budget" /\ pc' = [pc EXCEPT ![w] = "check"]
        /\ budget' = [budget EXCEPT ![w] = TRUE] /\ slot' = slot
    BY <1>3 DEF AcquireBudget, Proceed
  <2>2. slot[w]
    BY <1>0, <2>1
  <2> QED BY <1>0, <2>1, <2>2
<1>4. ASSUME NEW w \in Workers, ReleaseBudget(w) PROVE GuardsHeld'
  BY <1>0, <1>4 DEF ReleaseBudget
<1>5. ASSUME NEW w \in Workers, ReleaseSlot(w) PROVE GuardsHeld'
  BY <1>0, <1>5 DEF ReleaseSlot, Close
<1> QED BY <1>1, <1>2, <1>3, <1>4, <1>5, StepKinds

\* The workers holding a share of the wire budget of peer p, one more or less.
LEMMA ShareTaken ==
    ASSUME NEW w \in Workers, TypeOK, ~budget[w], UNCHANGED handshake,
           budget' = [budget EXCEPT ![w] = TRUE]
    PROVE  /\ Cardinality(BudgetHolders(Peer(w))') = Cardinality(BudgetHolders(Peer(w))) + 1
           /\ \A p \in Peers : p # Peer(w) => BudgetHolders(p)' = BudgetHolders(p)
<1>1. /\ BudgetHolders(Peer(w))' = BudgetHolders(Peer(w)) \union {w}
      /\ w \notin BudgetHolders(Peer(w))
      /\ \A p \in Peers : p # Peer(w) => BudgetHolders(p)' = BudgetHolders(p)
  BY DEF BudgetHolders, Peer, TypeOK
<1>2. IsFiniteSet(BudgetHolders(Peer(w)))
  BY HoldersFinite DEF BudgetHolders
<1> QED BY <1>1, <1>2, FS_AddElement

\* A worker gives its share of its peer's budget back.
LEMMA ShareFreed ==
    ASSUME NEW w \in Workers, TypeOK, budget[w], UNCHANGED handshake,
           budget' = [budget EXCEPT ![w] = FALSE]
    PROVE  /\ Cardinality(BudgetHolders(Peer(w))') = Cardinality(BudgetHolders(Peer(w))) - 1
           /\ Cardinality(BudgetHolders(Peer(w))) >= 1
           /\ \A p \in Peers : p # Peer(w) => BudgetHolders(p)' = BudgetHolders(p)
<1>1. /\ BudgetHolders(Peer(w))' = BudgetHolders(Peer(w)) \ {w}
      /\ w \in BudgetHolders(Peer(w))
      /\ \A p \in Peers : p # Peer(w) => BudgetHolders(p)' = BudgetHolders(p)
  BY DEF BudgetHolders, Peer, TypeOK
<1>2. /\ IsFiniteSet(BudgetHolders(Peer(w))) /\ Cardinality(BudgetHolders(Peer(w))) \in Nat
      /\ IsFiniteSet(BudgetHolders(Peer(w))') /\ Cardinality(BudgetHolders(Peer(w))') \in Nat
  BY HoldersFinite DEF BudgetHolders
<1>3. Cardinality(BudgetHolders(Peer(w))') = Cardinality(BudgetHolders(Peer(w))) - 1
  BY <1>1, <1>2, FS_RemoveElement
<1> QED BY <1>1, <1>2, <1>3

\* The counters keep counting the holders.
LEMMA CountersStep ==
    ASSUME IInv, [Next]_vars
    PROVE  CountersMatchHolders'
<1>0. /\ TypeOK /\ GuardsHeld /\ GuardsHeld'
      /\ inflight_wire_batches = Cardinality(SlotHolders)
      /\ \A p \in Peers : peer_batches[p] = Cardinality(BudgetHolders(p))
  BY GuardsStep DEF IInv, CountersMatchHolders
<1> SUFFICES /\ inflight_wire_batches' = Cardinality(SlotHolders')
             /\ \A p \in Peers : peer_batches'[p] = Cardinality(BudgetHolders(p)')
  BY <1>0 DEF CountersMatchHolders, GuardsHeld, Between
<1>a. ASSUME slot' = slot PROVE SlotHolders' = SlotHolders
  BY <1>a DEF SlotHolders
<1>b. ASSUME budget' = budget, \A w \in Workers : budget[w] => handshake'[w] = handshake[w]
      PROVE  \A p \in Peers : BudgetHolders(p)' = BudgetHolders(p)
  BY <1>b DEF BudgetHolders, Peer
<1>1. CASE QuietStep
  <2>1. \A w \in Workers : budget[w] => handshake'[w] = handshake[w]
    BY <1>0, <1>1 DEF QuietStep, GuardsHeld, Between, TypeOK
  <2> QED BY <1>0, <1>1, <1>a, <1>b, <2>1 DEF QuietStep
<1>2. ASSUME NEW w \in Workers, AcquireSlot(w), slot' # slot
      PROVE  /\ inflight_wire_batches' = Cardinality(SlotHolders')
             /\ \A p \in Peers : peer_batches'[p] = Cardinality(BudgetHolders(p)')
  <2>1. /\ ~slot[w] /\ slot' = [slot EXCEPT ![w] = TRUE]
        /\ inflight_wire_batches' = inflight_wire_batches + 1
        /\ UNCHANGED <<budget, handshake, peer_batches>>
    BY <1>0, <1>2 DEF AcquireSlot, GuardsHeld
  <2> QED BY <1>0, <1>b, <2>1, SlotTaken
<1>3. ASSUME NEW w \in Workers, AcquireBudget(w), budget' # budget
      PROVE  /\ inflight_wire_batches' = Cardinality(SlotHolders')
             /\ \A p \in Peers : peer_batches'[p] = Cardinality(BudgetHolders(p)')
  <2>1. /\ ~budget[w] /\ budget' = [budget EXCEPT ![w] = TRUE]
        /\ peer_batches' = [peer_batches EXCEPT ![Peer(w)] = @ + 1]
        /\ UNCHANGED <<slot, handshake, inflight_wire_batches>>
    BY <1>0, <1>3 DEF AcquireBudget, GuardsHeld
  <2>2. Peer(w) \in Peers
    BY <1>3, RequestType DEF AcquireBudget
  <2>3. /\ Cardinality(BudgetHolders(Peer(w))') = Cardinality(BudgetHolders(Peer(w))) + 1
        /\ \A p \in Peers : p # Peer(w) => BudgetHolders(p)' = BudgetHolders(p)
    BY <1>0, <2>1, ShareTaken
  <2>4. Peer(w)' = Peer(w) /\ peer_batches \in [Peers -> Nat]
    BY <1>0, <2>1 DEF Peer, TypeOK
  <2> QED BY <1>0, <1>a, <2>1, <2>2, <2>3, <2>4
<1>4. ASSUME NEW w \in Workers, ReleaseBudget(w)
      PROVE  /\ inflight_wire_batches' = Cardinality(SlotHolders')
             /\ \A p \in Peers : peer_batches'[p] = Cardinality(BudgetHolders(p)')
  <2>1. /\ budget' = [budget EXCEPT ![w] = FALSE]
        /\ UNCHANGED <<slot, handshake, inflight_wire_batches>>
    BY <1>4 DEF ReleaseBudget
  <2>2. Peer(w) \in Peers /\ Peer(w)' = Peer(w) /\ peer_batches \in [Peers -> Nat]
    BY <1>0, <1>4, <2>1, RequestType DEF ReleaseBudget, Peer, TypeOK, Between
  <2>3. CASE budget[w]
    <3>1. peer_batches' = [peer_batches EXCEPT ![Peer(w)] = Less(@, 1)]
      BY <1>4, <2>3 DEF ReleaseBudget
    <3>2. /\ Cardinality(BudgetHolders(Peer(w))') = Cardinality(BudgetHolders(Peer(w))) - 1
          /\ Cardinality(BudgetHolders(Peer(w))) >= 1
          /\ \A p \in Peers : p # Peer(w) => BudgetHolders(p)' = BudgetHolders(p)
      BY <1>0, <2>1, <2>3, ShareFreed
    <3>3. peer_batches'[Peer(w)] = peer_batches[Peer(w)] - 1
      BY <1>0, <2>2, <3>1, <3>2 DEF Less
    <3> QED BY <1>0, <1>a, <2>1, <2>2, <3>1, <3>2, <3>3
  <2>4. CASE ~budget[w]
    <3>1. peer_batches' = peer_batches /\ budget' = budget
      BY <1>0, <1>4, <2>4 DEF ReleaseBudget, TypeOK
    <3> QED BY <1>0, <1>a, <1>b, <2>1, <3>1
  <2> QED BY <2>3, <2>4
<1>5. ASSUME NEW w \in Workers, ReleaseSlot(w)
      PROVE  /\ inflight_wire_batches' = Cardinality(SlotHolders')
             /\ \A p \in Peers : peer_batches'[p] = Cardinality(BudgetHolders(p)')
  <2>1. /\ slot' = [slot EXCEPT ![w] = FALSE] /\ UNCHANGED <<budget, peer_batches>>
        /\ inflight_wire_batches' = inflight_wire_batches - (IF slot[w] THEN 1 ELSE 0)
    BY <1>5 DEF ReleaseSlot
  <2>2. \A v \in Workers : budget[v] => handshake'[v] = handshake[v]
    BY <1>0, <1>5 DEF ReleaseSlot, Close, GuardsHeld, TypeOK
  <2>3. inflight_wire_batches' = Cardinality(SlotHolders')
    <3>1. CASE slot[w]
      BY <1>0, <2>1, <3>1, SlotFreed
    <3>2. CASE ~slot[w]
      <4>1. slot' = slot
        BY <1>0, <2>1, <3>2 DEF TypeOK
      <4> QED BY <1>0, <1>a, <2>1, <3>2, <4>1 DEF TypeOK
    <3> QED BY <3>1, <3>2
  <2> QED BY <1>0, <1>b, <2>1, <2>2, <2>3
<1> QED BY <1>1, <1>2, <1>3, <1>4, <1>5, StepKinds

-----------------------------------------------------------------------------
(* Theorems *)

\* The initial state satisfies the inductive invariant.
LEMMA InitInvariant ==
    Init => IInv
<1> SUFFICES ASSUME Init PROVE IInv
  OBVIOUS
<1>1. TypeOK
  BY SyncIngressAssumption, RejectedType DEF Init, TypeOK, Between, Applying
<1>2. HasRequest /\ GuardsHeld
  BY DEF Init, HasRequest, GuardsHeld, Between
<1>3. SlotHolders = {} /\ \A p \in Peers : BudgetHolders(p) = {}
  BY DEF Init, SlotHolders, BudgetHolders
<1>4. CountersMatchHolders
  BY <1>3, FS_EmptySet DEF Init, CountersMatchHolders
<1> QED BY <1>1, <1>2, <1>4 DEF IInv

\* The invariant of apply_wire_batch is inductive.
LEMMA Invariance ==
    Spec => []IInv
<1>1. IInv /\ [Next]_vars => IInv'
  BY TypeStep, RequestStep, GuardsStep, CountersStep DEF IInv
<1> QED BY <1>1, InitInvariant, PTL DEF Spec

\* The state of the ingress, with the rate-limit buckets between empty and the
\* burst, is well formed for any peers, batches and limits.
THEOREM TypeCorrect == Spec => []TypeOK
<1>1. IInv => TypeOK
  BY DEF IInv
<1> QED BY <1>1, Invariance, PTL

\* However many workers apply batches at once, and by whichever path each
\* leaves apply_wire_batch, the in-flight counters count the held guards.
THEOREM CountersExact == Spec => []CountersMatchHolders
<1>1. IInv => CountersMatchHolders
  BY DEF IInv
<1> QED BY <1>1, Invariance, PTL

\* No interleaving of workers puts more batches or bytes in flight, in all or
\* for one peer, than read_ingress_limits allows.
THEOREM LimitsHold == Spec => []WithinLimits
<1>1. Init => WithinLimits
  BY SyncIngressAssumption DEF Init, WithinLimits
<1>2. ASSUME IInv, WithinLimits, [Next]_vars PROVE WithinLimits'
  <2> USE DEF WithinLimits
  <2>0. /\ inflight_wire_batches \in Nat /\ total_bytes \in Nat
        /\ peer_batches \in [Peers -> Nat] /\ peer_bytes \in [Peers -> Nat]
        /\ max_inflight_wire_batches \in Nat
        /\ max_inflight_wire_bytes \in Nat /\ max_inflight_wire_bytes_per_peer \in Nat
        /\ max_inflight_wire_batches_per_peer \in Nat
    BY <1>2, SyncIngressAssumption DEF IInv, TypeOK
  <2>1. CASE QuietStep
    BY <1>2, <2>1 DEF QuietStep
  <2>2. ASSUME NEW w \in Workers, AcquireSlot(w) PROVE WithinLimits'
    <3>1. /\ UNCHANGED <<total_bytes, peer_batches, peer_bytes>>
          /\ \/ UNCHANGED inflight_wire_batches
             \/ /\ inflight_wire_batches < max_inflight_wire_batches
                /\ inflight_wire_batches' = inflight_wire_batches + 1
      BY <2>2 DEF AcquireSlot
    <3> QED BY <1>2, <2>0, <3>1
  <2>3. ASSUME NEW w \in Workers, AcquireBudget(w) PROVE WithinLimits'
    <3>1. Peer(w) \in Peers /\ batch[w].bytes \in Nat
      BY <1>2, <2>3, RequestType DEF AcquireBudget, Between
    <3>2. /\ UNCHANGED inflight_wire_batches
          /\ \/ UNCHANGED <<total_bytes, peer_batches, peer_bytes>>
             \/ /\ WithinWireBudget(Peer(w), batch[w].bytes)
                /\ total_bytes' = total_bytes + batch[w].bytes
                /\ peer_batches' = [peer_batches EXCEPT ![Peer(w)] = @ + 1]
                /\ peer_bytes' = [peer_bytes EXCEPT ![Peer(w)] = @ + batch[w].bytes]
      BY <2>3 DEF AcquireBudget
    <3> QED BY <1>2, <2>0, <3>1, <3>2 DEF WithinWireBudget
  <2>4. ASSUME NEW w \in Workers, ReleaseBudget(w) PROVE WithinLimits'
    <3>1. Peer(w) \in Peers /\ batch[w].bytes \in Nat
      BY <1>2, <2>4, RequestType DEF ReleaseBudget, Between
    <3>2. /\ UNCHANGED inflight_wire_batches
          /\ \/ UNCHANGED <<total_bytes, peer_batches, peer_bytes>>
             \/ /\ total_bytes' = Less(total_bytes, batch[w].bytes)
                /\ peer_batches' = [peer_batches EXCEPT ![Peer(w)] = Less(@, 1)]
                /\ peer_bytes' = [peer_bytes EXCEPT ![Peer(w)] = Less(@, batch[w].bytes)]
      BY <2>4 DEF ReleaseBudget
    <3> QED BY <1>2, <2>0, <3>1, <3>2 DEF Less
  <2>5. ASSUME NEW w \in Workers, ReleaseSlot(w) PROVE WithinLimits'
    BY <1>2, <2>0, <2>5 DEF ReleaseSlot
  <2> QED BY <1>2, <2>1, <2>2, <2>3, <2>4, <2>5, StepKinds
<1> QED BY <1>1, <1>2, Invariance, PTL DEF Spec

\* A row of the journal is never changed or removed by a step.
LEMMA RowsStay ==
    ASSUME IInv, [Next]_vars, NEW s \in Seqs, journal[s] # NoRow
    PROVE  journal'[s] = journal[s]
<1>1. ASSUME NEW w \in Workers, ApplyCommits(w) PROVE journal'[s] = journal[s]
  BY <1>1 DEF ApplyCommits, Inserted
<1>2. ASSUME NEW t \in Seqs, LocalWrite(t) PROVE journal'[s] = journal[s]
  <2>1. journal[t] = NoRow /\ journal' = [journal EXCEPT ![t] = LocalChecksum]
    BY <1>2 DEF LocalWrite, Seqs
  <2> QED BY <2>1 DEF IInv, TypeOK
<1>3. CASE UNCHANGED journal
  BY <1>3
<1> QED
  BY <1>1, <1>2, <1>3
  DEF Next, Step, vars, Connect, Disconnect, ProtocolError, HandshakeFrame, WireBatch,
      AcquireSlot, AcquireBudget, Check, ConsumeTokens, ApplyFails, RecordOutcome,
      ReleaseBudget, ReleaseSlot, Refill

\* After a commit the journal holds every entry of the batch as it was sent.
LEMMA CommitInserts ==
    ASSUME IInv, NEW w \in Workers, ApplyCommits(w), NEW i \in DOMAIN batch[w].entries
    PROVE  journal'[batch[w].entries[i].seq] = batch[w].entries[i].checksum
<1> DEFINE es == batch[w].entries
           s == es[i].seq
           k == CHOOSE j \in DOMAIN es : es[j].seq = s
<1>1. batch[w] \in Batches
  BY RequestType DEF ApplyCommits, Between
<1>2. DOMAIN es = 1 .. Len(es) /\ Len(es) \in Nat /\ s \in Seqs
  BY <1>1, EntryType
<1>3. /\ \A j \in DOMAIN es : Insertable(es, j)
      /\ journal' = Inserted(es)
  BY DEF ApplyCommits
<1>4. CASE journal[s] # NoRow
  BY <1>2, <1>3, <1>4 DEF Insertable, Inserted
<1>5. CASE journal[s] = NoRow
  <2>1. k \in DOMAIN es /\ es[k].seq = s
    OBVIOUS
  <2>2. journal'[s] = es[k].checksum
    BY <1>2, <1>3, <1>5, <2>1 DEF Inserted
  <2> HIDE DEF k
  <2>3. k < i \/ k = i \/ i < k
    BY <1>2, <2>1
  <2>4. es[k].checksum = es[i].checksum
    <3>1. CASE k < i
      BY <1>2, <1>3, <2>1, <3>1 DEF Insertable
    <3>2. CASE i < k
      BY <1>2, <1>3, <2>1, <3>2 DEF Insertable
    <3> QED BY <2>3, <3>1, <3>2
  <2> QED BY <2>2, <2>4
<1> QED BY <1>4, <1>5

\* What a step does to the journal: nothing, a local row, or a whole batch.
WholeBatch(w) ==
    LET es == batch[w].entries
    IN  /\ pc[w] = "apply" /\ pc'[w] = "record" /\ result'[w].success
        /\ \A i \in DOMAIN es : journal'[es[i].seq] = es[i].checksum
        /\ \A s \in Seqs : journal'[s] # journal[s] => \E i \in DOMAIN es : es[i].seq = s

\* A step that changes the journal is a local write or the commit of a batch
\* whose worker goes on to record a success.
LEMMA JournalStep ==
    ASSUME IInv, [Next]_vars, journal' # journal
    PROVE  \/ pc' = pc /\ \E s \in Seqs : journal' = [journal EXCEPT ![s] = LocalChecksum]
           \/ \E w \in Workers : WholeBatch(w)
<1>1. ASSUME NEW w \in Workers, ApplyCommits(w)
      PROVE  WholeBatch(w)
  <2>1. pc[w] = "apply" /\ pc'[w] = "record"
    BY <1>1 DEF ApplyCommits, IInv, TypeOK
  <2>2. PICK s : result' = [result EXCEPT ![w] = [success |-> TRUE, applied_up_to_seq |-> s]]
    BY <1>1 DEF ApplyCommits
  <2>3. result'[w] = [success |-> TRUE, applied_up_to_seq |-> s]
    BY <2>2 DEF IInv, TypeOK
  <2>4. \A i \in DOMAIN batch[w].entries :
          journal'[batch[w].entries[i].seq] = batch[w].entries[i].checksum
    BY <1>1, CommitInserts
  <2>5. \A t \in Seqs : journal'[t] # journal[t] =>
          \E i \in DOMAIN batch[w].entries : batch[w].entries[i].seq = t
    BY <1>1 DEF ApplyCommits, Inserted
  <2> QED BY <2>1, <2>3, <2>4, <2>5 DEF WholeBatch
<1>2. ASSUME NEW t \in Seqs, LocalWrite(t)
      PROVE  pc' = pc /\ journal' = [journal EXCEPT ![t] = LocalChecksum]
  BY <1>2 DEF LocalWrite, workerVars
<1> QED
  BY <1>1, <1>2
  DEF Next, Step, vars, Connect, Disconnect, ProtocolError, HandshakeFrame, WireBatch,
      AcquireSlot, AcquireBudget, Check, ConsumeTokens, ApplyFails, RecordOutcome,
      ReleaseBudget, ReleaseSlot, Refill

\* No interleaving of workers and local writes changes or removes a row of the
\* journal; an accepted batch is put there whole and alone; and a batch that is
\* rejected, at whichever entry, leaves no row.
THEOREM JournalGrowsWhole == Spec => JournalGrowsByWholeBatches
<1>1. ASSUME IInv, [Next]_vars
      PROVE  /\ \A s \in Seqs : journal[s] # NoRow => journal'[s] = journal[s]
             /\ journal' # journal =>
                  \/ pc' = pc /\ \E s \in Seqs : journal' = [journal EXCEPT ![s] = LocalChecksum]
                  \/ \E w \in Workers : WholeBatch(w)
  BY <1>1, RowsStay, JournalStep
<1> QED BY <1>1, Invariance, PTL DEF Spec, JournalGrowsByWholeBatches, WholeBatch

\* A batch that is reported as accepted is in the journal with the checksums
\* it was sent with, until its worker returns, whatever the other workers and
\* the local triggers write meanwhile.
THEOREM AcceptedIsJournaled == Spec => []AcceptedBatchIsJournaled
<1> DEFINE Done == {"record", "free_budget", "free_slot"}
<1>1. Init => AcceptedBatchIsJournaled
  BY DEF Init, AcceptedBatchIsJournaled
<1>2. ASSUME IInv, AcceptedBatchIsJournaled, [Next]_vars PROVE AcceptedBatchIsJournaled'
  <2> SUFFICES ASSUME NEW v \in Workers, pc'[v] \in Done, result'[v].success,
                      NEW i \in DOMAIN batch'[v].entries
               PROVE  journal'[batch'[v].entries[i].seq] = batch'[v].entries[i].checksum
    BY DEF AcceptedBatchIsJournaled
  <2>0. /\ pc \in [Workers -> Between \union Applying \union {"free_budget", "free_slot"}]
        /\ batch \in [Workers -> Batches \union {NoBatch}]
        /\ result \in [Workers -> [success : BOOLEAN, applied_up_to_seq : {0} \union Seqs]]
        /\ HasRequest
    BY <1>2 DEF IInv, TypeOK
  <2>1. CASE pc[v] \in Done /\ result[v].success /\ batch'[v] = batch[v]
    <3>1. journal[batch[v].entries[i].seq] = batch[v].entries[i].checksum
      BY <1>2, <2>1 DEF AcceptedBatchIsJournaled
    <3>2. /\ batch[v].entries[i].seq \in Seqs
          /\ batch[v].entries[i].checksum \in Checksums
      BY <2>0, <2>1, EntryType DEF HasRequest, Between
    <3>3. batch[v].entries[i].checksum # NoRow
      BY <3>2, SyncIngressAssumption
    <3> QED BY <1>2, <2>1, <3>1, <3>2, <3>3, RowsStay
  <2>2. CASE ApplyCommits(v)
    BY <1>2, <2>2, CommitInserts DEF ApplyCommits
  <2>3. \/ pc[v] \in Done /\ result[v].success /\ batch'[v] = batch[v]
        \/ ApplyCommits(v)
    <3> USE DEF Between, workerVars, Rejected
    <3>1. CASE UNCHANGED <<pc, result, batch>>
      BY <3>1
    <3>2. ASSUME NEW w \in Workers, Connect(w) \/ Disconnect(w) \/ ProtocolError(w)
          PROVE  pc[v] \in Done /\ result[v].success /\ batch'[v] = batch[v]
      BY <2>0, <3>2 DEF Connect, Disconnect, ProtocolError, Close
    <3>3. ASSUME NEW w \in Workers, NEW hs \in Handshakes, HandshakeFrame(w, hs)
          PROVE  pc[v] \in Done /\ result[v].success /\ batch'[v] = batch[v]
      BY <2>0, <3>3 DEF HandshakeFrame, Close
    <3>4. ASSUME NEW w \in Workers, NEW b \in Batches, WireBatch(w, b)
          PROVE  pc[v] \in Done /\ result[v].success /\ batch'[v] = batch[v]
      BY <2>0, <3>4 DEF WireBatch, Reject, Proceed
    <3>5. ASSUME NEW w \in Workers,
                 AcquireSlot(w) \/ AcquireBudget(w) \/ Check(w) \/ ConsumeTokens(w)
          PROVE  pc[v] \in Done /\ result[v].success /\ batch'[v] = batch[v]
      BY <2>0, <3>5 DEF AcquireSlot, AcquireBudget, Check, ConsumeTokens, Reject, Proceed
    <3>6. ASSUME NEW w \in Workers, ApplyCommits(w)
          PROVE  \/ pc[v] \in Done /\ result[v].success /\ batch'[v] = batch[v]
                 \/ ApplyCommits(v)
      BY <2>0, <3>6 DEF ApplyCommits
    <3>7. ASSUME NEW w \in Workers, ApplyFails(w) \/ RecordOutcome(w) \/ ReleaseBudget(w)
          PROVE  pc[v] \in Done /\ result[v].success /\ batch'[v] = batch[v]
      BY <2>0, <3>7 DEF ApplyFails, RecordOutcome, ReleaseBudget
    <3>8. ASSUME NEW w \in Workers, ReleaseSlot(w)
          PROVE  pc[v] \in Done /\ result[v].success /\ batch'[v] = batch[v]
      BY <2>0, <3>8 DEF ReleaseSlot, Close
    <3>9. CASE (\E p \in Peers : Refill(p)) \/ (\E s \in Seqs : LocalWrite(s)) \/ UNCHANGED vars
      BY <3>1, <3>9 DEF Refill, LocalWrite, vars
    <3> QED
      BY <1>2, <3>2, <3>3, <3>4, <3>5, <3>6, <3>7, <3>8, <3>9 DEF Next, Step
  <2> QED BY <2>1, <2>2, <2>3
<1> QED BY <1>1, <1>2, Invariance, PTL DEF Spec

-----------------------------------------------------------------------------
(* The ledgers *)

\* A nonempty set of natural numbers has a least element.
LEMMA LeastNumber ==
    ASSUME NEW T, T \subseteq Nat, T # {}
    PROVE  \E x \in T : \A y \in T : x <= y
<1>1. IsWellFoundedOn(OpToRel(<,Nat), Nat)
  BY NatLessThanWellFounded
<1>2. PICK x \in T : \A y \in T : ~ (<<y, x>> \in OpToRel(<,Nat))
  BY <1>1, WFMin
<1>3. \A y \in T : ~ (y < x)
  BY <1>2 DEF OpToRel
<1> QED BY <1>3

\* The element that MapThenSumSet takes out first.
One(T) == CHOOSE x \in T : TRUE

\* A function that adds up the bytes of b over the subsets of S.
IsSum(g, b, S) ==
    g = [T \in SUBSET S |-> IF T = {} THEN 0 ELSE b[One(T)].bytes + g[T \ {One(T)}]]

\* The one that MapThenSumSet defines, and the sum.
SumOver(b, S) == CHOOSE g : IsSum(g, b, S)
Bytes(b, S) == SumOver(b, S)[S]

\* It is an element.
LEMMA OneIn == ASSUME NEW T, T # {} PROVE One(T) \in T
  BY DEF One

\* A finite set without one of its elements.
LEMMA LessOne ==
    ASSUME NEW T, IsFiniteSet(T), NEW x \in T
    PROVE  /\ IsFiniteSet(T \ {x}) /\ Cardinality(T) \in Nat /\ Cardinality(T \ {x}) \in Nat
           /\ Cardinality(T \ {x}) = Cardinality(T) - 1
  BY FS_RemoveElement, FS_CardinalityType

\* How such a function adds up.
LEMMA SumRule ==
    ASSUME NEW g, NEW b, NEW S, IsSum(g, b, S), NEW T \in SUBSET S
    PROVE  /\ T = {} => g[T] = 0
           /\ T # {} => g[T] = b[One(T)].bytes + g[T \ {One(T)}]
  BY DEF IsSum

\* Two such functions agree where both are defined.
LEMMA SumsAgree ==
    ASSUME NEW g, NEW h, NEW b, NEW S, NEW R, IsSum(g, b, S), IsSum(h, b, R), IsFiniteSet(S),
           NEW T, T \subseteq S, T \subseteq R
    PROVE  g[T] = h[T]
<1> DEFINE Bad == {n \in Nat : \E U : U \subseteq S /\ U \subseteq R /\ Cardinality(U) = n /\ g[U] # h[U]}
<1> SUFFICES ASSUME g[T] # h[T] PROVE FALSE
  OBVIOUS
<1>1. \A U : U \subseteq S => IsFiniteSet(U) /\ Cardinality(U) \in Nat
  BY FS_Subset, FS_CardinalityType
<1>2. Cardinality(T) \in Bad
  BY <1>1
<1>3. PICK n \in Bad : \A k \in Bad : n <= k
  <2>1. Bad \subseteq Nat /\ Bad # {}
    BY <1>2
  <2> HIDE DEF Bad
  <2> QED BY <2>1, LeastNumber
<1>4. PICK U : U \subseteq S /\ U \subseteq R /\ Cardinality(U) = n /\ g[U] # h[U]
  BY <1>3
<1>5. U # {}
  BY <1>4, SumRule
<1> DEFINE c == One(U)
<1>6. c \in U
  BY <1>5, OneIn
<1>7. Cardinality(U \ {c}) = n - 1 /\ n \in Nat /\ n - 1 \in Nat
  BY <1>1, <1>4, <1>6, LessOne
<1>8. g[U] = b[c].bytes + g[U \ {c}] /\ h[U] = b[c].bytes + h[U \ {c}]
  <2>1. U \in SUBSET S /\ U \in SUBSET R
    BY <1>4
  <2>2. g[U] = b[c].bytes + g[U \ {c}]
    BY <1>5, <2>1, SumRule
  <2>3. h[U] = b[c].bytes + h[U \ {c}]
    BY <1>5, <2>1, SumRule
  <2> QED BY <2>2, <2>3
<1>9. U \ {c} \subseteq S /\ U \ {c} \subseteq R
  BY <1>4
<1>10. g[U \ {c}] # h[U \ {c}]
  BY <1>4, <1>8
<1>11. n - 1 \in Bad
  BY <1>7, <1>9, <1>10
<1> QED BY <1>3, <1>7, <1>11

\* There is one for every finite set.
LEMMA SumExists ==
    ASSUME NEW b, NEW S0, IsFiniteSet(S0)
    PROVE  \E g : IsSum(g, b, S0)
<1> DEFINE Bad == {n \in Nat : \E U : IsFiniteSet(U) /\ Cardinality(U) = n /\ ~ \E g : IsSum(g, b, U)}
<1> SUFFICES ASSUME ~ \E g : IsSum(g, b, S0) PROVE FALSE
  OBVIOUS
<1>1. Cardinality(S0) \in Bad
  BY FS_CardinalityType
<1>2. PICK n \in Bad : \A k \in Bad : n <= k
  <2>1. Bad \subseteq Nat /\ Bad # {}
    BY <1>1
  <2> HIDE DEF Bad
  <2> QED BY <2>1, LeastNumber
<1>3. PICK S : IsFiniteSet(S) /\ Cardinality(S) = n /\ ~ \E g : IsSum(g, b, S)
  BY <1>2
<1>4. ASSUME NEW T, T \subseteq S, T # S
      PROVE  IsSum(SumOver(b, T), b, T) /\ IsFiniteSet(T)
  <2>1. IsFiniteSet(T) /\ Cardinality(T) \in Nat /\ Cardinality(T) < n
    BY <1>3, <1>4, FS_Subset, FS_CardinalityType
  <2>2. Cardinality(T) \notin Bad
    BY <1>2, <2>1
  <2>3. \E g : IsSum(g, b, T)
    BY <2>1, <2>2
  <2> QED BY <2>1, <2>3 DEF SumOver
<1>5. ASSUME NEW T, T \subseteq S, T # S
      PROVE  /\ T = {} => Bytes(b, T) = 0
             /\ T # {} => Bytes(b, T) = b[One(T)].bytes + Bytes(b, T \ {One(T)})
  <2>1. IsSum(SumOver(b, T), b, T) /\ IsFiniteSet(T)
    BY <1>4, <1>5
  <2>2. T = {} => Bytes(b, T) = 0
    BY <2>1, SumRule DEF Bytes
  <2>3. ASSUME T # {} PROVE Bytes(b, T) = b[One(T)].bytes + Bytes(b, T \ {One(T)})
    <3> DEFINE R == T \ {One(T)}
    <3>1. R \subseteq S /\ R # S /\ R \subseteq T
      BY <1>5, <2>3, OneIn
    <3>2. IsSum(SumOver(b, R), b, R)
      BY <1>4, <3>1
    <3>3. SumOver(b, T)[R] = SumOver(b, R)[R]
      BY <2>1, <3>1, <3>2, SumsAgree
    <3>4. SumOver(b, T)[T] = b[One(T)].bytes + SumOver(b, T)[R]
      BY <2>1, <2>3, SumRule
    <3> QED BY <3>3, <3>4 DEF Bytes
  <2> QED BY <2>2, <2>3
<1> DEFINE value == IF S = {} THEN 0 ELSE b[One(S)].bytes + Bytes(b, S \ {One(S)})
           h == [T \in SUBSET S |-> IF T = S THEN value ELSE Bytes(b, T)]
<1>6. \A T \in SUBSET S : h[T] = IF T = {} THEN 0 ELSE b[One(T)].bytes + h[T \ {One(T)}]
  <2> SUFFICES ASSUME NEW T \in SUBSET S
               PROVE  h[T] = IF T = {} THEN 0 ELSE b[One(T)].bytes + h[T \ {One(T)}]
    OBVIOUS
  <2>1. T # {} => One(T) \in T /\ T \ {One(T)} \in SUBSET S /\ T \ {One(T)} # S
    BY OneIn
  <2>2. T # {} => h[T \ {One(T)}] = Bytes(b, T \ {One(T)})
    BY <2>1
  <2>3. CASE T = S
    BY <2>2, <2>3
  <2>4. CASE T # S
    <3>1. h[T] = Bytes(b, T)
      BY <2>4
    <3> QED BY <1>5, <2>2, <2>4, <3>1
  <2> QED BY <2>3, <2>4
<1>7. IsSum(h, b, S)
  <2>1. h = [T \in SUBSET S |-> h[T]]
    OBVIOUS
  <2> HIDE DEF h
  <2> QED BY <1>6, <2>1 DEF IsSum
<1> QED BY <1>3, <1>7

\* The sum over a finite set, element by element.
LEMMA BytesRule ==
    ASSUME NEW b, NEW T, IsFiniteSet(T)
    PROVE  /\ T = {} => Bytes(b, T) = 0
           /\ T # {} => Bytes(b, T) = b[One(T)].bytes + Bytes(b, T \ {One(T)})
<1>1. IsSum(SumOver(b, T), b, T)
  BY SumExists DEF SumOver
<1>2. T = {} => Bytes(b, T) = 0
  BY <1>1, SumRule DEF Bytes
<1>3. ASSUME T # {} PROVE Bytes(b, T) = b[One(T)].bytes + Bytes(b, T \ {One(T)})
  <2> DEFINE R == T \ {One(T)}
  <2>1. R \subseteq T /\ IsFiniteSet(R)
    BY FS_Subset
  <2>2. IsSum(SumOver(b, R), b, R)
    BY <2>1, SumExists DEF SumOver
  <2>3. SumOver(b, T)[R] = SumOver(b, R)[R]
    BY <1>1, <2>1, <2>2, SumsAgree
  <2>4. SumOver(b, T)[T] = b[One(T)].bytes + SumOver(b, T)[R]
    BY <1>1, <1>3, SumRule
  <2> QED BY <2>3, <2>4 DEF Bytes
<1> QED BY <1>2, <1>3

\* The sum of natural numbers is one, and the same for the same numbers.
LEMMA BytesType ==
    ASSUME NEW b, NEW c, NEW S, IsFiniteSet(S), \A x \in S : b[x].bytes \in Nat /\ c[x].bytes = b[x].bytes
    PROVE  Bytes(b, S) \in Nat /\ Bytes(c, S) = Bytes(b, S)
<1> DEFINE Good(U) == Bytes(b, U) \in Nat /\ Bytes(c, U) = Bytes(b, U)
           Bad == {n \in Nat : \E U : U \subseteq S /\ Cardinality(U) = n /\ ~Good(U)}
<1> SUFFICES ASSUME ~Good(S) PROVE FALSE
  OBVIOUS
<1>1. \A U : U \subseteq S => IsFiniteSet(U) /\ Cardinality(U) \in Nat
  BY FS_Subset, FS_CardinalityType
<1> HIDE DEF Good
<1>2. Cardinality(S) \in Bad
  BY <1>1
<1>3. PICK n \in Bad : \A k \in Bad : n <= k
  <2>1. Bad \subseteq Nat /\ Bad # {}
    BY <1>2
  <2> HIDE DEF Bad
  <2> QED BY <2>1, LeastNumber
<1>4. PICK U : U \subseteq S /\ Cardinality(U) = n /\ ~Good(U)
  BY <1>3
<1>5. IsFiniteSet(U)
  BY <1>1, <1>4
<1>6. U # {}
  <2>1. U = {} => Bytes(b, U) = 0 /\ Bytes(c, U) = 0
    BY <1>5, BytesRule
  <2> QED BY <1>4, <2>1 DEF Good
<1> DEFINE x == One(U)
<1>7. x \in U /\ x \in S
  BY <1>4, <1>6, OneIn
<1>8. Cardinality(U \ {x}) = n - 1 /\ n \in Nat /\ n - 1 \in Nat
  BY <1>4, <1>5, <1>7, LessOne
<1>9. Good(U \ {x})
  <2>1. n - 1 \notin Bad
    BY <1>3, <1>8
  <2> QED BY <1>4, <1>8, <2>1
<1>10. Bytes(b, U) = b[x].bytes + Bytes(b, U \ {x}) /\ Bytes(c, U) = c[x].bytes + Bytes(c, U \ {x})
  BY <1>5, <1>6, BytesRule
<1> QED BY <1>4, <1>7, <1>9, <1>10 DEF Good

\* Any element can be taken out first.
LEMMA BytesWithout ==
    ASSUME NEW b, NEW S, IsFiniteSet(S), \A x \in S : b[x].bytes \in Nat, NEW y0 \in S
    PROVE  Bytes(b, S) = b[y0].bytes + Bytes(b, S \ {y0})
<1> DEFINE Good(U, y) == Bytes(b, U) = b[y].bytes + Bytes(b, U \ {y})
           Bad == {n \in Nat : \E U : U \subseteq S /\ Cardinality(U) = n /\ \E y \in U : ~Good(U, y)}
<1> SUFFICES ASSUME ~Good(S, y0) PROVE FALSE
  OBVIOUS
<1>1. \A U : U \subseteq S => IsFiniteSet(U) /\ Cardinality(U) \in Nat /\ Bytes(b, U) \in Nat
  <2>1. ASSUME NEW U, U \subseteq S PROVE IsFiniteSet(U) /\ Cardinality(U) \in Nat /\ Bytes(b, U) \in Nat
    <3>1. IsFiniteSet(U)
      BY <2>1, FS_Subset
    <3>2. Bytes(b, U) \in Nat
      BY <2>1, <3>1, BytesType
    <3> QED BY <3>1, <3>2, FS_CardinalityType
  <2> QED BY <2>1
<1> HIDE DEF Good
<1>2. Cardinality(S) \in Bad
  BY <1>1
<1>3. PICK n \in Bad : \A k \in Bad : n <= k
  <2>1. Bad \subseteq Nat /\ Bad # {}
    BY <1>2
  <2> HIDE DEF Bad
  <2> QED BY <2>1, LeastNumber
<1>4. PICK U : U \subseteq S /\ Cardinality(U) = n /\ \E y \in U : ~Good(U, y)
  BY <1>3
<1>5. PICK y \in U : ~Good(U, y)
  BY <1>4
<1>6. IsFiniteSet(U) /\ U # {}
  BY <1>1, <1>4, <1>5
<1> DEFINE x == One(U)
<1>7. x \in U
  BY <1>6, OneIn
<1>8. Bytes(b, U) = b[x].bytes + Bytes(b, U \ {x})
  BY <1>6, BytesRule
<1>9. x # y
  BY <1>5, <1>8 DEF Good
<1>10. /\ Cardinality(U \ {x}) = n - 1 /\ Cardinality(U \ {y}) = n - 1 /\ n \in Nat /\ n - 1 \in Nat
  BY <1>4, <1>5, <1>6, <1>7, LessOne
<1>11. n - 1 \notin Bad
  BY <1>3, <1>10
<1>12. Good(U \ {x}, y) /\ Good(U \ {y}, x)
  BY <1>4, <1>5, <1>7, <1>9, <1>10, <1>11
<1>13. (U \ {x}) \ {y} = (U \ {y}) \ {x}
  OBVIOUS
<1> DEFINE R == (U \ {y}) \ {x}
<1>14. /\ Bytes(b, U \ {x}) = b[y].bytes + Bytes(b, R)
       /\ Bytes(b, U \ {y}) = b[x].bytes + Bytes(b, R)
  BY <1>12, <1>13 DEF Good
<1>15. /\ b[x].bytes \in Nat /\ b[y].bytes \in Nat /\ Bytes(b, R) \in Nat
  BY <1>1, <1>4, <1>5, <1>7
<1> HIDE DEF R
<1>16. Bytes(b, U) = b[y].bytes + Bytes(b, U \ {y})
  BY <1>8, <1>14, <1>15
<1> QED BY <1>5, <1>16 DEF Good

\* The workers with a share of the wire budget.
Holders == {w \in Workers : budget[w]}

\* The bytes of the held batches are those counted, in all and for each peer.
BytesCounted ==
    /\ total_bytes = Bytes(batch, Holders)
    /\ \A p \in Peers : peer_bytes[p] = Bytes(batch, BudgetHolders(p))

\* It is what the property says.
LEMMA BytesAreCounted == BytesMatchHolders <=> BytesCounted
  BY DEF BytesMatchHolders, BytesCounted, Holders, MapThenSumSet, MapThenFoldSet, Bytes, SumOver, IsSum, One

\* A worker with a share of the budget keeps its batch and its handshake.
LEMMA HoldersKeep ==
    ASSUME IInv, [Next]_vars, NEW v \in Workers, budget[v]
    PROVE  batch'[v] = batch[v] /\ handshake'[v] = handshake[v]
<1> USE DEF Between, workerVars
<1>0. /\ batch \in [Workers -> Batches \union {NoBatch}]
      /\ handshake \in [Workers -> Handshakes \union {NoHandshake}]
      /\ pc[v] \notin Between \union {"slot", "budget", "free_slot"}
  BY DEF IInv, TypeOK, GuardsHeld
<1>1. ASSUME NEW w \in Workers, Connect(w) \/ Disconnect(w) \/ ProtocolError(w)
      PROVE  batch'[v] = batch[v] /\ handshake'[v] = handshake[v]
  BY <1>0, <1>1 DEF Connect, Disconnect, ProtocolError, Close
<1>2. ASSUME NEW w \in Workers, NEW hs \in Handshakes, HandshakeFrame(w, hs)
      PROVE  batch'[v] = batch[v] /\ handshake'[v] = handshake[v]
  BY <1>0, <1>2 DEF HandshakeFrame, Close
<1>3. ASSUME NEW w \in Workers, NEW b \in Batches, WireBatch(w, b)
      PROVE  batch'[v] = batch[v] /\ handshake'[v] = handshake[v]
  BY <1>0, <1>3 DEF WireBatch
<1>4. ASSUME NEW w \in Workers, AcquireSlot(w) \/ AcquireBudget(w) \/ Check(w) \/ ConsumeTokens(w)
      PROVE  batch'[v] = batch[v] /\ handshake'[v] = handshake[v]
  BY <1>4 DEF AcquireSlot, AcquireBudget, Check, ConsumeTokens
<1>5. ASSUME NEW w \in Workers, ApplyCommits(w) \/ ApplyFails(w) \/ RecordOutcome(w) \/ ReleaseBudget(w)
      PROVE  batch'[v] = batch[v] /\ handshake'[v] = handshake[v]
  BY <1>5 DEF ApplyCommits, ApplyFails, RecordOutcome, ReleaseBudget
<1>6. ASSUME NEW w \in Workers, ReleaseSlot(w)
      PROVE  batch'[v] = batch[v] /\ handshake'[v] = handshake[v]
  BY <1>0, <1>6 DEF ReleaseSlot, Close
<1>7. CASE \/ \E p \in Peers : Refill(p)
           \/ \E s \in Seqs : LocalWrite(s)
           \/ UNCHANGED vars
  BY <1>7 DEF Refill, LocalWrite, vars
<1> QED BY <1>1, <1>2, <1>3, <1>4, <1>5, <1>6, <1>7 DEF Next, Step

\* What they hold is a number of bytes.
LEMMA HoldersHave ==
    ASSUME IInv, NEW v \in Workers, budget[v]
    PROVE  batch[v].bytes \in Nat
<1>1. batch[v] \in Batches
  BY DEF IInv, GuardsHeld, HasRequest
<1> QED BY <1>1, EntryType

\* The bytes that some of them hold.
LEMMA SharesKept ==
    ASSUME IInv, [Next]_vars, NEW S \in SUBSET Holders
    PROVE  /\ IsFiniteSet(S) /\ Bytes(batch, S) \in Nat /\ Bytes(batch', S) = Bytes(batch, S)
           /\ \A x \in S : batch[x].bytes \in Nat
<1>1. IsFiniteSet(S)
  BY HoldersFinite DEF Holders
<1>2. \A x \in S : x \in Workers /\ budget[x]
  BY DEF Holders
<1>3. \A x \in S : batch[x].bytes \in Nat /\ batch'[x] = batch[x]
  BY <1>2, HoldersKeep, HoldersHave
<1>4. \A x \in S : batch[x].bytes \in Nat /\ batch'[x].bytes = batch[x].bytes
  BY <1>3
<1> QED BY <1>1, <1>3, <1>4, BytesType

\* A worker acquires its share.
LEMMA BytesTaken ==
    ASSUME NEW b, NEW S, IsFiniteSet(S), NEW w, w \notin S, \A x \in S \union {w} : b[x].bytes \in Nat
    PROVE  Bytes(b, S \union {w}) = Bytes(b, S) + b[w].bytes
<1>1. IsFiniteSet(S \union {w})
  BY FS_AddElement
<1>2. Bytes(b, S \union {w}) = b[w].bytes + Bytes(b, (S \union {w}) \ {w})
  BY <1>1, BytesWithout
<1>3. (S \union {w}) \ {w} = S
  OBVIOUS
<1>4. Bytes(b, S) \in Nat /\ b[w].bytes \in Nat
  <2>1. \A x \in S : b[x].bytes \in Nat /\ b[x].bytes = b[x].bytes
    OBVIOUS
  <2>2. Bytes(b, S) \in Nat
    BY <2>1, BytesType
  <2> QED BY <2>2
<1>5. Bytes(b, (S \union {w}) \ {w}) = Bytes(b, S)
  BY <1>3
<1>6. Bytes(b, S \union {w}) = b[w].bytes + Bytes(b, S)
  BY <1>2, <1>5
<1> QED BY <1>4, <1>6

\* Every step keeps the count of bytes; the saturating subtraction never saturates.
LEMMA BytesStep ==
    ASSUME IInv, BytesCounted, [Next]_vars
    PROVE  BytesCounted'
<1>0. /\ TypeOK /\ GuardsHeld
      /\ total_bytes = Bytes(batch, Holders)
      /\ \A p \in Peers : peer_bytes[p] = Bytes(batch, BudgetHolders(p))
      /\ peer_bytes \in [Peers -> Nat] /\ budget \in [Workers -> BOOLEAN]
  BY DEF IInv, BytesCounted, TypeOK
<1>1. \A p : BudgetHolders(p) \in SUBSET Holders /\ Holders \in SUBSET Holders
  BY DEF BudgetHolders, Holders
<1>2. \A w \in Workers : budget[w] => handshake'[w] = handshake[w]
  BY HoldersKeep
<1>3. CASE budget' = budget /\ UNCHANGED <<total_bytes, peer_bytes>>
  <2>1. Holders' = Holders /\ \A p \in Peers : BudgetHolders(p)' = BudgetHolders(p)
    BY <1>2, <1>3 DEF Holders, BudgetHolders, Peer
  <2>2. Bytes(batch', Holders) = Bytes(batch, Holders)
    BY <1>1, SharesKept
  <2>3. \A p \in Peers : Bytes(batch', BudgetHolders(p)) = Bytes(batch, BudgetHolders(p))
    BY <1>1, SharesKept
  <2> QED BY <1>0, <1>3, <2>1, <2>2, <2>3 DEF BytesCounted
<1>4. ASSUME NEW w \in Workers, AcquireBudget(w), budget' # budget PROVE BytesCounted'
  <2>0. Peer(w) \in Peers /\ batch[w].bytes \in Nat
    BY <1>4, RequestType DEF AcquireBudget, Between
  <2>p. PICK p \in Peers : p = Peer(w)
    BY <2>0
  <2>n. PICK n \in Nat : n = batch[w].bytes
    BY <2>0
  <2>1. /\ ~budget[w] /\ budget' = [budget EXCEPT ![w] = TRUE]
        /\ total_bytes' = total_bytes + n
        /\ peer_bytes' = [peer_bytes EXCEPT ![p] = @ + n]
        /\ UNCHANGED <<handshake, batch>>
    BY <1>0, <1>4, <2>p, <2>n DEF AcquireBudget, GuardsHeld
  <2>2. p \in Peers /\ n \in Nat
    OBVIOUS
  <2>3. /\ Holders' = Holders \union {w} /\ w \notin Holders
        /\ BudgetHolders(p)' = BudgetHolders(p) \union {w} /\ w \notin BudgetHolders(p)
        /\ \A q \in Peers : q # p => BudgetHolders(q)' = BudgetHolders(q)
    BY <1>0, <2>1, <2>p DEF Holders, BudgetHolders, Peer
  <2>4. /\ IsFiniteSet(Holders) /\ IsFiniteSet(BudgetHolders(p))
        /\ (\A x \in Holders : batch[x].bytes \in Nat) /\ \A x \in BudgetHolders(p) : batch[x].bytes \in Nat
    BY <1>1, SharesKept
  <2>5. Bytes(batch, Holders \union {w}) = Bytes(batch, Holders) + n
    BY <2>2, <2>3, <2>4, BytesTaken, <2>n
  <2>6. Bytes(batch, BudgetHolders(p) \union {w}) = Bytes(batch, BudgetHolders(p)) + n
    BY <2>2, <2>3, <2>4, BytesTaken, <2>n
  <2>7. total_bytes' = Bytes(batch', Holders')
    BY <1>0, <2>1, <2>3, <2>5
  <2>8. ASSUME NEW q \in Peers PROVE peer_bytes'[q] = Bytes(batch', BudgetHolders(q)')
    <3>1. CASE q = p
      <4>1. peer_bytes'[p] = peer_bytes[p] + n
        BY <1>0, <2>1, <2>2
      <4>2. peer_bytes'[p] = Bytes(batch, BudgetHolders(p) \union {w})
        BY <1>0, <2>2, <2>6, <4>1
      <4> QED BY <2>1, <2>3, <3>1, <4>2
    <3>2. CASE q # p
      BY <1>0, <2>1, <2>2, <2>3, <3>2
    <3> QED BY <3>1, <3>2
  <2> QED BY <2>7, <2>8 DEF BytesCounted
<1>5. ASSUME NEW w \in Workers, ReleaseBudget(w), budget[w] PROVE BytesCounted'
  <2>0. Peer(w) \in Peers /\ batch[w].bytes \in Nat
    BY <1>5, RequestType DEF ReleaseBudget, Between
  <2>p. PICK p \in Peers : p = Peer(w)
    BY <2>0
  <2>n. PICK n \in Nat : n = batch[w].bytes
    BY <2>0
  <2>1. /\ budget' = [budget EXCEPT ![w] = FALSE]
        /\ total_bytes' = Less(total_bytes, n)
        /\ peer_bytes' = [peer_bytes EXCEPT ![p] = Less(@, n)]
        /\ UNCHANGED <<handshake, batch>>
    BY <1>5, <2>p, <2>n DEF ReleaseBudget
  <2>2. p \in Peers /\ n \in Nat
    OBVIOUS
  <2>3. /\ Holders' = Holders \ {w} /\ w \in Holders
        /\ BudgetHolders(p)' = BudgetHolders(p) \ {w} /\ w \in BudgetHolders(p)
        /\ \A q \in Peers : q # p => BudgetHolders(q)' = BudgetHolders(q)
    BY <1>0, <1>5, <2>1, <2>p DEF Holders, BudgetHolders, Peer
  <2>4. /\ IsFiniteSet(Holders) /\ IsFiniteSet(BudgetHolders(p))
        /\ (\A x \in Holders : batch[x].bytes \in Nat) /\ \A x \in BudgetHolders(p) : batch[x].bytes \in Nat
    BY <1>1, SharesKept
  <2>5. Bytes(batch, Holders \ {w}) \in Nat /\ Bytes(batch, BudgetHolders(p) \ {w}) \in Nat
    <3>1. Holders \ {w} \in SUBSET Holders /\ BudgetHolders(p) \ {w} \in SUBSET Holders
      BY <1>1
    <3> QED BY <3>1, SharesKept
  <2>6. Bytes(batch, Holders) = n + Bytes(batch, Holders \ {w})
    BY <2>3, <2>4, BytesWithout, <2>n
  <2>7. Bytes(batch, BudgetHolders(p)) = n + Bytes(batch, BudgetHolders(p) \ {w})
    BY <2>3, <2>4, BytesWithout, <2>n
  <2>8. total_bytes' = Bytes(batch', Holders')
    <3>1. total_bytes' = Bytes(batch, Holders \ {w})
      BY <1>0, <2>1, <2>2, <2>5, <2>6 DEF Less
    <3> QED BY <2>1, <2>3, <3>1
  <2>9. ASSUME NEW q \in Peers PROVE peer_bytes'[q] = Bytes(batch', BudgetHolders(q)')
    <3>1. CASE q = p
      <4>1. peer_bytes[p] = n + Bytes(batch, BudgetHolders(p) \ {w})
        BY <1>0, <2>2, <2>7
      <4>2. peer_bytes'[p] = Less(peer_bytes[p], n)
        BY <1>0, <2>1, <2>2
      <4>3. peer_bytes'[p] = Bytes(batch, BudgetHolders(p) \ {w})
        BY <2>2, <2>5, <4>1, <4>2 DEF Less
      <4> QED BY <2>1, <2>3, <3>1, <4>3
    <3>2. CASE q # p
      BY <1>0, <2>1, <2>2, <2>3, <3>2
    <3> QED BY <3>1, <3>2
  <2> QED BY <2>8, <2>9 DEF BytesCounted
<1>6. ASSUME NEW w \in Workers, ReleaseBudget(w), ~budget[w] PROVE BytesCounted'
  <2>1. budget' = budget /\ UNCHANGED <<total_bytes, peer_bytes>>
    BY <1>0, <1>6 DEF ReleaseBudget
  <2> QED BY <1>3, <2>1
<1>7. ASSUME NEW w \in Workers, AcquireSlot(w) \/ ReleaseSlot(w) PROVE BytesCounted'
  <2>1. budget' = budget /\ UNCHANGED <<total_bytes, peer_bytes>>
    BY <1>7 DEF AcquireSlot, ReleaseSlot
  <2> QED BY <1>3, <2>1
<1>8. CASE QuietStep
  BY <1>3, <1>8 DEF QuietStep
<1> QED BY <1>4, <1>5, <1>6, <1>7, <1>8, StepKinds

\* The workers that owe an outcome of a peer, and the outcomes recorded for it.
Owing(p) == {w \in Workers : pc[w] \in Applying /\ Peer(w) = p}
Outcomes(p) == telemetry[p].accepted_batches + telemetry[p].rejected_batches

\* The property in these terms.
LEMMA OutcomesRead ==
    OutcomesAreCounted <=>
      \A p \in Peers \ {UnknownPeer} : received[p] = Outcomes(p) + Cardinality(Owing(p))
  BY DEF OutcomesAreCounted, Outcomes, Owing

\* Finitely many owe an outcome.
LEMMA OwingFinite ==
    \A p : IsFiniteSet(Owing(p)) /\ Cardinality(Owing(p)) \in Nat
  BY HoldersFinite DEF Owing

\* No worker begins or ends owing an outcome.
SameDebts ==
    \A w \in Workers : /\ pc'[w] \in Applying <=> pc[w] \in Applying
                       /\ pc[w] \in Applying => handshake'[w] = handshake[w]

\* Then the same workers owe the same peer.
LEMMA DebtsKept == ASSUME SameDebts, NEW p PROVE Owing(p)' = Owing(p)
  BY DEF SameDebts, Owing, Peer

\* One outcome more is recorded, for a known peer.
LEMMA OutcomeRecorded ==
    ASSUME TypeOK, NEW q \in Peers, NEW n \in Nat,
           NEW r \in [success : BOOLEAN, applied_up_to_seq : {0} \union Seqs], Record(q, n, r)
    PROVE  /\ \A p \in Peers \ {UnknownPeer} : p # q => Outcomes(p)' = Outcomes(p)
           /\ q # UnknownPeer => Outcomes(q)' = Outcomes(q) + 1
<1>1. telemetry \in [Peers -> [last_reported_seq : Nat, last_applied_up_to_seq : {0} \union Seqs,
              accepted_batches : Nat, rejected_batches : Nat, consecutive_failures : Nat]]
  BY DEF TypeOK
<1>2. CASE q = UnknownPeer
  BY <1>2 DEF Record, Outcomes
<1>3. CASE q # UnknownPeer
  <2>1. \A p \in Peers : p # q => telemetry'[p] = telemetry[p]
    BY <1>1, <1>3 DEF Record
  <2>2. /\ telemetry'[q].accepted_batches = telemetry[q].accepted_batches + (IF r.success THEN 1 ELSE 0)
        /\ telemetry'[q].rejected_batches = telemetry[q].rejected_batches + (IF r.success THEN 0 ELSE 1)
    BY <1>1, <1>3 DEF Record
  <2>3. telemetry[q].accepted_batches \in Nat /\ telemetry[q].rejected_batches \in Nat
    BY <1>1
  <2>4. Outcomes(q)' = Outcomes(q) + 1
    BY <2>2, <2>3 DEF Outcomes
  <2> QED BY <2>1, <2>4 DEF Outcomes
<1> QED BY <1>2, <1>3

\* A frame is refused: it is received and recorded at once.
LEMMA RefusalCounted ==
    ASSUME IInv, OutcomesAreCounted, NEW q \in Peers, Receive(q), Record(q, 0, Rejected), SameDebts
    PROVE  OutcomesAreCounted'
<1>1. TypeOK /\ received \in [Peers -> 0..MaxReceived] /\ telemetry \in [Peers ->
           [last_reported_seq : Nat, last_applied_up_to_seq : {0} \union Seqs,
            accepted_batches : Nat, rejected_batches : Nat, consecutive_failures : Nat]]
  BY DEF IInv, TypeOK
<1>2. PICK n \in Nat : n = 0
  OBVIOUS
<1>3. /\ \A p \in Peers \ {UnknownPeer} : p # q => Outcomes(p)' = Outcomes(p)
      /\ q # UnknownPeer => Outcomes(q)' = Outcomes(q) + 1
  BY <1>1, <1>2, RejectedType, OutcomeRecorded
<1>4. \A p \in Peers \ {UnknownPeer} : received[p] = Outcomes(p) + Cardinality(Owing(p))
  BY OutcomesRead
<1>5. \A p \in Peers : Outcomes(p) \in Nat
  BY <1>1 DEF Outcomes
<1>6. ASSUME NEW p \in Peers \ {UnknownPeer}
      PROVE  received'[p] = Outcomes(p)' + Cardinality(Owing(p)')
  <2>1. Owing(p)' = Owing(p) /\ Cardinality(Owing(p)) \in Nat
    BY DebtsKept, OwingFinite
  <2>2. CASE p = q
    <3>1. received'[p] = received[p] + 1
      BY <1>1, <2>2 DEF Receive
    <3>2. Outcomes(p)' = Outcomes(p) + 1
      BY <1>3, <2>2
    <3> QED BY <1>4, <1>5, <2>1, <3>1, <3>2
  <2>3. CASE p # q
    <3>1. received'[p] = received[p]
      BY <1>1, <2>3 DEF Receive
    <3> QED BY <1>3, <1>4, <2>1, <2>3, <3>1
  <2> QED BY <2>2, <2>3
<1> QED BY <1>6 DEF OutcomesAreCounted, Outcomes, Owing

\* Nothing is received or recorded.
LEMMA NothingCounted ==
    ASSUME OutcomesAreCounted, UNCHANGED <<received, telemetry>>, SameDebts
    PROVE  OutcomesAreCounted'
<1>1. \A p : Owing(p)' = Owing(p)
  BY DebtsKept
<1>2. \A p : Outcomes(p)' = Outcomes(p)
  BY DEF Outcomes
<1>3. \A p \in Peers \ {UnknownPeer} : received[p] = Outcomes(p) + Cardinality(Owing(p))
  BY OutcomesRead
<1>4. \A p \in Peers \ {UnknownPeer} : received'[p] = Outcomes(p)' + Cardinality(Owing(p)')
  BY <1>1, <1>2, <1>3
<1> QED BY <1>4 DEF OutcomesAreCounted, Outcomes, Owing

\* A batch arrives: its worker owes an outcome.
LEMMA WireBatchCounted ==
    ASSUME IInv, OutcomesAreCounted, NEW w \in Workers, NEW b \in Batches, WireBatch(w, b)
    PROVE  OutcomesAreCounted'
<1> USE DEF Between, Applying
<1>1. /\ received \in [Peers -> 0..MaxReceived] /\ telemetry \in [Peers ->
           [last_reported_seq : Nat, last_applied_up_to_seq : {0} \union Seqs,
            accepted_batches : Nat, rejected_batches : Nat, consecutive_failures : Nat]]
      /\ pc \in [Workers -> Between \union Applying \union {"free_budget", "free_slot"}]
  BY DEF IInv, TypeOK
<1>2. Peer(w) \in Peers
  BY RequestType DEF WireBatch
<1>3. PICK q \in Peers : q = Peer(w)
  BY <1>2
<1>4. /\ received' = [received EXCEPT ![q] = @ + 1] /\ telemetry' = telemetry /\ handshake' = handshake
      /\ pc[w] = "ready" /\ \E x \in {"record", "slot"} : pc' = [pc EXCEPT ![w] = x]
  BY <1>3 DEF WireBatch, Receive, Reject, Proceed
<1>5. /\ Owing(q)' = Owing(q) \union {w} /\ w \notin Owing(q)
      /\ \A p \in Peers : p # q => Owing(p)' = Owing(p)
  BY <1>1, <1>3, <1>4 DEF Owing, Peer
<1>6. Cardinality(Owing(q)') = Cardinality(Owing(q)) + 1
  BY <1>5, OwingFinite, FS_AddElement
<1>7. \A p \in Peers \ {UnknownPeer} : received[p] = Outcomes(p) + Cardinality(Owing(p))
  BY OutcomesRead
<1>8. \A p \in Peers : Outcomes(p) \in Nat /\ Outcomes(p)' = Outcomes(p)
  BY <1>1, <1>4 DEF Outcomes
<1>9. ASSUME NEW p \in Peers \ {UnknownPeer}
      PROVE  received'[p] = Outcomes(p)' + Cardinality(Owing(p)')
  <2>1. CASE p = q
    <3>1. received'[p] = received[p] + 1
      BY <1>1, <1>4, <2>1
    <3>2. Cardinality(Owing(p)) \in Nat
      BY OwingFinite
    <3> QED BY <1>6, <1>7, <1>8, <2>1, <3>1, <3>2
  <2>2. CASE p # q
    <3>1. received'[p] = received[p]
      BY <1>1, <1>4, <2>2
    <3> QED BY <1>5, <1>7, <1>8, <2>2, <3>1
  <2> QED BY <2>1, <2>2
<1> QED BY <1>9 DEF OutcomesAreCounted, Outcomes, Owing

\* The outcome is recorded: its worker owes it no longer.
LEMMA RecordCounted ==
    ASSUME IInv, OutcomesAreCounted, NEW w \in Workers, RecordOutcome(w)
    PROVE  OutcomesAreCounted'
<1> USE DEF Between, Applying
<1>1. /\ TypeOK /\ received \in [Peers -> 0..MaxReceived] /\ telemetry \in [Peers ->
           [last_reported_seq : Nat, last_applied_up_to_seq : {0} \union Seqs,
            accepted_batches : Nat, rejected_batches : Nat, consecutive_failures : Nat]]
      /\ pc \in [Workers -> Between \union Applying \union {"free_budget", "free_slot"}]
      /\ result[w] \in [success : BOOLEAN, applied_up_to_seq : {0} \union Seqs]
  BY DEF IInv, TypeOK
<1>2. Peer(w) \in Peers /\ handshake[w].last_recv_seq \in Nat
  BY RequestType DEF RecordOutcome
<1>3. PICK q \in Peers : q = Peer(w)
  BY <1>2
<1>4. /\ received' = received /\ handshake' = handshake /\ Record(q, handshake[w].last_recv_seq, result[w])
      /\ pc[w] = "record" /\ pc' = [pc EXCEPT ![w] = "free_budget"]
  BY <1>3 DEF RecordOutcome
<1>5. /\ Owing(q)' = Owing(q) \ {w} /\ w \in Owing(q)
      /\ \A p \in Peers : p # q => Owing(p)' = Owing(p)
  BY <1>1, <1>3, <1>4 DEF Owing, Peer
<1>6. Cardinality(Owing(q)') = Cardinality(Owing(q)) - 1
  BY <1>5, OwingFinite, FS_RemoveElement
<1>7. \A p \in Peers \ {UnknownPeer} : received[p] = Outcomes(p) + Cardinality(Owing(p))
  BY OutcomesRead
<1>8. /\ \A p \in Peers \ {UnknownPeer} : p # q => Outcomes(p)' = Outcomes(p)
      /\ q # UnknownPeer => Outcomes(q)' = Outcomes(q) + 1
  BY <1>1, <1>2, <1>4, OutcomeRecorded
<1>9. \A p \in Peers : Outcomes(p) \in Nat
  BY <1>1 DEF Outcomes
<1>10. ASSUME NEW p \in Peers \ {UnknownPeer}
       PROVE  received'[p] = Outcomes(p)' + Cardinality(Owing(p)')
  <2>1. CASE p = q
    <3>1. received'[p] = received[p] /\ Outcomes(p)' = Outcomes(p) + 1
      BY <1>4, <1>8, <2>1
    <3>2. Cardinality(Owing(p)) \in Nat
      BY OwingFinite
    <3> QED BY <1>6, <1>7, <1>9, <2>1, <3>1, <3>2
  <2>2. CASE p # q
    BY <1>4, <1>5, <1>7, <1>8, <2>2
  <2> QED BY <2>1, <2>2
<1> QED BY <1>10 DEF OutcomesAreCounted, Outcomes, Owing

\* Every batch and refused frame has one outcome, or a worker that owes it.
LEMMA OutcomesStep ==
    ASSUME IInv, OutcomesAreCounted, [Next]_vars
    PROVE  OutcomesAreCounted'
<1> USE DEF Between, Applying, workerVars
<1>0. /\ pc \in [Workers -> Between \union Applying \union {"free_budget", "free_slot"}]
      /\ handshake \in [Workers -> Handshakes \union {NoHandshake}]
  BY DEF IInv, TypeOK
<1>1. ASSUME NEW w \in Workers, Connect(w) \/ Disconnect(w) PROVE OutcomesAreCounted'
  <2>1. SameDebts /\ UNCHANGED <<received, telemetry>>
    BY <1>0, <1>1 DEF Connect, Disconnect, Close, SameDebts
  <2> QED BY <2>1, NothingCounted
<1>2. ASSUME NEW w \in Workers, ProtocolError(w) PROVE OutcomesAreCounted'
  <2>1. SameDebts
    BY <1>0, <1>2 DEF ProtocolError, Close, SameDebts
  <2>2. CASE UNCHANGED <<telemetry, received>>
    BY <2>1, <2>2, NothingCounted
  <2>3. CASE pc[w] = "ready" /\ Receive(Peer(w)) /\ Record(Peer(w), 0, Rejected)
    <3>1. Peer(w) \in Peers
      BY <2>3, RequestType
    <3> QED BY <2>1, <2>3, <3>1, RefusalCounted
  <2> QED BY <1>2, <2>2, <2>3 DEF ProtocolError
<1>3. ASSUME NEW w \in Workers, NEW hs \in Handshakes, HandshakeFrame(w, hs) PROVE OutcomesAreCounted'
  <2>1. SameDebts
    BY <1>0, <1>3 DEF HandshakeFrame, Close, SameDebts
  <2>2. CASE UNCHANGED <<telemetry, received>>
    BY <2>1, <2>2, NothingCounted
  <2>3. CASE Receive(hs.site_id) /\ Record(hs.site_id, 0, Rejected)
    <3>1. hs.site_id \in Peers
      BY SyncIngressAssumption
    <3> QED BY <2>1, <2>3, <3>1, RefusalCounted
  <2> QED BY <1>3, <2>2, <2>3 DEF HandshakeFrame
<1>4. ASSUME NEW w \in Workers, AcquireSlot(w) \/ AcquireBudget(w) \/ Check(w) \/ ConsumeTokens(w)
      PROVE  OutcomesAreCounted'
  <2>1. /\ UNCHANGED <<received, telemetry, handshake>> /\ pc[w] \in Applying
        /\ \E x \in Applying : pc' = [pc EXCEPT ![w] = x]
    BY <1>4 DEF AcquireSlot, AcquireBudget, Check, ConsumeTokens, Reject, Proceed
  <2>2. SameDebts
    BY <1>0, <2>1 DEF SameDebts
  <2> QED BY <2>1, <2>2, NothingCounted
<1>5. ASSUME NEW w \in Workers, ApplyCommits(w) \/ ApplyFails(w) PROVE OutcomesAreCounted'
  <2>1. /\ UNCHANGED <<received, telemetry, handshake>> /\ pc[w] = "apply"
        /\ pc' = [pc EXCEPT ![w] = "record"]
    BY <1>5 DEF ApplyCommits, ApplyFails
  <2>2. SameDebts
    BY <1>0, <2>1 DEF SameDebts
  <2> QED BY <2>1, <2>2, NothingCounted
<1>6. ASSUME NEW w \in Workers, ReleaseBudget(w) \/ ReleaseSlot(w) PROVE OutcomesAreCounted'
  <2>1. UNCHANGED <<received, telemetry>> /\ SameDebts
    BY <1>0, <1>6 DEF ReleaseBudget, ReleaseSlot, Close, SameDebts
  <2> QED BY <2>1, NothingCounted
<1>7. CASE \/ \E p \in Peers : Refill(p)
           \/ \E s \in Seqs : LocalWrite(s)
           \/ UNCHANGED vars
  <2>1. UNCHANGED <<received, telemetry>> /\ SameDebts
    BY <1>7 DEF Refill, LocalWrite, vars, SameDebts
  <2> QED BY <2>1, NothingCounted
<1> QED BY <1>1, <1>2, <1>3, <1>4, <1>5, <1>6, <1>7, WireBatchCounted, RecordCounted DEF Next, Step

\* The ledgers of the wire budget and of the telemetry balance in every
\* interleaving of the workers: the batches and bytes in flight are those of the
\* workers that hold a share, and every batch and refused frame of a known peer
\* has one outcome or is still being applied.
THEOREM LedgersExact == Spec => []LedgersBalance
<1> DEFINE Sums == BytesCounted /\ OutcomesAreCounted
<1>1. Init => Sums
  <2> SUFFICES ASSUME Init PROVE Sums
    OBVIOUS
  <2>1. Holders = {} /\ \A p \in Peers : BudgetHolders(p) = {} /\ Owing(p) = {}
    BY DEF Init, Holders, BudgetHolders, Owing, Applying
  <2>2. IsFiniteSet({}) /\ Cardinality({}) = 0
    BY FS_EmptySet
  <2>3. Bytes(batch, {}) = 0
    BY <2>2, BytesRule
  <2>4. BytesCounted
    BY <2>1, <2>3 DEF Init, BytesCounted
  <2>5. \A p \in Peers : received[p] = 0 /\ Outcomes(p) = 0
    BY DEF Init, Outcomes
  <2>6. OutcomesAreCounted
    BY <2>1, <2>2, <2>5, OutcomesRead
  <2> QED BY <2>4, <2>6
<1>2. IInv /\ Sums /\ [Next]_vars => Sums'
  BY BytesStep, OutcomesStep
<1>3. IInv /\ Sums => LedgersBalance
  BY BytesAreCounted DEF LedgersBalance, IInv
<1> HIDE DEF Sums
<1> QED BY <1>1, <1>2, <1>3, Invariance, PTL DEF Spec
=============================================================================
