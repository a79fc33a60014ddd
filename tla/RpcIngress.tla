------------------------------ MODULE RpcIngress ------------------------------
(***************************************************************************)
(* How one replication connection turns the bytes it reads into frames:    *)
(* RpcIngressQueue (input buffer, decoded queue, their limits) driven by   *)
(* the connection handler, which empties the queue, reads a chunk and      *)
(* ingests it.  Bytes are counted, not stored: wire is the sequence of     *)
(* payload sizes the peer sends, rpcRead the bytes read so far, decoded    *)
(* and popped how many frames have left the buffer and the queue.          *)
(***************************************************************************)
EXTENDS Naturals, Sequences, FiniteSets, SequencesExt

CONSTANTS
    kHeaderSize,      \* channel and length
    PayloadSizes,     \* payload sizes the peer may send
    MaxFrames,        \* bound: frames on the connection
    MaxChunk,         \* the read buffer of the connection handler
    MaxBufferedBytes, MaxQueuedFrames, MaxQueuedPayload, MaxFramePayload,
    SizeModulus       \* 2^w for std::size_t of w bits

ASSUME RpcAssumption ==
    /\ {kHeaderSize, MaxFrames, MaxChunk, MaxQueuedFrames, MaxQueuedPayload,
        MaxFramePayload, MaxBufferedBytes} \subseteq Nat \ {0}
    /\ PayloadSizes \subseteq Nat /\ SizeModulus \in Nat
    /\ \A n \in PayloadSizes \union {MaxBufferedBytes, MaxQueuedPayload, MaxFramePayload} :
          2 * (kHeaderSize + n) < SizeModulus

VARIABLES wire, rpcRead, decoded, popped, rpcError

rpcVars == <<wire, rpcRead, decoded, popped, rpcError>>

\* The bytes of the first n frames.
TotalBytes(sizes, n) ==
    LET total[k \in 0..Len(sizes)] == IF k = 0 THEN 0 ELSE total[k - 1] + kHeaderSize + sizes[k]
    IN  total[n]

Buffered == rpcRead - TotalBytes(wire, decoded)

QueuedPayload == TotalBytes(wire, decoded) - TotalBytes(wire, popped)
                    - kHeaderSize * (decoded - popped)

RpcInit ==
    /\ wire \in BoundedSeq(PayloadSizes, MaxFrames)
    /\ rpcRead = 0
    /\ decoded = 0
    /\ popped = 0
    /\ rpcError = FALSE

RoomFor_Signed(size, queued) == queued + size <= MaxQueuedPayload

\* The room left is an unsigned difference: it wraps for a frame larger than the
\* queue's whole budget, which is then admitted.
RoomFor(size, queued) == queued <= (SizeModulus + MaxQueuedPayload - size) % SizeModulus

(***************************************************************************)
(* drain_decoded_frames, with `p` popped frames and `got` bytes read.  One *)
(* round of its loop, after `d` decoded frames: it refuses the frame in    *)
(* front, or it stops, or it decodes one more.                             *)
(***************************************************************************)
Refuses(d, got) ==
    /\ got - TotalBytes(wire, d) >= kHeaderSize
    /\ wire[d + 1] > MaxFramePayload \/ kHeaderSize + wire[d + 1] > MaxBufferedBytes

Stops(d, p, got) ==
    LET buffered == got - TotalBytes(wire, d)
        queued == TotalBytes(wire, d) - TotalBytes(wire, p) - kHeaderSize * (d - p)
    IN  \/ d - p >= MaxQueuedFrames \/ buffered < kHeaderSize
        \/ Refuses(d, got)
        \/ buffered < kHeaderSize + wire[d + 1] \/ ~RoomFor(wire[d + 1], queued)

\* How many frames are decoded when it returns: as many as there were when it
\* first stopped; and whether it stopped at a frame it refuses.
DrainDecodedFrames(d, p, got) ==
    LET last == CHOOSE e \in d..Len(wire) :
                   Stops(e, p, got) /\ \A k \in d..(e - 1) : ~Stops(k, p, got)
    IN  [decoded |-> last, ok |-> last - p >= MaxQueuedFrames \/ ~Refuses(last, got)]

\* read_some and ingest, once the queue is empty: a chunk that does not fit the
\* buffer, or a frame the drain refuses, ends the connection.
Ingest(n) ==
    /\ ~rpcError /\ decoded = popped
    /\ rpcRead + n <= TotalBytes(wire, Len(wire))
    /\ IF n > MaxBufferedBytes - Buffered
       THEN rpcError' = TRUE /\ UNCHANGED <<wire, rpcRead, decoded, popped>>
       ELSE LET drained == DrainDecodedFrames(decoded, popped, rpcRead + n)
            IN  /\ rpcRead' = rpcRead + n
                /\ decoded' = drained.decoded
                /\ rpcError' = ~drained.ok
                /\ UNCHANGED <<wire, popped>>

\* pop, which drains again and drops what the drain reports.
PopFrame ==
    /\ ~rpcError /\ popped < decoded
    /\ popped' = popped + 1
    /\ decoded' = DrainDecodedFrames(decoded, popped + 1, rpcRead).decoded
    /\ UNCHANGED <<wire, rpcRead, rpcError>>

RpcNext == (\E n \in 1..MaxChunk : Ingest(n)) \/ PopFrame

RpcSpec == RpcInit /\ [][RpcNext]_rpcVars

(***************************************************************************)
(* Properties                                                              *)
(***************************************************************************)
\* Counts never cross: what is popped was decoded, what is decoded was read.
RpcTypeOK ==
    /\ wire \in Seq(PayloadSizes) /\ Len(wire) <= MaxFrames
    /\ rpcError \in BOOLEAN
    /\ popped \in 0..decoded /\ decoded \in 0..Len(wire)
    /\ TotalBytes(wire, decoded) <= rpcRead

Admissible(size) == size <= MaxFramePayload /\ kHeaderSize + size <= MaxBufferedBytes

\* When the handler goes back to reading, no complete frame it would accept is
\* left in the buffer: nothing waits for bytes the peer has no reason to send.
\* It needs the drain inside pop, and the drain must get past a frame that is
\* larger than the queue's whole payload budget.
NoFrameWaitsForMore ==
    (~rpcError /\ popped = decoded /\ decoded < Len(wire) /\ Admissible(wire[decoded + 1]))
        => Buffered < kHeaderSize + wire[decoded + 1]

\* A peer that sends only admissible frames is never cut off, however its bytes
\* are split into reads, provided the buffer can hold a whole frame and a read.
GoodPeerIsNotCutOff ==
    (/\ \A i \in DOMAIN wire : Admissible(wire[i])
     /\ kHeaderSize + MaxFramePayload + MaxChunk <= MaxBufferedBytes + 1)
        => ~rpcError

\* The queue holds no more frames than its limit, and no more payload than its
\* budget unless a single frame is larger than the budget.
QueueWithinLimits ==
    /\ decoded - popped <= MaxQueuedFrames
    /\ (\A i \in DOMAIN wire : wire[i] <= MaxQueuedPayload) => QueuedPayload <= MaxQueuedPayload

\* The frames of a connection keep moving within their limits.
RpcSafety == RpcTypeOK /\ NoFrameWaitsForMore /\ GoodPeerIsNotCutOff /\ QueueWithinLimits
=============================================================================
