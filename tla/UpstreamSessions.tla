-------------------------- MODULE UpstreamSessions --------------------------
(***************************************************************************)
(* The transports to the upstream.  Requests of the codex route share      *)
(* persistent WebSocket sessions, found in a map by continuity key.  The   *)
(* map has a mutex and so has every session; a request streams with the    *)
(* session's mutex held, and the map's purge and trim take the mutex of a  *)
(* session while they hold the map's.  Other requests open a connection of *)
(* their own, WebSocket or HTTP.                                           *)
(***************************************************************************)
EXTENDS Naturals, FiniteSets

CONSTANTS
    UReqs,          \* requests
    UKeys,          \* continuity keys
    USessions,      \* names for the sessions opened in one behaviour
    UAccounts,
    NoSession, NoReq,
    kPersistentBridgeMaxSessions

ASSUME UpstreamAssumption ==
    /\ NoReq \notin UReqs /\ NoSession \notin USessions \union UKeys
    /\ IsFiniteSet(UKeys) /\ kPersistentBridgeMaxSessions \in Nat

VARIABLES
    uReq,       \* the requests
    uMap,       \* PersistentBridgeState::sessions
    uLock,      \* who holds its mutex
    uSess,      \* the sessions that exist, in the map or in a request's hands
    uPlain      \* the result of a request over a connection of its own

upstreamVars == <<uReq, uMap, uLock, uSess, uPlain>>

-----------------------------------------------------------------------------
(* What an execution over a connection of its own returns.                 *)

Result(status, accepted, code) == [status |-> status, accepted |-> accepted, code |-> code]

(* websocket_result_with_error, _init_failure, _handshake_failure: a       *)
(* refused handshake keeps the status the upstream answered with.          *)
TransportFailure == Result(502, FALSE, "upstream_unavailable")
HandshakeRefused(status) == Result(status, FALSE, "upstream_error")

(* read_websocket_stream: how the stream ended *)
WebsocketResult(ended) ==
    CASE ended = "terminal" -> Result(101, TRUE, "none")
      [] ended = "closed" -> Result(101, TRUE, "stream_incomplete")
      [] ended = "too_large" -> Result(101, TRUE, "upstream_response_too_large")
      [] ended = "refused" -> HandshakeRefused(403)
      [] ended = "error" -> TransportFailure

(* execute_over_http *)
HttpResult(ended) ==
    CASE ended \in {"terminal", "closed"} -> Result(200, FALSE, "none")
      [] ended = "too_large" -> Result(502, FALSE, "upstream_response_too_large")
      [] ended = "refused" -> Result(403, FALSE, "upstream_error")
      [] ended = "error" -> TransportFailure

(* run_session: the same ends over a persistent session *)
BridgeResult(ended) ==
    CASE ended = "terminal" -> Result(101, TRUE, "none")
      [] ended = "not_found" -> Result(101, TRUE, "previous_response_not_found")
      [] ended \in {"closed", "cancelled"} -> Result(101, TRUE, "stream_incomplete")
      [] ended = "too_large" -> Result(502, FALSE, "upstream_response_too_large")
      [] ended = "error" -> TransportFailure

-----------------------------------------------------------------------------
NewRequest == [pc |-> "new", key |-> NoSession, account |-> NoReq, previous |-> FALSE,
               create |-> FALSE, sess |-> NoSession, cand |-> NoSession, runs |-> 0,
               retry |-> FALSE]

Unopened == [open |-> FALSE, account |-> NoReq, cancel |-> FALSE, stale |-> FALSE, lock |-> NoReq]

SessionsInit ==
    /\ uReq = [r \in UReqs |-> NewRequest]
    /\ uMap = [k \in UKeys |-> NoSession]
    /\ uLock = NoReq
    /\ uSess = [s \in USessions |-> Unopened]
    /\ uPlain = NoReq

InMap(s) == \E k \in UKeys : uMap[k] = s
Mapped == {k \in UKeys : uMap[k] # NoSession}
Erased(s) == [k \in UKeys |-> IF uMap[k] = s THEN NoSession ELSE uMap[k]]
Fresh == {s \in USessions : /\ uSess[s] = Unopened /\ ~InMap(s)
                           /\ \A r \in UReqs : s \notin {uReq[r].sess, uReq[r].cand}}

UAt(r, pc) == uReq[r].pc = pc
USet(r, q) == uReq' = [uReq EXCEPT ![r] = q]
Goto(r, pc) == USet(r, [uReq[r] EXCEPT !.pc = pc])

(* close_bridge_connection of a session that is not in the map any more *)
CloseConnection(s) == uSess' = [uSess EXCEPT ![s] = Unopened]

Finished(r) == USet(r, [NewRequest EXCEPT !.pc = "done"])

-----------------------------------------------------------------------------
(* execute_over_websocket, execute_over_http: a plan that does not ask to  *)
(* keep the upstream session is executed at once.                          *)
ExecutePlain(transport, ended) ==
    /\ \A r \in UReqs : UAt(r, "new")
    /\ uPlain = NoReq
    /\ uPlain' = IF transport = "websocket" THEN WebsocketResult(ended) ELSE HttpResult(ended)
    /\ UNCHANGED <<uReq, uMap, uLock, uSess>>

(* execute_over_websocket_with_persistent_bridge: what its payload is *)
ExecuteOverBridge(r, key, account, previous, create) ==
    /\ UAt(r, "new")
    /\ uPlain = NoReq
    /\ previous => create
    /\ USet(r, [NewRequest EXCEPT !.pc = "lookup", !.key = key, !.account = account,
                  !.previous = previous, !.create = create])
    /\ UNCHANGED <<uMap, uLock, uSess, uPlain>>

-----------------------------------------------------------------------------
(* acquire_or_create_session: the map's mutex is taken twice, to look the  *)
(* session up and to insert a new one.  Each time stale sessions are       *)
(* purged and the map is trimmed first.                                    *)

LockBridge(r) ==
    /\ uReq[r].pc \in {"lookup", "insert"}
    /\ uLock = NoReq
    /\ uLock' = r
    /\ Goto(r, IF UAt(r, "lookup") THEN "purging" ELSE "purging2")
    /\ UNCHANGED <<uMap, uSess, uPlain>>

StaleInMap == {s \in USessions : InMap(s) /\ uSess[s].stale}

(* purge_stale_persistent_bridge_sessions_locked, one session: it waits    *)
(* for the session's mutex with the map's held.                            *)
PurgeStale(r, s) ==
    /\ uReq[r].pc \in {"purging", "purging2"}
    /\ s \in StaleInMap
    /\ uSess[s].lock = NoReq
    /\ CloseConnection(s)
    /\ uMap' = Erased(s)
    /\ UNCHANGED <<uReq, uLock, uPlain>>

(* trim_persistent_bridge_sessions_locked, the least recently used one:    *)
(* any, because every stream that ends makes its session the latest.       *)
TrimSession(r, s) ==
    /\ \/ uReq[r].pc \in {"purging", "purging2"} /\ StaleInMap = {}
       \/ UAt(r, "trimming")
    /\ Cardinality(Mapped) > kPersistentBridgeMaxSessions
    /\ InMap(s)
    /\ uSess[s].lock = NoReq
    /\ CloseConnection(s)
    /\ uMap' = Erased(s)
    /\ UNCHANGED <<uReq, uLock, uPlain>>

Trimmed == StaleInMap = {} /\ Cardinality(Mapped) <= kPersistentBridgeMaxSessions

(* A session that is cancelled, or of another account when the request     *)
(* continues nothing, is taken out of the map and closed.                  *)
Displaces(q, s) ==
    \/ uSess[s].cancel
    \/ ~q.previous /\ uSess[s].account # q.account

FindSession(r) ==
    /\ UAt(r, "purging")
    /\ Trimmed
    /\ LET q == uReq[r]
           found == uMap[q.key]
       IN  CASE found # NoSession /\ ~Displaces(q, found)
                  -> USet(r, [q EXCEPT !.pc = "run", !.sess = found]) /\ UNCHANGED uMap
             [] found # NoSession /\ Displaces(q, found)
                  -> /\ USet(r, [q EXCEPT !.pc = "displacing", !.cand = found])
                     /\ uMap' = Erased(found)
             [] found = NoSession
                  -> Goto(r, "connect") /\ UNCHANGED uMap
    /\ uLock' = NoReq
    /\ UNCHANGED <<uSess, uPlain>>

DisplaceSession_LeavesItOpen(r) ==
    /\ UAt(r, "displacing")
    /\ USet(r, [uReq[r] EXCEPT !.pc = "connect", !.cand = NoSession])
    /\ UNCHANGED <<uMap, uLock, uSess, uPlain>>

DisplaceSession(r) ==
    /\ UAt(r, "displacing")
    /\ uSess[uReq[r].cand].lock = NoReq
    /\ CloseConnection(uReq[r].cand)
    /\ USet(r, [uReq[r] EXCEPT !.pc = "connect", !.cand = NoSession])
    /\ UNCHANGED <<uMap, uLock, uPlain>>

(* open_bridge_connection; only response.create opens a session, another   *)
(* frame is answered with no_active_upstream_websocket_session_result.     *)
OpenConnection(r, s) ==
    /\ UAt(r, "connect")
    /\ uReq[r].create
    /\ s \in Fresh /\ s = CHOOSE f \in Fresh : TRUE
    /\ uSess' = [uSess EXCEPT ![s] = [Unopened EXCEPT !.open = TRUE, !.account = uReq[r].account]]
    /\ USet(r, [uReq[r] EXCEPT !.pc = "insert", !.cand = s])
    /\ UNCHANGED <<uMap, uLock, uPlain>>

OpenFails(r) ==
    /\ UAt(r, "connect")
    /\ Finished(r)
    /\ UNCHANGED <<uMap, uLock, uSess, uPlain>>

(* try_emplace: the session of whoever came first is used, whatever its    *)
(* account; the new connection is then closed.                             *)
InsertSession(r) ==
    /\ UAt(r, "purging2")
    /\ Trimmed
    /\ LET q == uReq[r]
       IN  IF uMap[q.key] = NoSession
           THEN /\ uMap' = [uMap EXCEPT ![q.key] = q.cand]
                /\ USet(r, [q EXCEPT !.pc = "trimming", !.sess = q.cand, !.cand = NoSession])
                /\ UNCHANGED uLock
           ELSE /\ USet(r, [q EXCEPT !.pc = "discarding", !.sess = uMap[q.key]])
                /\ uLock' = NoReq
                /\ UNCHANGED uMap
    /\ UNCHANGED <<uSess, uPlain>>

InsertedAndTrimmed(r) ==
    /\ UAt(r, "trimming")
    /\ Cardinality(Mapped) <= kPersistentBridgeMaxSessions
    /\ Goto(r, "run")
    /\ uLock' = NoReq
    /\ UNCHANGED <<uMap, uSess, uPlain>>

DiscardCandidate(r) ==
    /\ UAt(r, "discarding")
    /\ CloseConnection(uReq[r].cand)
    /\ USet(r, [uReq[r] EXCEPT !.pc = "run", !.cand = NoSession])
    /\ UNCHANGED <<uMap, uLock, uPlain>>

-----------------------------------------------------------------------------
(* run_session *)

(* The session's mutex, then the write, which fails on a connection that   *)
(* was closed while this request waited.                                   *)
WriteRequest(r) ==
    /\ UAt(r, "run")
    /\ LET q == uReq[r]
       IN  /\ uSess[q.sess].lock = NoReq
           /\ IF uSess[q.sess].open
              THEN /\ USet(r, [q EXCEPT !.pc = "streaming", !.runs = @ + 1])
                   /\ uSess' = [uSess EXCEPT ![q.sess].lock = r]
              ELSE /\ USet(r, [q EXCEPT !.pc = "removing", !.runs = @ + 1, !.retry = q.create])
                   /\ UNCHANGED uSess
    /\ UNCHANGED <<uMap, uLock, uPlain>>

EndStream_HoldsLock(r, ended) ==
    /\ UAt(r, "streaming")
    /\ uLock = NoReq
    /\ Finished(r)
    /\ uSess' = [uSess EXCEPT ![uReq[r].sess].lock = NoReq, ![uReq[r].sess].open = ended = "terminal"]
    /\ uMap' = IF ended = "terminal" THEN uMap ELSE Erased(uReq[r].sess)
    /\ UNCHANGED <<uLock, uPlain>>

(* The stream ends: with a terminal event the session is kept, unless that *)
(* event is previous_response_not_found; otherwise its connection is       *)
(* closed here and it leaves the map in a step of its own.                 *)
EndStream(r, ended) ==
    /\ UAt(r, "streaming")
    /\ LET q == uReq[r]
           keep == ended = "terminal"
           retry == /\ q.create /\ ended # "cancelled"
                    /\ BridgeResult(ended).code \in {"stream_incomplete", "upstream_unavailable"}
       IN  /\ (ended = "cancelled") = uSess[q.sess].cancel
           /\ IF keep THEN Finished(r) ELSE USet(r, [q EXCEPT !.pc = "removing", !.retry = retry])
           /\ uSess' = [uSess EXCEPT ![q.sess].lock = NoReq, ![q.sess].open = keep,
                                     ![q.sess].stale = FALSE]
    /\ UNCHANGED <<uMap, uLock, uPlain>>

(* The session is erased if the map still has it under this key; the first *)
(* failure of a response.create is then tried again.                       *)
RemoveSession(r) ==
    /\ UAt(r, "removing")
    /\ uLock = NoReq
    /\ uMap' = Erased(uReq[r].sess)
    /\ uSess' = [uSess EXCEPT ![uReq[r].sess] = Unopened]
    /\ IF uReq[r].retry /\ uReq[r].runs = 1 THEN Goto(r, "retrying") ELSE Finished(r)
    /\ UNCHANGED <<uLock, uPlain>>

(* The retry closes the failed session once more and looks for another. *)
RetryFresh(r) ==
    /\ UAt(r, "retrying")
    /\ uLock = NoReq
    /\ uSess[uReq[r].sess].lock = NoReq
    /\ uMap' = Erased(uReq[r].sess)
    /\ CloseConnection(uReq[r].sess)
    /\ USet(r, [uReq[r] EXCEPT !.pc = "lookup", !.sess = NoSession, !.retry = FALSE])
    /\ UNCHANGED <<uLock, uPlain>>

-----------------------------------------------------------------------------
(* request_upstream_websocket_bridge_cancel, when the client closes: it    *)
(* flags the session that the map has at this moment.                      *)
RequestCancel(k) ==
    /\ uLock = NoReq
    /\ uMap[k] # NoSession
    /\ ~uSess[uMap[k]].cancel
    /\ uSess' = [uSess EXCEPT ![uMap[k]].cancel = TRUE]
    /\ UNCHANGED <<uReq, uMap, uLock, uPlain>>

(* set_upstream_transport, reset_upstream_transport: the map's mutex, then *)
(* that of every session in turn.                                          *)
ResetSessions ==
    /\ uLock = NoReq
    /\ Mapped # {}
    /\ \A k \in Mapped : uSess[uMap[k]].lock = NoReq
    /\ uSess' = [s \in USessions |-> IF InMap(s) THEN Unopened ELSE uSess[s]]
    /\ uMap' = [k \in UKeys |-> NoSession]
    /\ UNCHANGED <<uReq, uLock, uPlain>>

(* kPersistentBridgeTtlMs pass without a stream ending on the session,     *)
(* which may be in the middle of one.                                      *)
SessionGoesStale(s) ==
    /\ InMap(s) /\ uSess[s].open /\ ~uSess[s].stale
    /\ uSess' = [uSess EXCEPT ![s].stale = TRUE]
    /\ UNCHANGED <<uReq, uMap, uLock, uPlain>>

-----------------------------------------------------------------------------
Ends == {"terminal", "not_found", "closed", "error", "too_large", "cancelled"}

RequestStep(r) ==
    \/ LockBridge(r) \/ FindSession(r) \/ DisplaceSession(r) \/ OpenFails(r)
    \/ InsertSession(r) \/ InsertedAndTrimmed(r) \/ DiscardCandidate(r)
    \/ WriteRequest(r) \/ RemoveSession(r) \/ RetryFresh(r)
    \/ \E s \in USessions : PurgeStale(r, s) \/ TrimSession(r, s) \/ OpenConnection(r, s)
    \/ \E ended \in Ends : EndStream(r, ended)

SessionsNext ==
    \/ \E r \in UReqs :
         \/ RequestStep(r)
         \/ \E k \in UKeys, a \in UAccounts, previous, create \in BOOLEAN :
              ExecuteOverBridge(r, k, a, previous, create)
    \/ \E t \in {"websocket", "http"}, e \in {"terminal", "closed", "too_large", "refused", "error"} :
         ExecutePlain(t, e)
    \/ \E k \in UKeys : RequestCancel(k)
    \/ ResetSessions
    \/ \E s \in USessions : SessionGoesStale(s)

SessionsSpec == SessionsInit /\ [][SessionsNext]_upstreamVars

-----------------------------------------------------------------------------
UpstreamTypeOK ==
    /\ uMap \in [UKeys -> USessions \union {NoSession}]
    /\ uLock \in UReqs \union {NoReq}
    /\ \A s \in USessions : uSess[s].lock \in UReqs \union {NoReq}
    /\ \A r \in UReqs : uReq[r].runs \in 0..2

(* A request, whose session is what it was given, holds or closes it. *)
Holds(r, s) ==
    \/ uReq[r].cand = s /\ uReq[r].pc \in {"displacing", "insert", "purging2", "discarding"}
    \/ uReq[r].sess = s /\ uReq[r].pc = "streaming"

(* No connection to the upstream leaks: one that is open is in the map, or *)
(* some request still has it in hand, to insert it, stream over it or      *)
(* close it; whatever requests, cancellations and purges of the same key   *)
(* did in between.                                                         *)
NoLeakedConnection ==
    \A s \in USessions : uSess[s].open => InMap(s) \/ \E r \in UReqs : Holds(r, s)

(* A session in the map whose connection is closed is on its way out: the  *)
(* request that closed it is about to erase it.                            *)
ClosedSessionsLeave ==
    \A s \in USessions : InMap(s) /\ ~uSess[s].open =>
        \E r \in UReqs : uReq[r].pc = "removing" /\ uReq[r].sess = s

(* The map never holds more sessions than its limit once its mutex is free.*)
SessionsAreBounded == uLock = NoReq => Cardinality(Mapped) <= kPersistentBridgeMaxSessions

(* The map of shared connections is sound: nothing leaks out of it, nothing *)
(* dead stays in it, and it keeps its limit.                                *)
SessionsSafety == UpstreamTypeOK /\ NoLeakedConnection /\ ClosedSessionsLeave /\ SessionsAreBounded

(* Every request is answered: no order of the two mutexes, and no stale    *)
(* session purged in the middle of its stream, leaves a thread waiting for *)
(* ever.  Reads time out, so every stream ends.                            *)
RequestsAreAnswered == \A r \in UReqs : (uReq[r].pc # "new") ~> (uReq[r].pc = "done")
=============================================================================
