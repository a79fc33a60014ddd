---------------------------- MODULE ProxyIngress ----------------------------
(* The HTTP and WebSocket routes of the proxy (server_routes.cpp): admission *)
(* by the enabled flag, the firewall and the API key; the request body; the  *)
(* usage reservation of the key; the request log; the answer.  Handlers run  *)
(* on the event loop.  /responses and the messages of a socket are worked on *)
(* by the executor and answered by a callback deferred to the loop; the      *)
(* other routes keep the loop until the upstream has answered.               *)
EXTENDS ApiKeys, Sequences

CONSTANTS
    Requests,     \* HTTP requests and socket messages
    TranscriptionModel,
    Sockets,      \* WebSocket connections
    NoSocket,
    Nobody,       \* the loop is free
    ExecutorSize, \* worker threads
    kMaxInFlightTasks \* tasks the executor holds, queued and running

ASSUME IngressAssumption ==
    /\ Nobody \notin Requests /\ IsFiniteSet(Requests)
    /\ kMaxInFlightTasks \in Nat

VARIABLES
    req,        \* the requests
    sock,       \* the connections and their entry in ws_connection_registry
    rows,       \* api_key_usage_reservations by request_id
    tasks,      \* the executor's queue
    loop        \* the request whose handler holds the event loop, or Nobody

ingressVars == <<apiKeys, issued, req, sock, rows, tasks, loop>>

Kinds == {"models", "responses", "compact", "memories", "transcribe", "chat", "usage"}

NoRequest == [pc |-> "new", kind |-> "none", id |-> Nobody, policy |-> NoPolicy, socket |-> NoSocket,
              active |-> FALSE, aborted |-> FALSE, outcome |-> "none", writes |-> 0, logs |-> 0]
NoReservation == [status |-> "none", owner |-> Nobody]

IngressInit ==
    /\ KeysInit
    /\ req = [r \in Requests |-> NoRequest]
    /\ sock = [s \in Sockets |-> [entry |-> "absent", open |-> FALSE, policy |-> NoPolicy]]
    /\ rows = [i \in Requests |-> NoReservation]
    /\ tasks = <<>>
    /\ loop = Nobody

-----------------------------------------------------------------------------
(* request_id_from_headers: a client may send the id of another request.     *)
RequestIds == Requests

Done(q) == [NoRequest EXCEPT !.pc = "done", !.aborted = q.aborted, !.outcome = q.outcome,
                             !.kind = IF q.kind = "ws" THEN "ws" ELSE "none",
                             !.writes = q.writes, !.logs = q.logs]
Answered(q) == Done([q EXCEPT !.writes = @ + 1])
Logged(q) == [q EXCEPT !.logs = @ + 1]

(* What a handler reads of the settings when it runs: the proxy flag, the    *)
(* firewall's verdict on the client's address, api_key_auth_enabled.  Any of *)
(* them may change between two handlers.                                     *)
SettingsRead == [enabled : BOOLEAN, ip : BOOLEAN, auth : BOOLEAN]

Admitted(kind, set, secret) ==
    kind = "usage" \/ (set.ip /\ ValidateProxyApiKey(set.auth, secret))

(* ensure_proxy_enabled_http logs its 503; the denials of the firewall and   *)
(* of the key are not logged.  /models and /usage read and answer at once,   *)
(* the others wait for the body.                                             *)
RequestArrives(r, kind, id, set, secret) ==
    LET q == [req[r] EXCEPT !.kind = kind, !.id = id,
                            !.policy = ResolveApiKeyModelPolicy(set.auth, secret)]
    IN  /\ loop = Nobody /\ req[r].pc = "new"
        /\ \/ ~set.enabled /\ req' = [req EXCEPT ![r] = Answered(Logged(q))]
           \/ /\ set.enabled /\ ~Admitted(kind, set, secret)
              /\ req' = [req EXCEPT ![r] = Answered(q)]
           \/ /\ set.enabled /\ Admitted(kind, set, secret)
              /\ req' = [req EXCEPT ![r] = CASE kind = "models" -> Answered(Logged(q))
                                            [] kind = "usage" -> Answered(q)
                                            [] OTHER -> [q EXCEPT !.pc = "body"]]
        /\ UNCHANGED <<apiKeys, issued, sock, rows, tasks, loop>>

ClientAborts(r) ==
    /\ loop = Nobody /\ req[r].kind \in Kinds /\ ~req[r].aborted
    /\ req[r].pc \in {"body", "queued", "taken", "upstream", "deferred"}
    /\ LET q == [req[r] EXCEPT !.aborted = TRUE]
       IN  req' = [req EXCEPT ![r] = IF q.pc = "body" THEN Done(q) ELSE q]
    /\ UNCHANGED <<apiKeys, issued, sock, rows, tasks, loop>>

-----------------------------------------------------------------------------
(* reserve_api_key_usage and settle_api_key_usage.                           *)

Reserves(r) ==
    /\ req[r].policy.key # NoKey
    /\ Exists(req[r].policy.key)
    /\ rows[req[r].id].status = "none"

Reserve_ActiveOnConflict(r) ==
    /\ rows' = IF Reserves(r) THEN [rows EXCEPT ![req[r].id] = [status |-> "reserved", owner |-> r]] ELSE rows
    /\ req' = [req EXCEPT ![r].active = req[r].policy.key # NoKey, ![r].pc = "upstream"]

Reserve(r) ==
    /\ rows' = IF Reserves(r) THEN [rows EXCEPT ![req[r].id] = [status |-> "reserved", owner |-> r]] ELSE rows
    /\ req' = [req EXCEPT ![r].active = Reserves(r), ![r].pc = "upstream"]

Settle(r, ok) ==
    rows' = IF req[r].active /\ rows[req[r].id].status = "reserved"
            THEN [rows EXCEPT ![req[r].id].status = IF ok THEN "settled" ELSE "released"]
            ELSE rows

(* The body has arrived: too large and undecodable bodies are refused        *)
(* unlogged; the key's policy is applied, except by /memories; /transcribe   *)
(* checks its own model, TranscriptionModel, whatever the key enforces.      *)
PolicyAllows(r, model) ==
    CASE req[r].kind = "memories" -> TRUE
      [] req[r].kind = "transcribe" -> req[r].policy.allowed = {} \/ TranscriptionModel \in req[r].policy.allowed
      [] OTHER -> EnforceApiKeyRequestPolicy(req[r].policy, model)

BodyRefused(r) ==
    /\ loop = Nobody /\ req[r].pc = "body"
    /\ req' = [req EXCEPT ![r] = Answered(@)]
    /\ UNCHANGED <<apiKeys, issued, sock, rows, tasks, loop>>

PolicyDenies(r, model) ==
    /\ loop = Nobody /\ req[r].pc = "body" /\ ~PolicyAllows(r, model)
    /\ req' = [req EXCEPT ![r] = Answered(Logged(@))]
    /\ UNCHANGED <<apiKeys, issued, sock, rows, tasks, loop>>

(* The executor refuses a task when it is full.  accepts: it is running, and *)
(* the tasks of other components (token and usage refreshes) leave room.     *)
InHand == {r \in Requests : req[r].pc \in {"taken", "upstream"} /\ loop # r}

MayEnqueueTask(accepts) == accepts /\ Len(tasks) + Cardinality(InHand) < kMaxInFlightTasks

ResponsesBody(r, model, accepts) ==
    /\ loop = Nobody /\ req[r].pc = "body" /\ req[r].kind = "responses" /\ PolicyAllows(r, model)
    /\ IF MayEnqueueTask(accepts)
       THEN tasks' = Append(tasks, r) /\ req' = [req EXCEPT ![r].pc = "queued"]
       ELSE tasks' = tasks /\ req' = [req EXCEPT ![r] = Answered(Logged(@))]
    /\ UNCHANGED <<apiKeys, issued, sock, rows, loop>>

(* The other routes reserve and ask the upstream on the loop.                *)
SyncBody(r, kind, model) ==
    /\ loop = Nobody /\ req[r].pc = "body" /\ req[r].kind = kind /\ PolicyAllows(r, model)
    /\ Reserve(r)
    /\ loop' = r
    /\ UNCHANGED <<apiKeys, issued, sock, tasks>>

CompactBody(r, model) == SyncBody(r, "compact", model)
MemoriesBody(r, model) == SyncBody(r, "memories", model)
TranscribeBody(r, model) == SyncBody(r, "transcribe", model)
ChatCompletionsBody(r, model) == SyncBody(r, "chat", model)

SyncFinish(r, ok) ==
    /\ loop = r /\ req[r].pc = "upstream"
    /\ Settle(r, ok)
    /\ req' = [req EXCEPT ![r] = Answered(Logged([@ EXCEPT !.outcome = IF ok THEN "ok" ELSE "failed"]))]
    /\ loop' = Nobody
    /\ UNCHANGED <<apiKeys, issued, sock, tasks>>

-----------------------------------------------------------------------------
(* The executor: tasks are taken in order; a socket message then waits for   *)
(* its connection's message_mutex, which its worker holds to the end.        *)

WorkerTakesTask_LeavesLast ==
    /\ Len(tasks) > 1 /\ Cardinality(InHand) < ExecutorSize
    /\ tasks' = Tail(tasks)
    /\ req' = [req EXCEPT ![Head(tasks)].pc = "taken"]
    /\ UNCHANGED <<apiKeys, issued, sock, rows, loop>>

WorkerTakesTask ==
    /\ tasks # <<>> /\ Cardinality(InHand) < ExecutorSize
    /\ tasks' = Tail(tasks)
    /\ req' = [req EXCEPT ![Head(tasks)].pc = "taken"]
    /\ UNCHANGED <<apiKeys, issued, sock, rows, loop>>

WorkerStarts(r) ==
    /\ req[r].pc = "taken"
    /\ req[r].kind = "ws" =>
         \A m \in Requests : ~(req[m].pc = "upstream" /\ req[m].socket = req[r].socket)
    /\ Reserve(r)
    /\ UNCHANGED <<apiKeys, issued, sock, tasks, loop>>

WorkerFinishes(r, ok) ==
    /\ req[r].pc = "upstream" /\ loop # r
    /\ Settle(r, ok)
    /\ req' = [req EXCEPT ![r] = [Logged(@) EXCEPT !.pc = "deferred", !.outcome = IF ok THEN "ok" ELSE "failed"]]
    /\ UNCHANGED <<apiKeys, issued, sock, tasks, loop>>

DeferredWrite_IgnoresAbort(r) ==
    /\ loop = Nobody /\ req[r].pc = "deferred" /\ req[r].kind = "responses"
    /\ req' = [req EXCEPT ![r] = Answered(@)]
    /\ UNCHANGED <<apiKeys, issued, sock, rows, tasks, loop>>

DeferredWrite(r) ==
    /\ loop = Nobody /\ req[r].pc = "deferred" /\ req[r].kind = "responses"
    /\ req' = [req EXCEPT ![r] = IF @.aborted THEN Done(@) ELSE Answered(@)]
    /\ UNCHANGED <<apiKeys, issued, sock, rows, tasks, loop>>

-----------------------------------------------------------------------------
(* The WebSocket routes.  The policy is resolved once, at the upgrade.       *)

RegisterWsConnection(s, policy) ==
    sock' = [sock EXCEPT ![s] = [entry |-> "open", open |-> TRUE, policy |-> policy]]

(* close: the entry's pointer is cleared, and the entry erased unless the    *)
(* deferred callback that ended the connection still holds the handle.       *)
Unregistered(c) == [c EXCEPT !.open = FALSE, !.entry = "absent"]

UnregisteredByCallback(c) == [c EXCEPT !.open = FALSE, !.entry = "stale"]

WsUpgrade(s, set, secret) ==
    /\ loop = Nobody /\ sock[s].entry = "absent" /\ ~sock[s].open
    /\ set.enabled /\ Admitted("ws", set, secret)
    /\ RegisterWsConnection(s, ResolveApiKeyModelPolicy(set.auth, secret))
    /\ UNCHANGED <<apiKeys, issued, req, rows, tasks, loop>>

WsClose(s) ==
    /\ loop = Nobody /\ sock[s].open
    /\ sock' = [sock EXCEPT ![s] = Unregistered(@)]
    /\ UNCHANGED <<apiKeys, issued, req, rows, tasks, loop>>

(* A message of its own id; disabled, denied and overloaded ones are logged, *)
(* answered with an error frame, and end the connection.                     *)
WsMessage(r, s, enabled, model, accepts) ==
    LET q == [req[r] EXCEPT !.kind = "ws", !.id = r, !.policy = sock[s].policy, !.socket = s]
    IN  /\ loop = Nobody /\ req[r].pc = "new" /\ sock[s].open
        /\ IF enabled /\ EnforceApiKeyRequestPolicy(sock[s].policy, model) /\ MayEnqueueTask(accepts)
           THEN /\ tasks' = Append(tasks, r)
                /\ req' = [req EXCEPT ![r] = [q EXCEPT !.pc = "queued"]]
                /\ UNCHANGED sock
           ELSE /\ req' = [req EXCEPT ![r] = Answered(Logged(q))]
                /\ sock' = [sock EXCEPT ![s] = Unregistered(@)]
                /\ UNCHANGED tasks
        /\ UNCHANGED <<apiKeys, issued, rows, loop>>

(* The frames of an answer go to the connection while its entry has it; an   *)
(* answer that closes the connection ends it.                                *)
WsDeferred(r) ==
    LET s == req[r].socket
    IN  /\ loop = Nobody /\ req[r].pc = "deferred" /\ req[r].kind = "ws"
        /\ req' = [req EXCEPT ![r] = IF sock[s].entry = "open" THEN Answered(@) ELSE Done(@)]
        /\ sock' = IF sock[s].entry = "open" /\ req[r].outcome = "failed"
                   THEN [sock EXCEPT ![s] = UnregisteredByCallback(@)] ELSE sock
        /\ UNCHANGED <<apiKeys, issued, rows, tasks, loop>>

-----------------------------------------------------------------------------
(* The dashboard meanwhile: keys for one model or for any, and their removal. *)
KeyAdministration ==
    /\ loop = Nobody
    /\ \E k \in KeyIds :
         \/ \E allowed \in {{}} \cup {{m} : m \in Models} : CreateApiKey(k, allowed, NoModel)
         \/ DeleteApiKey(k)
    /\ UNCHANGED <<req, sock, rows, tasks, loop>>

TaskStep(r) == WorkerStarts(r) \/ \E ok \in BOOLEAN : WorkerFinishes(r, ok)
LoopStep(r) == DeferredWrite(r) \/ WsDeferred(r) \/ \E ok \in BOOLEAN : SyncFinish(r, ok)

IngressNext ==
    \/ KeyAdministration
    \/ \E r \in Requests :
         \/ \E kind \in Kinds, id \in RequestIds, set \in SettingsRead, secret \in 0..issued :
              RequestArrives(r, kind, id, set, secret)
         \/ ClientAborts(r) \/ BodyRefused(r) \/ TaskStep(r) \/ LoopStep(r)
         \/ \E model \in Optional(Models) :
              \/ PolicyDenies(r, model) \/ CompactBody(r, model)
              \/ \E accepts \in BOOLEAN : ResponsesBody(r, model, accepts)
              \/ MemoriesBody(r, model) \/ TranscribeBody(r, model) \/ ChatCompletionsBody(r, model)
         \/ \E s \in Sockets, enabled \in BOOLEAN, model \in Optional(Models), accepts \in BOOLEAN :
              WsMessage(r, s, enabled, model, accepts)
    \/ WorkerTakesTask
    \/ \E s \in Sockets : WsClose(s) \/ \E set \in SettingsRead, secret \in 0..issued : WsUpgrade(s, set, secret)

(* The upstream answers or its client times out; workers and the loop run.   *)
(* Nothing obliges a client to send a body.                                  *)
IngressFairness ==
    /\ WF_ingressVars(WorkerTakesTask)
    /\ \A r \in Requests : WF_ingressVars(LoopStep(r)) /\ SF_ingressVars(TaskStep(r))

IngressSpec == IngressInit /\ [][IngressNext]_ingressVars /\ IngressFairness

-----------------------------------------------------------------------------
IngressTypeOK ==
    /\ KeysTypeOK
    /\ \A r \in Requests :
         /\ req[r].pc \in {"new", "body", "queued", "taken", "upstream", "deferred", "done"}
         /\ req[r].writes \in 0..1 /\ req[r].logs \in 0..1
    /\ \A s \in Sockets : sock[s].entry \in {"absent", "open", "stale"} /\ sock[s].open \in BOOLEAN
    /\ \A i \in Requests : rows[i].status \in {"none", "reserved", "settled", "released"}
    /\ Len(tasks) + Cardinality(InHand) <= kMaxInFlightTasks

(* A usage reservation ends as its own request ended, although requests may  *)
(* carry the same id and the key may be deleted or replaced meanwhile.       *)
ReservationMatchesOutcome ==
    \A i \in Requests :
        /\ rows[i].status = "settled" => req[rows[i].owner].outcome = "ok"
        /\ rows[i].status = "released" => req[rows[i].owner].outcome = "failed"

(* Every reservation made is settled or released.                            *)
ReservationsClose == \A i \in Requests : rows[i].status = "reserved" ~> rows[i].status # "reserved"

(* No handler writes to a response whose client has gone, and none answers   *)
(* twice.                                                                    *)
WritesOnceToLiveClient ==
    [][\A r \in Requests : req'[r].writes > req[r].writes => ~req[r].aborted /\ req[r].writes = 0]_ingressVars

(* The registry has a pointer exactly for the open connections: an answer    *)
(* that arrives after the close is dropped and not sent to freed memory.     *)
RegistryNamesOpenSockets == \A s \in Sockets : sock[s].entry = "open" <=> sock[s].open

(* A request for which the upstream was asked is logged exactly once.        *)
UpstreamUseIsLogged ==
    \A r \in Requests : req[r].outcome # "none" => req[r].logs = 1

(* What was queued is answered, or its client or connection has gone.        *)
QueuedIsAnswered ==
    \A r \in Requests : req[r].pc = "queued" ~>
        req[r].pc = "done" /\ (req[r].writes = 1 \/ req[r].aborted \/ req[r].kind = "ws")

(* The state of the routes, their reservations, the log, the registry and   *)
(* the key table agree in every state.                                      *)
IngressSafety ==
    /\ IngressTypeOK
    /\ ReservationMatchesOutcome
    /\ UpstreamUseIsLogged
    /\ RegistryNamesOpenSockets
    /\ EnforcedModelIsAllowed

(* Every request that got into the queue is answered and its reservation    *)
(* closed, on every way a request can end.                                  *)
RequestsComplete == QueuedIsAnswered /\ ReservationsClose
=============================================================================
