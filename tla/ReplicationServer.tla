------------------------- MODULE ReplicationServer -------------------------
(***************************************************************************)
(* The life of ReplicationSocketServer (sync/src/transport/                *)
(* replication_socket_server.cpp), which feeds the sessions of SyncIngress.*)
(*                                                                         *)
(* Three kinds of threads interleave: the control thread of the bridge,    *)
(* which calls start() and stop() one after the other; the listener start()*)
(* spawns, which runs run(); and the connection workers run() spawns.  They*)
(* share the atomics stop_requested_ and running_, the members guarded by  *)
(* mutex_ (the acceptor, last_error_, telemetry_), and the local queue of  *)
(* accepted connections guarded by a mutex of its own.                     *)
(*                                                                         *)
(* The queue's condition variable is modelled as it is: a worker that finds*)
(* nothing to do sleeps until it is notified or wakes for no reason, and   *)
(* nothing notifies it when stop_requested_ changes.                       *)
(*                                                                         *)
(* What a connection carries is SyncIngress's business; here it ends well  *)
(* or badly, at any time.                                                  *)
(***************************************************************************)
EXTENDS Naturals, Sequences, FiniteSets

CONSTANTS
    Workers,                    \* the connection workers run() spawns
    WorkersWithoutDb,           \* the ones SQLite refuses a handle
    Connections,                \* what peers may open between two start() calls
    NoConnection,
    kMaxPendingAcceptedConnections

ASSUME ReplicationServerAssumption ==
    /\ IsFiniteSet(Workers) /\ Workers # {} /\ WorkersWithoutDb \subseteq Workers
    /\ IsFiniteSet(Connections) /\ NoConnection \notin Connections
    /\ kMaxPendingAcceptedConnections \in Nat

VARIABLES
    control,                    \* where the control thread is
    snapshot,                   \* stop() copied a non-null acceptor_
    stop_requested, running,    \* stop_requested_, running_
    published,                  \* acceptor_ is set
    listening,                  \* the listening socket is open
    last_error,                 \* last_error_ is not empty
    listener,                   \* where the listener thread is
    accepted,                   \* the connection accept() returned
    accepting_connections, pending_connections,
    worker,                     \* where each connection worker is
    handled,                    \* the connection each worker owns
    telemetry,                  \* accepted, completed, failed and active connections
    conn                        \* history: what became of each connection

controlVars == <<control, snapshot>>
sharedVars == <<stop_requested, running, published, listening, last_error>>
listenerVars == <<listener, accepted, accepting_connections>>
workerVars == <<worker, handled>>
vars == <<controlVars, sharedVars, listenerVars, pending_connections, workerVars, telemetry, conn>>

Stopping == {"stop_flag", "stop_snapshot", "stop_close", "stop_join", "stop_final"}
ListenerStates ==
    {"none", "opening", "publishing", "spawning", "loop", "accept", "queueing", "notifying",
     "closing", "joining", "resetting", "ended"}
Ends == {"completed", "failed", "no_db", "abandoned"}
InQueue == {"queued", "late"}      \* "late": a stop had been requested already

NoTelemetry == [accepted |-> 0, completed |-> 0, failed |-> 0, active |-> 0]

\* The types, and who owns a socket: the listener while it queues one, a
\* worker while it handles one.
TypeOK ==
    /\ control \in {"idle", "start_join", "poll_running", "poll_error"} \union Stopping
    /\ {snapshot, stop_requested, running, published, listening, last_error,
        accepting_connections} \subseteq BOOLEAN
    /\ listener \in ListenerStates
    /\ accepted \in Connections \union {NoConnection}
    /\ pending_connections \in Seq(Connections)
    /\ worker \in [Workers -> {"none", "awake", "asleep", "handling", "exited"}]
    /\ handled \in [Workers -> Connections \union {NoConnection}]
    /\ telemetry \in [accepted : Nat, completed : Nat, failed : Nat, active : Nat]
    /\ conn \in [Connections -> {"new", "accepted", "handled"} \union InQueue \union Ends]
    /\ accepted # NoConnection <=> listener = "queueing"
    /\ \A w \in Workers : handled[w] # NoConnection <=> worker[w] = "handling"

Init ==
    /\ control = "idle" /\ snapshot = FALSE
    /\ stop_requested = FALSE /\ running = FALSE
    /\ published = FALSE /\ listening = FALSE /\ last_error = FALSE
    /\ listener = "none" /\ accepted = NoConnection
    /\ accepting_connections = FALSE /\ pending_connections = <<>>
    /\ worker = [w \in Workers |-> "none"]
    /\ handled = [w \in Workers |-> NoConnection]
    /\ telemetry = NoTelemetry
    /\ conn = [c \in Connections |-> "new"]

-----------------------------------------------------------------------------
(* Control thread *)

ControlStep(from, to) == control = from /\ control' = to

\* start() while running returns true and changes nothing.
Start ==
    /\ ControlStep("idle", "start_join")
    /\ ~running
    /\ stop_requested' = FALSE
    /\ last_error' = FALSE
    /\ telemetry' = NoTelemetry
    /\ conn' = [c \in Connections |-> "new"]
    /\ UNCHANGED <<snapshot, running, published, listening, listenerVars, pending_connections,
                   workerVars>>

\* A thread that is left over is joined before the new one is spawned.
StartSpawns ==
    /\ ControlStep("start_join", "poll_running")
    /\ listener \in {"none", "ended"}
    /\ listener' = "opening"
    /\ UNCHANGED <<snapshot, sharedVars, accepted, accepting_connections, pending_connections,
                   workerVars, telemetry, conn>>

\* The polling loop of start(): running_ first, last_error_ after it.  It gives
\* up when there is an error, or after 200 rounds.
PollRunning ==
    /\ ControlStep("poll_running", IF running THEN "idle" ELSE "poll_error")
    /\ UNCHANGED <<snapshot, sharedVars, listenerVars, pending_connections, workerVars,
                   telemetry, conn>>

PollError ==
    /\ \/ ~last_error /\ ControlStep("poll_error", "poll_running")
       \/ ControlStep("poll_error", "stop_flag")
    /\ UNCHANGED <<snapshot, sharedVars, listenerVars, pending_connections, workerVars,
                   telemetry, conn>>

Stop ==
    /\ ControlStep("idle", "stop_flag")
    /\ UNCHANGED <<snapshot, sharedVars, listenerVars, pending_connections, workerVars,
                   telemetry, conn>>

StopSetsFlag ==
    /\ ControlStep("stop_flag", "stop_snapshot")
    /\ stop_requested' = TRUE
    /\ UNCHANGED <<snapshot, running, published, listening, last_error, listenerVars,
                   pending_connections, workerVars, telemetry, conn>>

StopTakesSnapshot ==
    /\ ControlStep("stop_snapshot", "stop_close")
    /\ snapshot' = published
    /\ UNCHANGED <<sharedVars, listenerVars, pending_connections, workerVars, telemetry, conn>>

StopClosesAcceptor ==
    /\ ControlStep("stop_close", "stop_join")
    /\ listening' = (listening /\ ~snapshot)
    /\ UNCHANGED <<snapshot, stop_requested, running, published, last_error, listenerVars,
                   pending_connections, workerVars, telemetry, conn>>

StopJoinsListener ==
    /\ ControlStep("stop_join", "stop_final")
    /\ listener \in {"none", "ended"}
    /\ listener' = "none"
    /\ UNCHANGED <<snapshot, sharedVars, accepted, accepting_connections, pending_connections,
                   workerVars, telemetry, conn>>

StopReturns ==
    /\ ControlStep("stop_final", "idle")
    /\ published' = FALSE
    /\ running' = FALSE
    /\ UNCHANGED <<snapshot, stop_requested, listening, last_error, listenerVars,
                   pending_connections, workerVars, telemetry, conn>>

-----------------------------------------------------------------------------
(* Listener thread: run() *)

ListenerStep(from, to) == listener = from /\ listener' = to

\* The database, the schema and the acceptor, any of which may fail.
ListenerOpens(ok) ==
    /\ ListenerStep("opening", IF ok THEN "publishing" ELSE "ended")
    /\ listening' = ok
    /\ last_error' = (last_error \/ ~ok)
    /\ UNCHANGED <<controlVars, stop_requested, running, published, accepted,
                   accepting_connections, pending_connections, workerVars, telemetry, conn>>

ListenerPublishes ==
    /\ ListenerStep("publishing", "spawning")
    /\ published' = TRUE
    /\ UNCHANGED <<controlVars, stop_requested, running, listening, last_error, accepted,
                   accepting_connections, pending_connections, workerVars, telemetry, conn>>

ListenerSpawnsWorkers ==
    /\ ListenerStep("spawning", "loop")
    /\ running' = TRUE
    /\ accepting_connections' = TRUE
    /\ worker' = [w \in Workers |-> "awake"]
    /\ UNCHANGED <<controlVars, stop_requested, published, listening, last_error, accepted,
                   pending_connections, handled, telemetry, conn>>

\* mutant: the loop ends only when accept() fails
ListenerChecksStop_Always ==
    /\ ListenerStep("loop", "accept")
    /\ UNCHANGED <<controlVars, sharedVars, accepted, accepting_connections, pending_connections,
                   workerVars, telemetry, conn>>

ListenerChecksStop ==
    /\ ListenerStep("loop", IF stop_requested THEN "closing" ELSE "accept")
    /\ UNCHANGED <<controlVars, sharedVars, accepted, accepting_connections, pending_connections,
                   workerVars, telemetry, conn>>

ListenerAccepts(c) ==
    /\ ListenerStep("accept", "queueing")
    /\ listening
    /\ conn[c] = "new"
    /\ accepted' = c
    /\ conn' = [conn EXCEPT ![c] = "accepted"]
    /\ telemetry' = [telemetry EXCEPT !.accepted = @ + 1, !.active = @ + 1]
    /\ UNCHANGED <<controlVars, sharedVars, accepting_connections, pending_connections, workerVars>>

\* accept() fails: for good once the acceptor is closed, or for this once.
ListenerAcceptFails ==
    /\ ListenerStep("accept", IF stop_requested \/ ~listening THEN "closing" ELSE "loop")
    /\ last_error' = (last_error \/ (listening /\ ~stop_requested))
    /\ UNCHANGED <<controlVars, stop_requested, running, published, listening, accepted,
                   accepting_connections, pending_connections, workerVars, telemetry, conn>>

\* The connection is queued, or closed at once when the queue is full.
ListenerQueues ==
    /\ LET room == Len(pending_connections) < kMaxPendingAcceptedConnections
       IN  /\ ListenerStep("queueing", IF room THEN "notifying" ELSE "loop")
           /\ pending_connections' =
                IF room THEN Append(pending_connections, accepted) ELSE pending_connections
           /\ conn' = [conn EXCEPT ![accepted] =
                        IF ~room THEN "failed" ELSE IF stop_requested THEN "late" ELSE "queued"]
           /\ telemetry' =
                IF room THEN telemetry
                ELSE [telemetry EXCEPT !.failed = @ + 1,
                                       !.active = IF @ > 0 THEN @ - 1 ELSE @]
           /\ last_error' = (last_error \/ ~room)
    /\ accepted' = NoConnection
    /\ UNCHANGED <<controlVars, stop_requested, running, published, listening,
                   accepting_connections, workerVars>>

Asleep == {w \in Workers : worker[w] = "asleep"}

\* mutant: only the first connection of a burst is announced
ListenerNotifies_FirstOnly ==
    /\ ListenerStep("notifying", "loop")
    /\ \/ /\ Asleep = {} \/ Len(pending_connections) > 1
          /\ UNCHANGED worker
       \/ /\ Len(pending_connections) <= 1
          /\ \E w \in Asleep : worker' = [worker EXCEPT ![w] = "awake"]
    /\ UNCHANGED <<controlVars, sharedVars, accepted, accepting_connections, pending_connections,
                   handled, telemetry, conn>>

\* notify_one
ListenerNotifies ==
    /\ ListenerStep("notifying", "loop")
    /\ \/ Asleep = {} /\ UNCHANGED worker
       \/ \E w \in Asleep : worker' = [worker EXCEPT ![w] = "awake"]
    /\ UNCHANGED <<controlVars, sharedVars, accepted, accepting_connections, pending_connections,
                   handled, telemetry, conn>>

\* accepting_connections is cleared, then notify_all.
ListenerCloses ==
    /\ ListenerStep("closing", "joining")
    /\ accepting_connections' = FALSE
    /\ worker' = [w \in Workers |-> IF w \in Asleep THEN "awake" ELSE worker[w]]
    /\ UNCHANGED <<controlVars, sharedVars, accepted, pending_connections, handled, telemetry, conn>>

ListenerJoinsWorkers ==
    /\ ListenerStep("joining", "resetting")
    /\ \A w \in Workers : worker[w] = "exited"
    /\ worker' = [w \in Workers |-> "none"]
    /\ running' = FALSE
    /\ UNCHANGED <<controlVars, stop_requested, published, listening, last_error, accepted,
                   accepting_connections, pending_connections, handled, telemetry, conn>>

\* run() returns: the acceptor is dropped, and what is still queued with it.
ListenerEnds ==
    /\ ListenerStep("resetting", "ended")
    /\ published' = FALSE
    /\ listening' = FALSE
    /\ pending_connections' = <<>>
    /\ conn' = [c \in Connections |-> IF conn[c] = "queued" THEN "abandoned" ELSE conn[c]]
    /\ UNCHANGED <<controlVars, stop_requested, running, last_error, accepted,
                   accepting_connections, workerVars, telemetry>>

-----------------------------------------------------------------------------
(* Connection workers *)

\* A condition variable may wake a thread for no reason.
WorkerWakes(w) ==
    /\ worker[w] = "asleep"
    /\ worker' = [worker EXCEPT ![w] = "awake"]
    /\ UNCHANGED <<controlVars, sharedVars, listenerVars, pending_connections, handled,
                   telemetry, conn>>

\* mutant: a worker leaves as soon as a stop is requested, whatever is queued
WorkerChecksQueue_NoDrain(w) ==
    /\ worker[w] = "awake"
    /\ IF pending_connections # <<>> /\ ~stop_requested
       THEN LET c == Head(pending_connections)
            IN  /\ handled' = [handled EXCEPT ![w] = c]
                /\ pending_connections' = Tail(pending_connections)
                /\ conn' = [conn EXCEPT ![c] = "handled"]
                /\ worker' = [worker EXCEPT ![w] = "handling"]
       ELSE /\ worker' = [worker EXCEPT ![w] =
                            IF stop_requested \/ ~accepting_connections
                            THEN "exited" ELSE "asleep"]
            /\ UNCHANGED <<handled, pending_connections, conn>>
    /\ UNCHANGED <<controlVars, sharedVars, listenerVars, telemetry>>

\* Under the queue's mutex: take a connection, leave, or wait.
WorkerChecksQueue(w) ==
    /\ worker[w] = "awake"
    /\ IF pending_connections # <<>>
       THEN LET c == Head(pending_connections)
            IN  /\ handled' = [handled EXCEPT ![w] = c]
                /\ pending_connections' = Tail(pending_connections)
                /\ conn' = [conn EXCEPT ![c] = "handled"]
                /\ worker' = [worker EXCEPT ![w] = "handling"]
       ELSE /\ worker' = [worker EXCEPT ![w] =
                            IF stop_requested \/ ~accepting_connections
                            THEN "exited" ELSE "asleep"]
            /\ UNCHANGED <<handled, pending_connections, conn>>
    /\ UNCHANGED <<controlVars, sharedVars, listenerVars, telemetry>>

WorkerDone(w, end) ==
    /\ worker' = [worker EXCEPT ![w] = "awake"]
    /\ handled' = [handled EXCEPT ![w] = NoConnection]
    /\ conn' = [conn EXCEPT ![handled[w]] = end]

\* Without a database handle the connection is closed and counted nowhere.
WorkerHasNoDb(w) ==
    /\ worker[w] = "handling"
    /\ w \in WorkersWithoutDb
    /\ WorkerDone(w, "no_db")
    /\ last_error' = TRUE
    /\ UNCHANGED <<controlVars, stop_requested, running, published, listening, listenerVars,
                   pending_connections, telemetry>>

\* handle_plain_connection and handle_tls_connection: mark_complete at the end
\* of the stream or when a stop is requested, mark_failure on any error.
WorkerHandles(w, ok) ==
    /\ worker[w] = "handling"
    /\ w \notin WorkersWithoutDb
    /\ WorkerDone(w, IF ok THEN "completed" ELSE "failed")
    /\ telemetry' = [telemetry EXCEPT
                       !.completed = @ + (IF ok THEN 1 ELSE 0),
                       !.failed = @ + (IF ok THEN 0 ELSE 1),
                       !.active = IF @ > 0 THEN @ - 1 ELSE @]
    /\ last_error' = (last_error \/ ~ok)
    /\ UNCHANGED <<controlVars, stop_requested, running, published, listening, listenerVars,
                   pending_connections>>

-----------------------------------------------------------------------------
StopStep ==
    \/ StopSetsFlag \/ StopTakesSnapshot \/ StopClosesAcceptor \/ StopJoinsListener \/ StopReturns

StartStep == StartSpawns \/ PollRunning \/ PollError

\* What the listener does without waiting for a peer.
ListenerRuns ==
    \/ \E ok \in BOOLEAN : ListenerOpens(ok)
    \/ ListenerPublishes \/ ListenerSpawnsWorkers \/ ListenerChecksStop
    \/ ListenerQueues \/ ListenerNotifies
    \/ ListenerCloses \/ ListenerJoinsWorkers \/ ListenerEnds
    \/ ~listening /\ ListenerAcceptFails

WorkerHandlesAny(w) == WorkerHasNoDb(w) \/ \E ok \in BOOLEAN : WorkerHandles(w, ok)

Next ==
    \/ Start \/ StartStep \/ Stop \/ StopStep
    \/ ListenerRuns
    \/ ListenerAcceptFails
    \/ \E c \in Connections : ListenerAccepts(c)
    \/ \E w \in Workers : WorkerWakes(w) \/ WorkerChecksQueue(w) \/ WorkerHandlesAny(w)

\* Threads that can run do run; closing the acceptor makes a blocked accept()
\* fail; and once a stop is requested a handler ends, since its loop tests the
\* flag and its reads time out.  Nobody has to call start() or stop() or to
\* connect, accept() need not fail, and no thread wakes without being notified.
Fairness ==
    /\ WF_vars(StopStep) /\ WF_vars(ListenerRuns)
    /\ \A w \in Workers :
         /\ WF_vars(WorkerChecksQueue(w))
         /\ WF_vars(stop_requested /\ WorkerHandlesAny(w))

Spec == Init /\ [][Next]_vars /\ Fairness

-----------------------------------------------------------------------------
(* Properties *)

\* The counters account for every connection at every moment: each accepted
\* connection is completed, failed or active, and the active ones are those
\* queued or being handled and, for good, those that lost their worker: no
\* database handle (replication_socket_server.cpp:699), or queued after the
\* last worker had left.
TelemetryBalances ==
    LET In(S) == Cardinality({c \in Connections : conn[c] \in S})
    IN  /\ telemetry.accepted = telemetry.completed + telemetry.failed + telemetry.active
        /\ telemetry.completed = In({"completed"})
        /\ telemetry.failed = In({"failed"})
        /\ telemetry.active = In({"accepted", "queued", "late", "handled", "no_db", "abandoned"})

\* No wakeup is lost although the queue announces each connection to one
\* worker only: while a worker sleeps, as many are awake as there are
\* connections queued and announced.
NoLostWakeup ==
    Asleep # {} =>
        Cardinality({w \in Workers : worker[w] = "awake"}) + (IF listener = "notifying" THEN 1 ELSE 0)
            >= Len(pending_connections)

\* When no call is in progress the server is fully up, or fully down with no
\* thread left that the next start() would assign over.
FullyUpOrFullyDown ==
    control = "idle" =>
        IF running
        THEN listener \notin {"none", "ended"} /\ published
        ELSE /\ listener = "none" /\ ~published /\ ~listening
             /\ pending_connections = <<>>
             /\ \A w \in Workers : worker[w] = "none" /\ handled[w] = NoConnection

\* A connection queued before stop() was called gets a worker: the workers
\* drain the queue before they leave (replication_socket_server.cpp:687).
QueuedBeforeStopIsHandled == \A c \in Connections : conn[c] # "abandoned"

\* What holds of the listener and its workers in every state: types, balanced
\* counters, no lost wakeup, and up or down as a whole.
ListenerSafety == TypeOK /\ TelemetryBalances /\ NoLostWakeup /\ FullyUpOrFullyDown

\* stop() returns, whenever it is called: also as the tail of a start() that
\* gave up before the listener published its acceptor, which stop() then
\* cannot close (replication_socket_server.cpp:258-269).
StopTerminates == control \in Stopping ~> control = "idle"
=============================================================================
