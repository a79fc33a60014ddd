--------------------------- MODULE ServerRuntime ---------------------------
(***************************************************************************)
(* Runtime::start() and Runtime::stop() of the HTTP server                 *)
(* (native/server/src/server.cpp) composed with the task executor.         *)
(*                                                                         *)
(* Three kinds of threads interleave: the control thread of the native     *)
(* bridge, which calls start() and stop() one after the other; the server  *)
(* thread start() spawns, which starts the executor, wires the routes,     *)
(* listens and runs the uWS event loop; and the executor's workers.  The   *)
(* event loop belongs to the server thread and is freed when that thread   *)
(* ends, but stop() and every proxied request use it through a pointer     *)
(* they took earlier (loop->defer).                                        *)
(***************************************************************************)
EXTENDS AsyncExecutor

CONSTANT
    BackgroundTasks     \* tasks that never touch the loop: usage refreshes

ASSUME BackgroundAssumption == BackgroundTasks \subseteq Tasks

VARIABLES
    running, startup_done, startup_ok,
    published,          \* impl_->loop and impl_->app are set
    server,             \* the server thread
    closeDeferred,      \* app->close() is queued on the loop
    refresher,          \* token_refresh_worker
    control,            \* where the control thread is
    snapshot,           \* stop() copied a non-null loop and app
    listenFailed, startupTimedOut, idleTimedOut,    \* history of this start
    deadLoopUse         \* history: loop->defer on a freed loop

lifeVars ==
    <<running, startup_done, startup_ok, published, server, closeDeferred, refresher,
      control, snapshot, listenFailed, startupTimedOut, idleTimedOut, deadLoopUse>>

vars == <<execVars, lifeVars>>

ServerStates ==
    {"none", "spawned", "executor_started", "published", "running", "leaving", "exited"}

StopStates ==
    {"stop_snapshot", "stop_accepting", "stop_wait_idle", "stop_close", "stop_join_refresher",
     "stop_join_server", "stop_shutdown", "stop_join_pool", "stop_final"}

TypeOK ==
    /\ ExecTypeOK
    /\ {running, startup_done, startup_ok, published, closeDeferred, snapshot,
        listenFailed, startupTimedOut, idleTimedOut, deadLoopUse} \subseteq BOOLEAN
    /\ server \in ServerStates
    /\ refresher \in {"none", "running", "stop_requested", "exited"}
    /\ control \in StopStates \union {"idle", "wait_startup"}

Init ==
    /\ ExecInit
    /\ running = FALSE /\ startup_done = FALSE /\ startup_ok = FALSE
    /\ published = FALSE /\ closeDeferred = FALSE /\ snapshot = FALSE
    /\ server = "none" /\ refresher = "none" /\ control = "idle"
    /\ listenFailed = FALSE /\ startupTimedOut = FALSE /\ idleTimedOut = FALSE
    /\ deadLoopUse = FALSE

LoopAlive == server \notin {"none", "exited"}

-----------------------------------------------------------------------------
(* Control thread: start(). *)

(* A call while running returns true and changes nothing. *)
Start ==
    /\ control = "idle"
    /\ ~running
    /\ startup_done' = FALSE
    /\ startup_ok' = FALSE
    /\ server' = "spawned"
    /\ control' = "wait_startup"
    /\ closeDeferred' = FALSE
    /\ listenFailed' = FALSE /\ startupTimedOut' = FALSE /\ idleTimedOut' = FALSE
    /\ deadLoopUse' = FALSE
    /\ UNCHANGED <<execVars, running, published, refresher, snapshot>>

(* startup_cv reported the outcome: go on, or undo everything with stop(). *)
StartupSignalled ==
    /\ control = "wait_startup"
    /\ startup_done
    /\ IF startup_ok
       THEN control' = "idle" /\ refresher' = "running"
       ELSE control' = "stop_snapshot" /\ UNCHANGED refresher
    /\ UNCHANGED <<execVars, running, startup_done, startup_ok, published, server, closeDeferred,
                   snapshot, listenFailed, startupTimedOut, idleTimedOut, deadLoopUse>>

(* The five seconds passed first. *)
StartupTimeout ==
    /\ control = "wait_startup"
    /\ ~startup_done
    /\ startupTimedOut' = TRUE
    /\ control' = "stop_snapshot"
    /\ UNCHANGED <<execVars, running, startup_done, startup_ok, published, server, closeDeferred,
                   refresher, snapshot, listenFailed, idleTimedOut, deadLoopUse>>

-----------------------------------------------------------------------------
(* Server thread. *)

ServerStep(from, to) == server = from /\ server' = to

ServerStartsExecutor ==
    /\ ServerStep("spawned", "executor_started")
    /\ ExecStart
    /\ UNCHANGED <<running, startup_done, startup_ok, published, closeDeferred, refresher,
                   control, snapshot, listenFailed, startupTimedOut, idleTimedOut, deadLoopUse>>

ServerPublishesLoop ==
    /\ ServerStep("executor_started", "published")
    /\ published' = TRUE
    /\ UNCHANGED <<execVars, running, startup_done, startup_ok, closeDeferred, refresher,
                   control, snapshot, listenFailed, startupTimedOut, idleTimedOut, deadLoopUse>>

(* app->listen() calls back before it returns, with a socket or without. *)
ServerListens(socket) ==
    /\ ServerStep("published", IF socket THEN "running" ELSE "leaving")
    /\ startup_ok' = socket
    /\ startup_done' = TRUE
    /\ running' = socket
    /\ listenFailed' = ~socket
    /\ UNCHANGED <<execVars, published, closeDeferred, refresher, control, snapshot,
                   startupTimedOut, idleTimedOut, deadLoopUse>>

(* app->run() returns once the deferred app->close() has run. *)
LoopRunsClose ==
    /\ ServerStep("running", "leaving")
    /\ closeDeferred
    /\ UNCHANGED <<execVars, running, startup_done, startup_ok, published, closeDeferred, refresher,
                   control, snapshot, listenFailed, startupTimedOut, idleTimedOut, deadLoopUse>>

ServerExits ==
    /\ ServerStep("leaving", "exited")
    /\ running' = FALSE
    /\ published' = FALSE
    /\ UNCHANGED <<execVars, startup_done, startup_ok, closeDeferred, refresher, control, snapshot,
                   listenFailed, startupTimedOut, idleTimedOut, deadLoopUse>>

(* Routes run on the loop and enqueue the request; a request that ends     *)
(* may enqueue a usage refresh from its worker.                            *)
Submit(t) ==
    /\ Enqueue(t)
    /\ IF t \in BackgroundTasks
       THEN \E w \in Workers : thread[w] = "running" /\ current[w] \notin BackgroundTasks
       ELSE server = "running"
    /\ UNCHANGED lifeVars

(* A worker takes the next task, or ends because the pool is stopping. *)
WorkerStep(w) ==
    /\ WorkerTake(w) \/ WorkerExit(w)
    /\ UNCHANGED lifeVars

(* A task answers its client through loop->defer before it returns. *)
TaskReturns(w) ==
    /\ WorkerFinish(w)
    /\ deadLoopUse' = (deadLoopUse \/ (current[w] \notin BackgroundTasks /\ ~LoopAlive))
    /\ UNCHANGED <<running, startup_done, startup_ok, published, server, closeDeferred, refresher,
                   control, snapshot, listenFailed, startupTimedOut, idleTimedOut>>

RefresherExits ==
    /\ refresher = "stop_requested"
    /\ refresher' = "exited"
    /\ UNCHANGED <<execVars, running, startup_done, startup_ok, published, server, closeDeferred,
                   control, snapshot, listenFailed, startupTimedOut, idleTimedOut, deadLoopUse>>

-----------------------------------------------------------------------------
(* Control thread: stop(), also the tail of a failed start(). *)

ControlStep(from, to) == control = from /\ control' = to

Stop ==
    /\ ControlStep("idle", "stop_snapshot")
    /\ UNCHANGED <<execVars, running, startup_done, startup_ok, published, server, closeDeferred,
                   refresher, snapshot, listenFailed, startupTimedOut, idleTimedOut, deadLoopUse>>

StopTakesSnapshot ==
    /\ ControlStep("stop_snapshot", "stop_accepting")
    /\ snapshot' = published
    /\ UNCHANGED <<execVars, running, startup_done, startup_ok, published, server, closeDeferred,
                   refresher, listenFailed, startupTimedOut, idleTimedOut, deadLoopUse>>

StopStopsAccepting ==
    /\ ControlStep("stop_accepting", "stop_wait_idle")
    /\ StopAccepting
    /\ UNCHANGED <<running, startup_done, startup_ok, published, server, closeDeferred, refresher,
                   snapshot, listenFailed, startupTimedOut, idleTimedOut, deadLoopUse>>

(* wait_idle(5 s) returned, with or without the executor being idle. *)
StopWaitedIdle ==
    /\ ControlStep("stop_wait_idle", "stop_close")
    /\ idleTimedOut' = (idleTimedOut \/ ~Idle)
    /\ UNCHANGED <<execVars, running, startup_done, startup_ok, published, server, closeDeferred,
                   refresher, snapshot, listenFailed, startupTimedOut, deadLoopUse>>

(* mutant: close() is not deferred *)
StopDefersClose_NoClose ==
    /\ ControlStep("stop_close", "stop_join_refresher")
    /\ refresher' = IF refresher = "none" THEN "none" ELSE "stop_requested"
    /\ UNCHANGED <<execVars, running, startup_done, startup_ok, published, server, closeDeferred,
                   snapshot, listenFailed, startupTimedOut, idleTimedOut, deadLoopUse>>

(* Ask the refresher to stop and defer app->close() on the loop copied     *)
(* earlier.                                                                *)
StopDefersClose ==
    /\ ControlStep("stop_close", "stop_join_refresher")
    /\ refresher' = IF refresher = "none" THEN "none" ELSE "stop_requested"
    /\ closeDeferred' = (snapshot /\ LoopAlive)
    /\ deadLoopUse' = (deadLoopUse \/ (snapshot /\ ~LoopAlive))
    /\ UNCHANGED <<execVars, running, startup_done, startup_ok, published, server,
                   snapshot, listenFailed, startupTimedOut, idleTimedOut>>

StopJoinsRefresher ==
    /\ ControlStep("stop_join_refresher", "stop_join_server")
    /\ refresher \in {"none", "exited"}
    /\ refresher' = "none"
    /\ UNCHANGED <<execVars, running, startup_done, startup_ok, published, server, closeDeferred,
                   snapshot, listenFailed, startupTimedOut, idleTimedOut, deadLoopUse>>

StopJoinsServer ==
    /\ ControlStep("stop_join_server", "stop_shutdown")
    /\ server \in {"none", "exited"}
    /\ server' = "none"
    /\ UNCHANGED <<execVars, running, startup_done, startup_ok, published, closeDeferred, refresher,
                   snapshot, listenFailed, startupTimedOut, idleTimedOut, deadLoopUse>>

StopShutsExecutorDown ==
    /\ \/ ControlStep("stop_shutdown", "stop_join_pool") /\ ShutdownBegin
       \/ ControlStep("stop_join_pool", "stop_final") /\ ShutdownEnd
    /\ UNCHANGED <<running, startup_done, startup_ok, published, server, closeDeferred, refresher,
                   snapshot, listenFailed, startupTimedOut, idleTimedOut, deadLoopUse>>

StopReturns ==
    /\ ControlStep("stop_final", "idle")
    /\ running' = FALSE
    /\ published' = FALSE
    /\ startup_done' = FALSE
    /\ startup_ok' = FALSE
    /\ UNCHANGED <<execVars, server, closeDeferred, refresher, snapshot, listenFailed,
                   startupTimedOut, idleTimedOut, deadLoopUse>>

StopStep ==
    \/ StopTakesSnapshot \/ StopStopsAccepting \/ StopWaitedIdle \/ StopDefersClose
    \/ StopJoinsRefresher \/ StopJoinsServer \/ StopShutsExecutorDown \/ StopReturns

ServerThread ==
    \/ ServerStartsExecutor \/ ServerPublishesLoop
    \/ \E socket \in BOOLEAN : ServerListens(socket)
    \/ LoopRunsClose \/ ServerExits

Next ==
    \/ Start \/ StartupSignalled \/ StartupTimeout
    \/ ServerThread
    \/ \E t \in Tasks : Submit(t)
    \/ \E w \in Workers : WorkerStep(w) \/ TaskReturns(w)
    \/ RefresherExits
    \/ Stop \/ StopStep

(* Threads that can run do run, and tasks return: every upstream call a    *)
(* task makes has a deadline.  Nobody has to call start() or stop(), submit*)
(* a request, or let a timeout pass.                                       *)
Fairness ==
    /\ WF_vars(StartupSignalled) /\ WF_vars(StopStep)
    /\ WF_vars(ServerThread) /\ WF_vars(RefresherExits)
    /\ \A w \in Workers : WF_vars(WorkerStep(w)) /\ WF_vars(TaskReturns(w))

Spec == Init /\ [][Next]_vars /\ Fairness

-----------------------------------------------------------------------------
(* Properties *)

Pool == INSTANCE TaskPool WITH
    Capacity <- kMaxInFlightTasks,
    open <- accepting_,
    waiting <- queue_,
    running <- {current[w] : w \in Running},
    ended <- {t \in Tasks : fate[t] = "done"},
    refused <- {t \in Tasks : fate[t] = "rejected"}

(* Whatever start(), stop(), their timeouts and the workers do, the        *)
(* executor is one bounded first-in first-out pool to the routes: what it  *)
(* accepts begins in order and is run once, on one thread, to its end; it  *)
(* refuses only while it is closed or full (async_executor.cpp:74-86); and *)
(* a restarted pool takes no task before the last of its predecessor's has *)
(* ended.                                                                  *)
ImplementsTaskPool == Pool!PoolSpec

(* in_flight_ is the number of tasks being run, and with the queue it never*)
(* exceeds kMaxInFlightTasks (async_executor.cpp:81, 102, 110).            *)
InFlightCountsRunningTasks ==
    /\ in_flight_ = Cardinality(Running)
    /\ Len(queue_) + in_flight_ <= kMaxInFlightTasks

(* An accepted request is never discarded: the queue_.clear() of shutdown()*)
(* (async_executor.cpp:67) finds the queue empty, because the workers drain*)
(* it before they exit.                                                    *)
AcceptedTasksAreNotDropped == \A t \in Tasks : fate[t] # "dropped"

(* When no call is in progress the server is either fully up, with its     *)
(* thread and its worker pool alive, or fully down: no thread is left to be*)
(* assigned over by the next start() (which would terminate the process).  *)
FullyUpOrFullyDown ==
    control = "idle" =>
        IF running
        THEN /\ server = "running" /\ refresher = "running"
             /\ accepting_ /\ ~stopping_ /\ workers_ = Workers
        ELSE /\ server = "none" /\ refresher = "none" /\ ~published
             /\ ~accepting_ /\ ~stopping_ /\ queue_ = <<>>
             /\ \A w \in Workers : thread[w] = "none"

(* loop->defer is called on a freed event loop only in the two windows the *)
(* code leaves open: stop() after a failed listen(), which copied the loop *)
(* before the server thread ended (server.cpp:154, 168), and tasks that    *)
(* outlive the five seconds of wait_idle (server.cpp:161).                 *)
DeadLoopUseNeedsLateTaskOrFailedListen ==
    deadLoopUse => listenFailed \/ idleTimedOut

(* What holds of the server in every state: its variables have their types,*)
(* in_flight_ and the queue are within their limit, nothing accepted is    *)
(* dropped, it is up or down as a whole, and its loop is used after its    *)
(* end only in the two windows above.                                      *)
ServerSafety ==
    /\ TypeOK
    /\ InFlightCountsRunningTasks
    /\ AcceptedTasksAreNotDropped
    /\ FullyUpOrFullyDown
    /\ DeadLoopUseNeedsLateTaskOrFailedListen

(* An accepted request is eventually run to its end, whatever start() and  *)
(* stop() do meanwhile.                                                    *)
AcceptedTasksRun == \A t \in Tasks : fate[t] = "queued" ~> fate[t] = "done"

(* stop() returns, unless start() timed out before the server thread       *)
(* published its loop: then nobody closes it and stop() joins it forever.  *)
StopTerminates ==
    control \in StopStates /\ ~startupTimedOut ~> control = "idle"
=============================================================================
