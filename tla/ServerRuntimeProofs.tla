------------------------ MODULE ServerRuntimeProofs ------------------------
(***************************************************************************)
(* ServerSafety is proved of every number of workers and tasks and every   *)
(* limit of the executor.  What it needs beyond itself is where the three  *)
(* kinds of threads can be relative to each other: which pool exists while *)
(* the control thread is at a step of stop() (PoolShape), what the server  *)
(* thread has set up by then (Phases), and who can still be using the loop *)
(* once its thread may end (LoopUsers).                                    *)
(*                                                                         *)
(* The executor implements TaskPool for the same constants.  That rests on *)
(* IInv, on a queue without repetitions whose tasks are waiting            *)
(* (QueueExact), and on threads that run different tasks, as many as       *)
(* in_flight_ says (RunnersExact).                                         *)
(***************************************************************************)
EXTENDS ServerRuntime, FiniteSetTheorems, TLAPS

\* Nothing is queued or run, and nothing more is taken.
Quiet == ~accepting_ /\ queue_ = <<>> /\ \A w \in Workers : thread[w] # "running"

\* The pool is absent, at work, or swapped out and being joined.
PoolShape ==
    /\ workers_ = {} /\ joining = {} =>
         queue_ = <<>> /\ ~accepting_ /\ \A w \in Workers : thread[w] = "none"
    /\ workers_ # {} =>
         /\ workers_ = Workers /\ joining = {}
         /\ \A w \in Workers : thread[w] \in {"waiting", "running"}
    /\ joining # {} =>
         /\ joining = Workers /\ control = "stop_join_pool"
         /\ \A w \in Workers : thread[w] # "none"
    /\ \A w \in Workers : thread[w] = "exited" => queue_ = <<>>
    /\ stopping_ <=> control = "stop_join_pool"
    /\ accepting_ => workers_ # {}

\* A task that was accepted and not yet taken is in the queue.
QueuedAreInQueue ==
    \A t \in Tasks : fate[t] = "queued" => \E i \in 1 .. Len(queue_) : queue_[i] = t

\* What is set up while the control thread is at a step.
Phases ==
    /\ server \in {"none", "spawned"} /\ control # "stop_shutdown" => workers_ = {}
    /\ server \notin {"none", "spawned"} => workers_ # {}
    /\ control \in {"stop_shutdown", "stop_join_pool", "stop_final"} => server = "none"
    /\ control \in {"stop_join_pool", "stop_final"} => workers_ = {}
    /\ control = "wait_startup" => server # "none" /\ refresher = "none"
    /\ control = "wait_startup" /\ startup_ok => server = "running"
    /\ control = "idle" => server \in {"none", "running"}
    /\ control \in {"idle", "wait_startup"} /\ server \notin {"none", "spawned"} => accepting_
    /\ server = "running" => running
    /\ running => server \in {"running", "leaving"}
    /\ published => server \in {"published", "running", "leaving"}
    /\ control = "idle" => refresher = IF server = "running" THEN "running" ELSE "none"
    /\ control \in {"stop_snapshot", "stop_accepting", "stop_wait_idle", "stop_close"} =>
         refresher \in {"none", "running"}
    /\ control \in {"stop_join_server", "stop_shutdown", "stop_join_pool", "stop_final"} =>
         refresher = "none"

\* The loop's thread ends because listen() failed or because stop() asked it
\* to, and stop() asks only after it has waited for the tasks.
LoopUsers ==
    /\ closeDeferred /\ server # "none" =>
         snapshot /\ control \in {"stop_join_refresher", "stop_join_server"}
    /\ snapshot /\ control \in {"stop_accepting", "stop_wait_idle", "stop_close",
                                "stop_join_refresher", "stop_join_server"} =>
         server \in {"published", "running", "leaving", "exited"}
    /\ snapshot /\ control = "stop_wait_idle" => ~accepting_
    /\ snapshot /\ control \in {"stop_close", "stop_join_refresher", "stop_join_server"} =>
         idleTimedOut \/ Quiet
    /\ server \in {"leaving", "exited"} => listenFailed \/ closeDeferred
    /\ control \in {"stop_shutdown", "stop_join_pool"} => listenFailed \/ idleTimedOut \/ Quiet
    /\ server \in {"spawned", "executor_started", "published"} => ~listenFailed
    /\ deadLoopUse => listenFailed \/ idleTimedOut

IInv ==
    /\ TypeOK /\ InFlightCountsRunningTasks /\ AcceptedTasksAreNotDropped
    /\ PoolShape /\ QueuedAreInQueue /\ Phases /\ LoopUsers

-----------------------------------------------------------------------------
(* Steps that leave the executor alone *)

\* Finitely many threads run a task, and none if in_flight_ is 0.
LEMMA RunningFinite ==
    /\ IsFiniteSet(Running) /\ Cardinality(Running) \in Nat
    /\ Cardinality(Running) = 0 => Running = {}
<1>1. IsFiniteSet(Running)
  BY ExecutorAssumption, FS_Subset DEF Running
<1> QED BY <1>1, FS_CardinalityType, FS_EmptySet

\* What is said of the tasks alone is kept by whoever does not touch them.
LEMMA TasksUntouched ==
    ASSUME IInv, UNCHANGED execVars
    PROVE  /\ ExecTypeOK' /\ InFlightCountsRunningTasks'
           /\ AcceptedTasksAreNotDropped' /\ QueuedAreInQueue'
  BY DEF IInv, TypeOK, execVars, ExecTypeOK, InFlightCountsRunningTasks, Running,
         AcceptedTasksAreNotDropped, QueuedAreInQueue

\* start() and the server thread, from the spawn to its end.
LEMMA StartingKeeps ==
    ASSUME IInv,
           \/ Start \/ StartupSignalled \/ StartupTimeout
           \/ ServerPublishesLoop \/ (\E socket \in BOOLEAN : ServerListens(socket))
           \/ LoopRunsClose \/ ServerExits
    PROVE  IInv'
<1>1. UNCHANGED execVars
  BY DEF Start, StartupSignalled, StartupTimeout, ServerPublishesLoop, ServerListens,
         LoopRunsClose, ServerExits
<1>2. SUFFICES TypeOK' /\ PoolShape' /\ Phases' /\ LoopUsers'
  BY <1>1, TasksUntouched DEF IInv
<1> USE TasksUntouched, <1>1 DEF IInv, TypeOK, PoolShape, Phases, LoopUsers, Quiet, execVars,
        ServerStates, StopStates, ServerStep
<1>3. CASE Start
  <2>1. TypeOK'
    BY <1>3 DEF Start
  <2>2. PoolShape' /\ Phases'
    BY <1>3 DEF Start
  <2>3. LoopUsers'
    BY <1>3 DEF Start
  <2> QED BY <2>1, <2>2, <2>3
<1>4. CASE StartupSignalled
  BY <1>4 DEF StartupSignalled
<1>5. CASE StartupTimeout
  BY <1>5 DEF StartupTimeout
<1>6. CASE ServerPublishesLoop
  BY <1>6 DEF ServerPublishesLoop
<1>7. ASSUME NEW socket \in BOOLEAN, ServerListens(socket)
      PROVE  TypeOK' /\ PoolShape' /\ Phases' /\ LoopUsers'
  <2>1. TypeOK'
    BY <1>7 DEF ServerListens
  <2>2. PoolShape' /\ Phases'
    BY <1>7 DEF ServerListens
  <2>3. LoopUsers'
    <3>1. CASE socket = TRUE
      BY <1>7, <3>1 DEF ServerListens
    <3>2. CASE socket = FALSE
      <4>1. listenFailed' = TRUE
        BY <1>7, <3>2 DEF ServerListens
      <4> QED BY <1>7, <3>2, <4>1 DEF ServerListens
    <3> QED BY <3>1, <3>2
  <2> QED BY <2>1, <2>2, <2>3
<1>8. CASE LoopRunsClose
  BY <1>8 DEF LoopRunsClose
<1>9. CASE ServerExits
  <2>1. TypeOK'
    BY <1>9 DEF ServerExits
  <2>2. PoolShape' /\ Phases'
    BY <1>9 DEF ServerExits
  <2>3. LoopUsers'
    BY <1>9 DEF ServerExits
  <2> QED BY <2>1, <2>2, <2>3
<1> QED BY <1>3, <1>4, <1>5, <1>6, <1>7, <1>8, <1>9

\* stop(), up to the shutdown of the executor, and its return.
LEMMA StoppingKeeps ==
    ASSUME IInv,
           \/ RefresherExits \/ Stop \/ StopTakesSnapshot \/ StopWaitedIdle
           \/ StopDefersClose \/ StopJoinsRefresher \/ StopJoinsServer \/ StopReturns
    PROVE  IInv'
<1>1. UNCHANGED execVars
  BY DEF RefresherExits, Stop, StopTakesSnapshot, StopWaitedIdle, StopDefersClose,
         StopJoinsRefresher, StopJoinsServer, StopReturns
<1>2. SUFFICES TypeOK' /\ PoolShape' /\ Phases' /\ LoopUsers'
  BY <1>1, TasksUntouched DEF IInv
<1> USE TasksUntouched, <1>1 DEF IInv, TypeOK, PoolShape, Phases, LoopUsers, Quiet, execVars,
        ServerStates, StopStates, ControlStep, LoopAlive
<1>3. CASE RefresherExits
  BY <1>3 DEF RefresherExits
<1>4. CASE Stop
  BY <1>4 DEF Stop
<1>5. CASE StopTakesSnapshot
  BY <1>5 DEF StopTakesSnapshot
<1>6. CASE StopWaitedIdle
  <2>1. Idle => \A w \in Workers : thread[w] # "running"
    BY RunningFinite DEF Idle, InFlightCountsRunningTasks, Running
  <2> QED BY <1>6, <2>1 DEF StopWaitedIdle, Idle
<1>7. CASE StopDefersClose
  BY <1>7 DEF StopDefersClose
<1>8. CASE StopJoinsRefresher
  BY <1>8 DEF StopJoinsRefresher
<1>9. CASE StopJoinsServer
  BY <1>9 DEF StopJoinsServer
<1>10. CASE StopReturns
  <2>1. TypeOK'
    BY <1>10 DEF StopReturns
  <2>2. PoolShape' /\ Phases'
    BY <1>10 DEF StopReturns
  <2>3. LoopUsers'
    BY <1>10 DEF StopReturns
  <2> QED BY <2>1, <2>2, <2>3
<1> QED BY <1>3, <1>4, <1>5, <1>6, <1>7, <1>8, <1>9, <1>10

-----------------------------------------------------------------------------
(* Steps of the executor *)

\* start() of the executor finds no pool and creates the whole of it.
LEMMA ExecStartKeeps ==
    ASSUME IInv, ServerStartsExecutor
    PROVE  IInv'
<1> USE DEF IInv, ServerStartsExecutor, ServerStep, ExecStart
<1>1. /\ workers_' = Workers /\ joining' = {} /\ queue_' = <<>>
      /\ thread' = [w \in Workers |-> "waiting"]
  BY DEF PoolShape, Phases, TypeOK, ExecTypeOK
<1>2. TypeOK'
  BY <1>1 DEF TypeOK, ExecTypeOK, ServerStates
<1>3. InFlightCountsRunningTasks'
  <2>1. Running' = {} /\ Running = {}
    BY <1>1 DEF Running, PoolShape, Phases
  <2> QED BY <2>1 DEF InFlightCountsRunningTasks
<1>4. AcceptedTasksAreNotDropped' /\ QueuedAreInQueue'
  BY DEF AcceptedTasksAreNotDropped, QueuedAreInQueue
<1>5. PoolShape'
  BY <1>1, ExecutorAssumption DEF PoolShape, Phases
<1>6. Phases'
  BY <1>1, ExecutorAssumption DEF Phases
<1>7. LoopUsers'
  BY <1>1 DEF LoopUsers, Phases
<1> QED BY <1>2, <1>3, <1>4, <1>5, <1>6, <1>7

\* stop_accepting().
LEMMA StopAcceptingKeeps ==
    ASSUME IInv, StopStopsAccepting
    PROVE  IInv'
<1> USE DEF IInv, StopStopsAccepting, ControlStep, StopAccepting
<1>1. TypeOK'
  BY DEF TypeOK, ExecTypeOK, StopStates
<1>2. InFlightCountsRunningTasks' /\ AcceptedTasksAreNotDropped' /\ QueuedAreInQueue'
  BY DEF InFlightCountsRunningTasks, AcceptedTasksAreNotDropped, QueuedAreInQueue, Running
<1>3. PoolShape' /\ Phases' /\ LoopUsers'
  BY DEF PoolShape, Phases, LoopUsers, Quiet
<1> QED BY <1>1, <1>2, <1>3

\* shutdown(): the pool is swapped out; when every thread has ended nothing is
\* queued any more, so clearing the queue drops nothing.
LEMMA ShutdownKeeps ==
    ASSUME IInv, StopShutsExecutorDown
    PROVE  IInv'
<1> USE DEF IInv, StopShutsExecutorDown, ControlStep
<1>1. CASE control = "stop_shutdown" /\ control' = "stop_join_pool" /\ ShutdownBegin
  <2> USE <1>1 DEF ShutdownBegin
  <2>1. TypeOK'
    BY DEF TypeOK, ExecTypeOK, StopStates
  <2>2. InFlightCountsRunningTasks' /\ AcceptedTasksAreNotDropped' /\ QueuedAreInQueue'
    BY DEF InFlightCountsRunningTasks, AcceptedTasksAreNotDropped, QueuedAreInQueue, Running
  <2>3. PoolShape' /\ Phases' /\ LoopUsers'
    BY DEF PoolShape, Phases, LoopUsers, Quiet
  <2> QED BY <2>1, <2>2, <2>3
<1>2. CASE control = "stop_join_pool" /\ control' = "stop_final" /\ ShutdownEnd
  <2> USE <1>2 DEF ShutdownEnd
  <2>1. queue_ = <<>> /\ \A t \in Tasks : fate[t] # "queued"
    BY ExecutorAssumption DEF PoolShape, Phases, QueuedAreInQueue
  <2>2. /\ fate' = fate /\ queue_' = <<>> /\ in_flight_' = 0 /\ joining' = {}
        /\ thread' = [w \in Workers |-> "none"]
    BY <2>1 DEF TypeOK, ExecTypeOK, PoolShape, Phases
  <2>3. TypeOK'
    <3>1. queue_' \in Seq(Tasks) /\ fate' \in [Tasks -> Fates]
      BY <2>2 DEF TypeOK, ExecTypeOK
    <3>2. thread' \in [Workers -> {"none", "waiting", "running", "exited"}]
      BY <2>2
    <3>3. accepting_' \in BOOLEAN /\ stopping_' \in BOOLEAN
      BY DEF TypeOK, ExecTypeOK
    <3>4. /\ in_flight_' \in Nat /\ current' \in [Workers -> Tasks \union {NoTask}]
          /\ workers_' \in SUBSET Workers /\ joining' \in SUBSET Workers
      BY <2>2 DEF TypeOK, ExecTypeOK
    <3>5. ExecTypeOK'
      BY <3>1, <3>2, <3>3, <3>4 DEF ExecTypeOK
    <3> QED BY <3>5 DEF TypeOK, StopStates
  <2>4. InFlightCountsRunningTasks'
    <3>1. Running' = {}
      BY <2>2 DEF Running
    <3> QED BY <2>2, <3>1, FS_EmptySet, ExecutorAssumption DEF InFlightCountsRunningTasks
  <2>5. AcceptedTasksAreNotDropped' /\ QueuedAreInQueue'
    BY <2>1, <2>2 DEF AcceptedTasksAreNotDropped, QueuedAreInQueue
  <2>6. PoolShape' /\ Phases' /\ LoopUsers'
    BY <2>2 DEF PoolShape, Phases, LoopUsers, Quiet
  <2> QED BY <2>3, <2>4, <2>5, <2>6
<1> QED BY <1>1, <1>2


\* enqueue(): a task is refused, or goes to the end of a queue with room.
LEMMA SubmitKeeps ==
    ASSUME IInv, NEW t \in Tasks, Submit(t)
    PROVE  IInv'
<1> USE DEF IInv, Submit, Enqueue, lifeVars
<1>1. queue_' \in Seq(Tasks) /\ fate' \in [Tasks -> Fates]
  <2>1. CASE MayEnqueue
    <3>1. queue_' = Append(queue_, t) /\ queue_ \in Seq(Tasks)
      BY <2>1 DEF TypeOK, ExecTypeOK
    <3>2. fate' = [fate EXCEPT ![t] = "queued"]
      BY <2>1
    <3> QED BY <3>1, <3>2 DEF TypeOK, ExecTypeOK, Fates
  <2>2. CASE ~MayEnqueue
    BY <2>2 DEF TypeOK, ExecTypeOK, Fates
  <2> QED BY <2>1, <2>2
<1>2. TypeOK'
  BY <1>1 DEF TypeOK, ExecTypeOK
<1>3. InFlightCountsRunningTasks'
  <2>1. CASE MayEnqueue
    <3>1. Len(queue_') = Len(queue_) + 1 /\ Len(queue_) \in Nat
      BY <2>1 DEF TypeOK, ExecTypeOK
    <3> QED BY <2>1, <3>1, ExecutorAssumption
            DEF InFlightCountsRunningTasks, Running, MayEnqueue, TypeOK, ExecTypeOK
  <2>2. CASE ~MayEnqueue
    BY <2>2 DEF InFlightCountsRunningTasks, Running
  <2> QED BY <2>1, <2>2
<1>4. AcceptedTasksAreNotDropped'
  BY DEF AcceptedTasksAreNotDropped, TypeOK, ExecTypeOK
<1>5. QueuedAreInQueue'
  <2> SUFFICES ASSUME NEW u \in Tasks, fate'[u] = "queued"
               PROVE  \E i \in 1 .. Len(queue_') : queue_'[i] = u
    BY DEF QueuedAreInQueue
  <2>1. CASE u = t
    <3>1. queue_' = Append(queue_, t)
      BY <2>1 DEF TypeOK, ExecTypeOK
    <3> QED BY <2>1, <3>1 DEF TypeOK, ExecTypeOK
  <2>2. CASE u # t
    <3>1. PICK i \in 1 .. Len(queue_) : queue_[i] = u
      BY <2>2 DEF QueuedAreInQueue, TypeOK, ExecTypeOK
    <3>2. i \in 1 .. Len(queue_') /\ queue_'[i] = u
      BY <3>1 DEF TypeOK, ExecTypeOK
    <3> QED BY <3>2
  <2> QED BY <2>1, <2>2
<1>6. PoolShape' /\ Phases' /\ LoopUsers'
  BY DEF PoolShape, Phases, LoopUsers, Quiet, MayEnqueue
<1> QED BY <1>2, <1>3, <1>4, <1>5, <1>6

\* A worker takes the head of the queue.
LEMMA TakeKeeps ==
    ASSUME IInv, NEW w \in Workers, WorkerTake(w), UNCHANGED lifeVars
    PROVE  IInv'
<1> USE DEF IInv, WorkerTake, lifeVars
<1>1. /\ Head(queue_) \in Tasks /\ queue_' \in Seq(Tasks)
      /\ Len(queue_') = Len(queue_) - 1 /\ Len(queue_) \in Nat
      /\ \A i \in 1 .. Len(queue_') : queue_'[i] = queue_[i + 1]
  BY DEF TypeOK, ExecTypeOK
<1>2. TypeOK'
  BY <1>1 DEF TypeOK, ExecTypeOK, Fates
<1>3. InFlightCountsRunningTasks'
  <2>1. Running' = Running \union {w} /\ w \notin Running
    BY DEF Running, TypeOK, ExecTypeOK
  <2>2. Cardinality(Running') = Cardinality(Running) + 1
    BY <2>1, RunningFinite, FS_AddElement
  <2> QED BY <1>1, <2>2, RunningFinite, ExecutorAssumption DEF InFlightCountsRunningTasks
<1>4. AcceptedTasksAreNotDropped'
  BY <1>1 DEF AcceptedTasksAreNotDropped, TypeOK, ExecTypeOK
<1>5. QueuedAreInQueue'
  <2> SUFFICES ASSUME NEW u \in Tasks, fate'[u] = "queued"
               PROVE  \E i \in 1 .. Len(queue_') : queue_'[i] = u
    BY DEF QueuedAreInQueue
  <2>1. u # Head(queue_) /\ fate[u] = "queued"
    BY <1>1 DEF TypeOK, ExecTypeOK
  <2>2. PICK i \in 1 .. Len(queue_) : queue_[i] = u
    BY <2>1 DEF QueuedAreInQueue
  <2>3. i # 1
    BY <2>1, <2>2 DEF TypeOK, ExecTypeOK
  <2>4. i - 1 \in 1 .. Len(queue_') /\ queue_'[i - 1] = u
    BY <1>1, <2>2, <2>3
  <2> QED BY <2>4
<1>6. PoolShape' /\ Phases'
  BY DEF PoolShape, Phases, TypeOK, ExecTypeOK
<1>7. LoopUsers'
  BY DEF LoopUsers, Quiet
<1> QED BY <1>2, <1>3, <1>4, <1>5, <1>6, <1>7

\* A worker ends only when the pool stops and the queue is empty.
LEMMA ExitKeeps ==
    ASSUME IInv, NEW w \in Workers, WorkerExit(w), UNCHANGED lifeVars
    PROVE  IInv'
<1> USE DEF IInv, WorkerExit, lifeVars
<1>1. TypeOK'
  BY DEF TypeOK, ExecTypeOK
<1>2. Running' = Running
  BY DEF Running, TypeOK, ExecTypeOK
<1>3. InFlightCountsRunningTasks' /\ AcceptedTasksAreNotDropped' /\ QueuedAreInQueue'
  BY <1>2 DEF InFlightCountsRunningTasks, AcceptedTasksAreNotDropped, QueuedAreInQueue
<1>4. PoolShape' /\ Phases' /\ LoopUsers'
  BY DEF PoolShape, Phases, LoopUsers, Quiet, TypeOK, ExecTypeOK
<1> QED BY <1>1, <1>3, <1>4

\* A task returns; a request uses the loop for its answer.
LEMMA FinishKeeps ==
    ASSUME IInv, NEW w \in Workers, TaskReturns(w)
    PROVE  IInv'
<1> USE DEF IInv, TaskReturns, WorkerFinish
<1>1. in_flight_' = in_flight_ - 1 /\ in_flight_' \in Nat /\ in_flight_' = Cardinality(Running')
  <2>1. Running' = Running \ {w} /\ w \in Running
    BY DEF Running, TypeOK, ExecTypeOK
  <2>2. Cardinality(Running') = Cardinality(Running) - 1 /\ Cardinality(Running) # 0
    BY <2>1, RunningFinite, FS_RemoveElement
  <2> QED BY <2>2, RunningFinite DEF InFlightCountsRunningTasks
<1>2. ExecTypeOK'
  BY <1>1 DEF TypeOK, ExecTypeOK, Fates
<1>3. TypeOK'
  BY <1>2 DEF TypeOK, LoopAlive
<1>4. InFlightCountsRunningTasks'
  BY <1>1, ExecutorAssumption DEF InFlightCountsRunningTasks, TypeOK, ExecTypeOK
<1>5. AcceptedTasksAreNotDropped' /\ QueuedAreInQueue'
  BY DEF AcceptedTasksAreNotDropped, QueuedAreInQueue, TypeOK, ExecTypeOK
<1>6. PoolShape' /\ Phases'
  BY DEF PoolShape, Phases, TypeOK, ExecTypeOK
<1>7. ~LoopAlive => listenFailed \/ idleTimedOut
  BY DEF LoopAlive, PoolShape, Phases, LoopUsers, Quiet, TypeOK, ServerStates, StopStates
<1>8. LoopUsers'
  BY <1>7 DEF LoopUsers, Quiet, TypeOK, ExecTypeOK
<1> QED BY <1>3, <1>4, <1>5, <1>6, <1>8

-----------------------------------------------------------------------------
\* Before the first start() nothing exists, and everything holds.
LEMMA InitHolds == Init => IInv
<1> SUFFICES ASSUME Init PROVE IInv
  OBVIOUS
<1> USE DEF Init, ExecInit
<1>1. TypeOK
  <2>1. ExecTypeOK
    <3>1. accepting_ \in BOOLEAN /\ stopping_ \in BOOLEAN
      OBVIOUS
    <3>2. queue_ \in Seq(Tasks)
      OBVIOUS
    <3> QED BY <3>1, <3>2 DEF ExecTypeOK, Fates
  <2>2. {running, startup_done, startup_ok, published, closeDeferred, snapshot,
         listenFailed, startupTimedOut, idleTimedOut, deadLoopUse} \subseteq BOOLEAN
    OBVIOUS
  <2> QED BY <2>1, <2>2 DEF TypeOK, ServerStates
<1>2. InFlightCountsRunningTasks
  <2>1. Running = {}
    BY DEF Running
  <2> QED BY <2>1, FS_EmptySet, ExecutorAssumption DEF InFlightCountsRunningTasks
<1>3. AcceptedTasksAreNotDropped /\ QueuedAreInQueue
  BY DEF AcceptedTasksAreNotDropped, QueuedAreInQueue
<1>4. PoolShape /\ Phases /\ LoopUsers
  BY DEF PoolShape, Phases, LoopUsers
<1> QED BY <1>1, <1>2, <1>3, <1>4 DEF IInv

\* Every step of the three kinds of threads keeps the inductive invariant.
LEMMA NextKeeps == IInv /\ [Next]_vars => IInv'
<1> SUFFICES ASSUME IInv, [Next]_vars PROVE IInv'
  OBVIOUS
<1>1. CASE Next
  BY <1>1, StartingKeeps, StoppingKeeps, ExecStartKeeps, StopAcceptingKeeps, ShutdownKeeps,
     SubmitKeeps, TakeKeeps, ExitKeeps, FinishKeeps
     DEF Next, ServerThread, WorkerStep, StopStep
<1>2. CASE UNCHANGED vars
  BY <1>2 DEF vars, execVars, lifeVars, IInv, TypeOK, ExecTypeOK, InFlightCountsRunningTasks,
         Running, AcceptedTasksAreNotDropped, PoolShape, QueuedAreInQueue, Phases, LoopUsers, Quiet
<1> QED BY <1>1, <1>2

\* The server is up or down as a whole whenever no call is in progress.
LEMMA InvIsSafe == IInv => ServerSafety
<1> SUFFICES ASSUME IInv PROVE ServerSafety
  OBVIOUS
<1>1. FullyUpOrFullyDown
  BY DEF FullyUpOrFullyDown, IInv, PoolShape, Phases, TypeOK
<1> QED BY <1>1 DEF IInv, ServerSafety, LoopUsers, DeadLoopUseNeedsLateTaskOrFailedListen

\* For any pool, any tasks and any limit, and however start(), stop(), the
\* server thread, the workers and the timeouts interleave: in_flight_ is exact
\* and bounded, no accepted task is dropped, the server is up or down as a
\* whole between calls, and the loop outlives its users but in two windows.
THEOREM ServerIsSafe == Spec => []ServerSafety
<1>1. Init => IInv
  BY InitHolds
<1>2. IInv /\ [Next]_vars => IInv'
  BY NextKeeps
<1>3. IInv => ServerSafety
  BY InvIsSafe
<1> QED BY <1>1, <1>2, <1>3, PTL DEF Spec

-----------------------------------------------------------------------------
(* The executor implements TaskPool *)

\* The tasks the threads run.
Taken == {current[w] : w \in Running}

\* A waiting task stands in the queue once and nowhere else.
QueueExact ==
    /\ \A i \in 1 .. Len(queue_) : fate[queue_[i]] = "queued"
    /\ \A i, j \in 1 .. Len(queue_) : queue_[i] = queue_[j] => i = j

\* Threads that run a task run different ones, and in_flight_ counts them.
RunnersExact ==
    /\ \A w \in Running : current[w] \in Tasks /\ fate[current[w]] = "running"
    /\ \A v, w \in Running : current[v] = current[w] => v = w
    /\ IsFiniteSet(Taken) /\ in_flight_ = Cardinality(Taken)

PoolInv == IInv /\ QueueExact /\ RunnersExact

\* A step that leaves the executor alone is no step of the pool.
LEMMA PoolUntouched ==
    ASSUME PoolInv, UNCHANGED execVars
    PROVE  QueueExact' /\ RunnersExact' /\ UNCHANGED Pool!poolVars
<1>1. Running' = Running /\ Taken' = Taken
  BY DEF execVars, Running, Taken
<1> QED BY <1>1 DEF execVars, PoolInv, QueueExact, RunnersExact, Taken, Pool!poolVars

\* Whatever start() and stop() do outside the executor.
LEMMA PoolLeftAlone ==
    ASSUME PoolInv,
           \/ Start \/ StartupSignalled \/ StartupTimeout
           \/ ServerPublishesLoop \/ (\E socket \in BOOLEAN : ServerListens(socket))
           \/ LoopRunsClose \/ ServerExits
           \/ RefresherExits \/ Stop \/ StopTakesSnapshot \/ StopWaitedIdle
           \/ StopDefersClose \/ StopJoinsRefresher \/ StopJoinsServer \/ StopReturns
    PROVE  QueueExact' /\ RunnersExact' /\ [Pool!PoolNext]_(Pool!poolVars)
<1>1. UNCHANGED execVars
  BY DEF Start, StartupSignalled, StartupTimeout, ServerPublishesLoop, ServerListens,
         LoopRunsClose, ServerExits, RefresherExits, Stop, StopTakesSnapshot, StopWaitedIdle,
         StopDefersClose, StopJoinsRefresher, StopJoinsServer, StopReturns
<1> QED BY <1>1, PoolUntouched

\* start() of the executor opens a pool whose predecessor has ended its tasks.
LEMMA PoolOpens ==
    ASSUME PoolInv, ServerStartsExecutor
    PROVE  QueueExact' /\ RunnersExact' /\ Pool!PoolNext
<1> USE DEF ServerStartsExecutor, ServerStep, ExecStart
<1>1. queue_ = <<>> /\ Running = {} /\ Running' = {}
  <2>1. workers_ = {} /\ joining = {}
    BY DEF PoolInv, IInv, PoolShape, Phases
  <2>2. \A w \in Workers : thread[w] = "none"
    BY <2>1 DEF PoolInv, IInv, PoolShape
  <2>3. thread' = [w \in Workers |-> "waiting"]
    BY <2>1, <2>2
  <2> QED BY <2>1, <2>2, <2>3 DEF Running, PoolInv, IInv, PoolShape
<1>2. Taken = {} /\ Taken' = {}
  BY <1>1 DEF Taken
<1>3. QueueExact' /\ RunnersExact'
  BY <1>1, <1>2 DEF PoolInv, QueueExact, RunnersExact
<1>4. Pool!Open
  BY <1>1, <1>2 DEF Pool!Open, Taken
<1> QED BY <1>3, <1>4 DEF Pool!PoolNext

\* stop_accepting() and the start of shutdown() close it.
LEMMA PoolCloses ==
    ASSUME PoolInv,
           \/ StopStopsAccepting
           \/ ShutdownBegin
    PROVE  QueueExact' /\ RunnersExact' /\ Pool!PoolNext
<1>1. accepting_' = FALSE /\ UNCHANGED <<queue_, in_flight_, thread, current, fate>>
  BY DEF StopStopsAccepting, StopAccepting, ShutdownBegin
<1>2. Running' = Running /\ Taken' = Taken
  BY <1>1 DEF Running, Taken
<1>3. QueueExact' /\ RunnersExact'
  BY <1>1, <1>2 DEF PoolInv, QueueExact, RunnersExact
<1>4. Pool!Close
  BY <1>1, <1>2 DEF Pool!Close, Taken
<1> QED BY <1>3, <1>4 DEF Pool!PoolNext

\* The end of shutdown() finds nothing to clear.
LEMMA PoolEnds ==
    ASSUME PoolInv, control = "stop_join_pool", ShutdownEnd
    PROVE  QueueExact' /\ RunnersExact' /\ UNCHANGED Pool!poolVars
<1> USE DEF ShutdownEnd
<1>1. /\ queue_ = <<>> /\ \A t \in Tasks : fate[t] # "queued"
      /\ \A w \in Workers : thread[w] \in {"exited", "none"} /\ thread'[w] \in {"none"}
  BY ExecutorAssumption DEF PoolInv, IInv, PoolShape, Phases, QueuedAreInQueue, TypeOK, ExecTypeOK
<1>2. fate' = fate /\ queue_' = queue_ /\ UNCHANGED <<accepting_, current>>
  BY <1>1 DEF PoolInv, IInv, TypeOK, ExecTypeOK
<1>3. Running = {} /\ Running' = {}
  BY <1>1 DEF Running
<1>4. Taken = {} /\ Taken' = {}
  BY <1>3 DEF Taken
<1>5. QueueExact' /\ RunnersExact'
  BY <1>1, <1>2, <1>3, <1>4, FS_EmptySet DEF QueueExact, RunnersExact
<1> QED BY <1>2, <1>4, <1>5 DEF Pool!poolVars, Taken

\* enqueue(): the pool has room exactly when the two checks of the code pass,
\* so the second, stopping_, never decides.
LEMMA PoolSubmits ==
    ASSUME PoolInv, NEW t \in Tasks, Submit(t)
    PROVE  QueueExact' /\ RunnersExact' /\ Pool!PoolNext
<1> USE DEF Submit, Enqueue
<1>1. Running' = Running /\ Taken' = Taken
  BY DEF Running, Taken
<1>2. MayEnqueue <=> Pool!HasRoom
  <2>1. accepting_ => ~stopping_
    BY DEF PoolInv, IInv, PoolShape, Phases
  <2>2. in_flight_ = Cardinality(Taken)
    BY DEF PoolInv, RunnersExact
  <2>3. Pool!Cardinality(Taken) = Cardinality(Taken)
    BY DEF Pool!Cardinality, Cardinality, Pool!IsFiniteSet, IsFiniteSet
  <2> QED BY <2>1, <2>2, <2>3 DEF MayEnqueue, Pool!HasRoom, Taken
<1>3. Pool!IsNew(t)
  <2>1. \A i \in 1 .. Len(queue_) : queue_[i] # t
    BY DEF PoolInv, QueueExact
  <2>2. t \notin Taken
    BY DEF PoolInv, RunnersExact, Taken
  <2> QED BY <2>1, <2>2 DEF Pool!IsNew, Taken
<1>4. RunnersExact'
  BY <1>1 DEF PoolInv, RunnersExact, IInv, TypeOK, ExecTypeOK
<1>5. CASE MayEnqueue
  <2>1. /\ queue_ \in Seq(Tasks) /\ queue_' = Append(queue_, t)
        /\ fate' = [fate EXCEPT ![t] = "queued"] /\ fate \in [Tasks -> Fates]
    BY <1>5 DEF PoolInv, IInv, TypeOK, ExecTypeOK
  <2>2. /\ Len(queue_) \in Nat /\ Len(queue_') = Len(queue_) + 1 /\ queue_'[Len(queue_) + 1] = t
        /\ \A i \in 1 .. Len(queue_) : queue_'[i] = queue_[i] /\ queue_[i] \in Tasks /\ queue_[i] # t
    BY <2>1 DEF PoolInv, QueueExact
  <2>3. QueueExact'
    BY <2>1, <2>2 DEF PoolInv, QueueExact
  <2>4. /\ {u \in Tasks : fate'[u] = "done"} = {u \in Tasks : fate[u] = "done"}
        /\ {u \in Tasks : fate'[u] = "rejected"} = {u \in Tasks : fate[u] = "rejected"}
    BY <2>1
  <2>5. Pool!Accept(t)
    BY <1>1, <1>2, <1>3, <1>5, <2>1, <2>4 DEF Pool!Accept, Taken
  <2> QED BY <1>4, <2>3, <2>5 DEF Pool!PoolNext
<1>6. CASE ~MayEnqueue
  <2>1. /\ fate' = [fate EXCEPT ![t] = "rejected"] /\ fate \in [Tasks -> Fates]
        /\ queue_' = queue_ /\ queue_ \in Seq(Tasks)
    BY <1>6 DEF PoolInv, IInv, TypeOK, ExecTypeOK
  <2>2. QueueExact'
    BY <2>1 DEF PoolInv, QueueExact
  <2>3. /\ {u \in Tasks : fate'[u] = "done"} = {u \in Tasks : fate[u] = "done"}
        /\ {u \in Tasks : fate'[u] = "rejected"} = {u \in Tasks : fate[u] = "rejected"} \union {t}
    BY <2>1
  <2>4. Pool!Refuse(t)
    BY <1>1, <1>2, <1>3, <1>6, <2>1, <2>3 DEF Pool!Refuse, Taken
  <2> QED BY <1>4, <2>2, <2>4 DEF Pool!PoolNext
<1> QED BY <1>5, <1>6

\* A worker takes the oldest task, which nobody runs or has run.
LEMMA PoolBegins ==
    ASSUME PoolInv, NEW w \in Workers, WorkerTake(w)
    PROVE  QueueExact' /\ RunnersExact' /\ Pool!PoolNext
<1> USE DEF WorkerTake
<1>1. PICK t \in Tasks : t = Head(queue_)
  BY DEF PoolInv, IInv, TypeOK, ExecTypeOK
<1>2. /\ queue_' \in Seq(Tasks) /\ Len(queue_') = Len(queue_) - 1 /\ Len(queue_) \in Nat
      /\ Len(queue_) > 0 /\ queue_[1] = t
      /\ \A i \in 1 .. Len(queue_') : queue_'[i] = queue_[i + 1] /\ queue_[i + 1] \in Tasks
  BY <1>1 DEF PoolInv, IInv, TypeOK, ExecTypeOK
<1>3. /\ fate' = [fate EXCEPT ![t] = "running"] /\ fate \in [Tasks -> Fates]
      /\ current' = [current EXCEPT ![w] = t] /\ current \in [Workers -> Tasks \union {NoTask}]
      /\ thread' = [thread EXCEPT ![w] = "running"] /\ thread[w] = "waiting"
      /\ thread \in [Workers -> {"none", "waiting", "running", "exited"}]
  BY <1>1 DEF PoolInv, IInv, TypeOK, ExecTypeOK
<1>4. fate[t] = "queued"
  BY <1>2 DEF PoolInv, QueueExact
<1>5. QueueExact'
  BY <1>2, <1>3 DEF PoolInv, QueueExact
<1>6. Running' = Running \union {w} /\ w \notin Running /\ \A v \in Running : v \in Workers
  BY <1>3 DEF Running
<1>7. \A v \in Running : current'[v] = current[v] /\ current[v] # t
  BY <1>3, <1>4, <1>6 DEF PoolInv, RunnersExact
<1>8. Taken' = Taken \union {t} /\ t \notin Taken
  BY <1>3, <1>6, <1>7 DEF Taken
<1>9. RunnersExact'
  <2>1. \A v \in Running' : current'[v] \in Tasks /\ fate'[current'[v]] = "running"
    BY <1>3, <1>6, <1>7 DEF PoolInv, RunnersExact
  <2>2. \A u, v \in Running' : current'[u] = current'[v] => u = v
    BY <1>3, <1>6, <1>7 DEF PoolInv, RunnersExact
  <2>3. IsFiniteSet(Taken') /\ in_flight_' = Cardinality(Taken')
    BY <1>8, FS_AddElement DEF PoolInv, RunnersExact
  <2> QED BY <2>1, <2>2, <2>3 DEF RunnersExact
<1>10. /\ {u \in Tasks : fate'[u] = "done"} = {u \in Tasks : fate[u] = "done"}
       /\ {u \in Tasks : fate'[u] = "rejected"} = {u \in Tasks : fate[u] = "rejected"}
  BY <1>3, <1>4
<1>11. Pool!Begin
  BY <1>1, <1>4, <1>8, <1>10 DEF Pool!Begin, Taken
<1> QED BY <1>5, <1>9, <1>11 DEF Pool!PoolNext

\* A thread that ends, ends between tasks.
LEMMA PoolLosesThread ==
    ASSUME PoolInv, NEW w \in Workers, WorkerExit(w)
    PROVE  QueueExact' /\ RunnersExact' /\ UNCHANGED Pool!poolVars
<1> USE DEF WorkerExit
<1>1. Running' = Running
  BY DEF Running, PoolInv, IInv, TypeOK, ExecTypeOK
<1>2. Taken' = Taken
  BY <1>1 DEF Taken
<1> QED BY <1>1, <1>2 DEF PoolInv, QueueExact, RunnersExact, Taken, Pool!poolVars

\* A task that returns is run by no other thread.
LEMMA PoolFinishes ==
    ASSUME PoolInv, NEW w \in Workers, TaskReturns(w)
    PROVE  QueueExact' /\ RunnersExact' /\ Pool!PoolNext
<1> USE DEF TaskReturns, WorkerFinish
<1>1. w \in Running
  BY DEF Running
<1>2. PICK t \in Tasks : t = current[w] /\ fate[t] = "running"
  BY <1>1 DEF PoolInv, RunnersExact
<1>3. /\ fate' = [fate EXCEPT ![t] = "done"] /\ fate \in [Tasks -> Fates]
      /\ current' = [current EXCEPT ![w] = NoTask] /\ current \in [Workers -> Tasks \union {NoTask}]
      /\ thread' = [thread EXCEPT ![w] = "waiting"]
      /\ thread \in [Workers -> {"none", "waiting", "running", "exited"}]
      /\ queue_' = queue_ /\ queue_ \in Seq(Tasks)
  BY <1>2 DEF PoolInv, IInv, TypeOK, ExecTypeOK
<1>4. Running' = Running \ {w} /\ \A v \in Running : v \in Workers
  BY <1>3 DEF Running
<1>5. \A v \in Running' : current'[v] = current[v] /\ current[v] # t /\ v \in Running
  BY <1>1, <1>2, <1>3, <1>4 DEF PoolInv, RunnersExact
<1>6. Taken' = Taken \ {t} /\ t \in Taken
  BY <1>1, <1>2, <1>4, <1>5 DEF Taken
<1>7. QueueExact'
  <2>1. \A i \in 1 .. Len(queue_) : queue_[i] \in Tasks /\ queue_[i] # t
    BY <1>2, <1>3 DEF PoolInv, QueueExact
  <2> QED BY <1>3, <2>1 DEF PoolInv, QueueExact
<1>8. RunnersExact'
  <2>1. \A v \in Running' : current'[v] \in Tasks /\ fate'[current'[v]] = "running"
    BY <1>3, <1>5 DEF PoolInv, RunnersExact
  <2>2. \A u, v \in Running' : current'[u] = current'[v] => u = v
    BY <1>5 DEF PoolInv, RunnersExact
  <2>3. IsFiniteSet(Taken') /\ Cardinality(Taken') = Cardinality(Taken) - 1
    BY <1>6, FS_RemoveElement DEF PoolInv, RunnersExact
  <2>4. in_flight_ > 0
    BY <1>1, RunningFinite DEF PoolInv, IInv, InFlightCountsRunningTasks
  <2>5. in_flight_' = Cardinality(Taken')
    BY <2>3, <2>4 DEF PoolInv, RunnersExact
  <2> QED BY <2>1, <2>2, <2>3, <2>5 DEF RunnersExact
<1>9. /\ {u \in Tasks : fate'[u] = "done"} = {u \in Tasks : fate[u] = "done"} \union {t}
      /\ {u \in Tasks : fate'[u] = "rejected"} = {u \in Tasks : fate[u] = "rejected"}
  BY <1>2, <1>3
<1>10. Pool!End(t)
  BY <1>3, <1>6, <1>9 DEF Pool!End, Taken
<1> QED BY <1>7, <1>8, <1>10 DEF Pool!PoolNext

\* Every step of the server is a step of the pool or none.
LEMMA PoolStep ==
    PoolInv /\ [Next]_vars => PoolInv' /\ [Pool!PoolNext]_(Pool!poolVars)
<1> SUFFICES ASSUME PoolInv, [Next]_vars
             PROVE  PoolInv' /\ [Pool!PoolNext]_(Pool!poolVars)
  OBVIOUS
<1>1. IInv'
  BY NextKeeps DEF PoolInv
<1>2. SUFFICES QueueExact' /\ RunnersExact' /\ [Pool!PoolNext]_(Pool!poolVars)
  BY <1>1 DEF PoolInv
<1>3. CASE StopShutsExecutorDown
  BY <1>3, PoolCloses, PoolEnds DEF StopShutsExecutorDown, ControlStep
<1>4. CASE \E w \in Workers : WorkerStep(w) \/ TaskReturns(w)
  BY <1>4, PoolBegins, PoolLosesThread, PoolFinishes DEF WorkerStep
<1>5. CASE UNCHANGED vars
  BY <1>5, PoolUntouched DEF vars
<1>6. CASE StopStopsAccepting \/ ServerStartsExecutor \/ \E t \in Tasks : Submit(t)
  BY <1>6, PoolCloses, PoolOpens, PoolSubmits
<1> QED BY <1>3, <1>4, <1>5, <1>6, PoolLeftAlone DEF Next, ServerThread, StopStep

\* The server starts without a pool, which is a closed one.
LEMMA PoolStarts == Init => PoolInv /\ Pool!PoolInit
<1> SUFFICES ASSUME Init PROVE PoolInv /\ Pool!PoolInit
  OBVIOUS
<1>1. IInv
  BY InitHolds
<1>2. Running = {} /\ Taken = {} /\ queue_ = <<>> /\ in_flight_ = 0 /\ accepting_ = FALSE
  BY DEF Init, ExecInit, Running, Taken
<1>3. \A t \in Tasks : fate[t] = "new"
  BY DEF Init, ExecInit
<1>4. QueueExact /\ RunnersExact
  BY <1>2, FS_EmptySet DEF QueueExact, RunnersExact
<1>5. Pool!PoolInit
  BY <1>2, <1>3 DEF Pool!PoolInit, Taken
<1> QED BY <1>1, <1>4, <1>5 DEF PoolInv

\* For any pool, tasks and limit, the executor under start(), stop() and their
\* timeouts implements one bounded first-in first-out pool: it runs what it
\* accepts once, on one thread and in order, refuses only while closed or full,
\* and opens again only when its predecessor has ended its tasks.
THEOREM ServerImplementsTaskPool == Spec => ImplementsTaskPool
<1>1. Init => PoolInv /\ Pool!PoolInit
  BY PoolStarts
<1>2. PoolInv /\ [Next]_vars => PoolInv' /\ [Pool!PoolNext]_(Pool!poolVars)
  BY PoolStep
<1> QED BY <1>1, <1>2, PTL DEF Spec, ImplementsTaskPool, Pool!PoolSpec
=============================================================================
