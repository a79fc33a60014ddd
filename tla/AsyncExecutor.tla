--------------------------- MODULE AsyncExecutor ---------------------------
(***************************************************************************)
(* The task executor of the HTTP server (native/server/src/                *)
(* async_executor.cpp): a bounded queue drained by a pool of threads.      *)
(*                                                                         *)
(* Every operation below runs under the executor's mutex, so each is one   *)
(* action; shutdown() releases the mutex while it joins the pool and is    *)
(* therefore split at that point.  The module defines operations only:     *)
(* ServerRuntime says which thread calls which operation when, and gives   *)
(* the specification.                                                      *)
(*                                                                         *)
(* work_cv_ and idle_cv_ are waited on with a predicate, and every write   *)
(* that can make a predicate true notifies; a waiter is therefore a guard. *)
(***************************************************************************)
EXTENDS Naturals, Sequences, FiniteSets

CONSTANTS
    Workers,        \* the threads start() creates
    Tasks,          \* the closures handed to enqueue(), each at most once
    NoTask,         \* not a task
    kMaxInFlightTasks

ASSUME ExecutorAssumption ==
    /\ IsFiniteSet(Workers) /\ Workers # {}
    /\ IsFiniteSet(Tasks) /\ NoTask \notin Tasks
    /\ kMaxInFlightTasks \in Nat \ {0}

VARIABLES
    accepting_, stopping_,
    queue_,         \* sequence of tasks
    in_flight_,
    workers_,       \* the threads held in workers_ (shutdown() swaps them out)
    joining,        \* the threads shutdown() swapped out and is joining
    thread,         \* per thread: "none", "waiting", "running" or "exited"
    current,        \* per thread: the task it runs
    fate            \* history: what became of each task

execVars ==
    <<accepting_, stopping_, queue_, in_flight_, workers_, joining, thread, current, fate>>

Fates == {"new", "queued", "running", "done", "rejected", "dropped"}

ExecTypeOK ==
    /\ accepting_ \in BOOLEAN
    /\ stopping_ \in BOOLEAN
    /\ queue_ \in Seq(Tasks)
    /\ in_flight_ \in Nat
    /\ workers_ \in SUBSET Workers
    /\ joining \in SUBSET Workers
    /\ thread \in [Workers -> {"none", "waiting", "running", "exited"}]
    /\ current \in [Workers -> Tasks \union {NoTask}]
    /\ fate \in [Tasks -> Fates]

ExecInit ==
    /\ accepting_ = FALSE
    /\ stopping_ = FALSE
    /\ queue_ = <<>>
    /\ in_flight_ = 0
    /\ workers_ = {}
    /\ joining = {}
    /\ thread = [w \in Workers |-> "none"]
    /\ current = [w \in Workers |-> NoTask]
    /\ fate = [t \in Tasks |-> "new"]

Running == {w \in Workers : thread[w] = "running"}

-----------------------------------------------------------------------------
(* start(): the pool is created unless there is one.  Threads of a pool    *)
(* that is still being joined are not available to a new one.              *)
ExecStart ==
    /\ accepting_' = TRUE
    /\ stopping_' = FALSE
    /\ IF workers_ # {}
       THEN UNCHANGED <<workers_, thread>>
       ELSE LET fresh == {w \in Workers : thread[w] = "none"}
            IN  /\ workers_' = fresh
                /\ thread' = [w \in Workers |-> IF w \in fresh THEN "waiting" ELSE thread[w]]
    /\ UNCHANGED <<queue_, in_flight_, joining, current, fate>>

(* stop_accepting() *)
StopAccepting ==
    /\ accepting_' = FALSE
    /\ UNCHANGED <<stopping_, queue_, in_flight_, workers_, joining, thread, current, fate>>

(* mutant: a task being run does not count *)
Idle_QueueOnly == queue_ = <<>>

(* The predicate wait_idle() waits for; it also returns when it times out. *)
Idle == queue_ = <<>> /\ in_flight_ = 0

(* shutdown(), first critical section: flag the pool and take it over. *)
ShutdownBegin ==
    /\ accepting_' = FALSE
    /\ stopping_' = TRUE
    /\ joining' = workers_
    /\ workers_' = {}
    /\ UNCHANGED <<queue_, in_flight_, thread, current, fate>>

(* shutdown(), second critical section, after every join() has returned. *)
ShutdownEnd ==
    /\ \A w \in joining : thread[w] = "exited"
    /\ queue_' = <<>>
    /\ fate' = [t \in Tasks |-> IF fate[t] = "queued" THEN "dropped" ELSE fate[t]]
    /\ in_flight_' = 0
    /\ stopping_' = FALSE
    /\ thread' = [w \in Workers |-> IF w \in joining THEN "none" ELSE thread[w]]
    /\ joining' = {}
    /\ UNCHANGED <<accepting_, workers_, current>>

(* enqueue(task): refused unless the executor accepts and has room. *)
MayEnqueue ==
    /\ accepting_
    /\ ~stopping_
    /\ Len(queue_) + in_flight_ < kMaxInFlightTasks

Enqueue(t) ==
    /\ fate[t] = "new"
    /\ IF MayEnqueue
       THEN /\ queue_' = Append(queue_, t)
            /\ fate' = [fate EXCEPT ![t] = "queued"]
       ELSE /\ fate' = [fate EXCEPT ![t] = "rejected"]
            /\ UNCHANGED queue_
    /\ UNCHANGED <<accepting_, stopping_, in_flight_, workers_, joining, thread, current>>

-----------------------------------------------------------------------------
(* mutant: the newest task is taken first *)
WorkerTake_Newest(w) ==
    /\ thread[w] = "waiting"
    /\ queue_ # <<>>
    /\ LET newest == queue_[Len(queue_)]
       IN  /\ current' = [current EXCEPT ![w] = newest]
           /\ fate' = [fate EXCEPT ![newest] = "running"]
    /\ queue_' = SubSeq(queue_, 1, Len(queue_) - 1)
    /\ in_flight_' = in_flight_ + 1
    /\ thread' = [thread EXCEPT ![w] = "running"]
    /\ UNCHANGED <<accepting_, stopping_, workers_, joining>>

(* worker_loop(): wait for work, run it, account for it. *)
WorkerTake(w) ==
    /\ thread[w] = "waiting"
    /\ queue_ # <<>>
    /\ current' = [current EXCEPT ![w] = Head(queue_)]
    /\ fate' = [fate EXCEPT ![Head(queue_)] = "running"]
    /\ queue_' = Tail(queue_)
    /\ in_flight_' = in_flight_ + 1
    /\ thread' = [thread EXCEPT ![w] = "running"]
    /\ UNCHANGED <<accepting_, stopping_, workers_, joining>>

(* The task has returned: the closing critical section of the loop body.   *)
WorkerFinish(w) ==
    /\ thread[w] = "running"
    /\ in_flight_' = IF in_flight_ > 0 THEN in_flight_ - 1 ELSE in_flight_
    /\ fate' = [fate EXCEPT ![current[w]] = "done"]
    /\ current' = [current EXCEPT ![w] = NoTask]
    /\ thread' = [thread EXCEPT ![w] = "waiting"]
    /\ UNCHANGED <<accepting_, stopping_, queue_, workers_, joining>>

(* mutant: a stopping worker leaves the queue behind *)
WorkerExit_NoDrain(w) ==
    /\ thread[w] = "waiting"
    /\ stopping_
    /\ thread' = [thread EXCEPT ![w] = "exited"]
    /\ UNCHANGED <<accepting_, stopping_, queue_, in_flight_, workers_, joining, current, fate>>

WorkerExit(w) ==
    /\ thread[w] = "waiting"
    /\ stopping_
    /\ queue_ = <<>>
    /\ thread' = [thread EXCEPT ![w] = "exited"]
    /\ UNCHANGED <<accepting_, stopping_, queue_, in_flight_, workers_, joining, current, fate>>
=============================================================================
