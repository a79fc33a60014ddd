----------------------- MODULE ReplicationServerProofs -----------------------
(***************************************************************************)
(* ListenerSafety and QueuedBeforeStopIsHandled are proved of every number *)
(* of workers and connections and every bound of the queue.  What they need*)
(* beyond themselves: what run() has set up at each of its steps           *)
(* (ListenerShape), how the steps of stop() and of run() are ordered       *)
(* (StopOrder), who holds each connection (Ownership), and that a worker   *)
(* leaves only behind a drained queue (Drained, AfterWorkers).             *)
(*                                                                         *)
(* The frames of a connection: the bytes of the first n frames are a sum   *)
(* whose existence is shown by a smallest n without one (TotalExists); the *)
(* drain stops at the first frame at which its loop does (Drains), and     *)
(* what it leaves there (DrainLeaves) is what the limits and the next read *)
(* need.                                                                   *)
(*                                                                         *)
(* The cluster bridge: ClusterSafety of every set of peers and every       *)
(* limit.  Every call leaves a sound bridge (BridgeOK), whose counters are *)
(* those of the peers it lists now, so that an eviction has its cause      *)
(* (CandidatesFailed), and an address that was accepted is some peer's, as *)
(* a site is given only to a peer that has it or when nobody does          *)
(* (GuessIsFree, AddedPeerOK).  The configured peers and the               *)
(* reconciliations are recursions over their number, shown to exist and to *)
(* stay sound by a smallest counterexample.                                *)
(***************************************************************************)
EXTENDS ReplicationServer, RpcIngress, ClusterBridge, FiniteSetTheorems, SequenceTheorems,
        WellFoundedInduction, NaturalsInduction, TLAPS

\* run() is between the spawn of its workers and their join.
Up == {"loop", "accept", "queueing", "notifying", "closing", "joining"}

\* What run() has set up at each of its steps.
ListenerShape ==
    /\ running <=> listener \in Up
    /\ published <=> listener \in Up \union {"spawning", "resetting"}
    /\ accepting_connections <=> listener \in Up \ {"joining"}
    /\ listening => listener \notin {"none", "opening", "ended"}
    /\ listener \notin Up =>
         \A w \in Workers : worker[w] = "none"
    /\ listener \in Up => \A w \in Workers : worker[w] # "none"
    /\ listener \notin Up \union {"resetting"} => pending_connections = <<>>
    /\ listener = "joining" => Asleep = {}

\* run() leaves its loop only because of stop(), which waits for it.
StopOrder ==
    /\ ~stop_requested /\ listener \notin {"none", "opening", "ended"} =>
         listening /\ listener \notin {"closing", "joining", "resetting"}
    /\ control = "idle" => listener \in Up \union {"none"}
    /\ control \in {"start_join", "stop_final"} => listener = "none"
    /\ control = "start_join" => ~stop_requested
    /\ control \in {"idle", "start_join", "poll_running", "poll_error", "stop_flag"}
         /\ listener # "none" => ~stop_requested
    /\ control \in Stopping \ {"stop_flag"} => stop_requested

\* Who holds a connection: the listener, one place of the queue, or one worker.
Ownership ==
    /\ accepted # NoConnection => conn[accepted] = "accepted"
    /\ \A i \in 1 .. Len(pending_connections) : conn[pending_connections[i]] \in InQueue
    /\ \A i, j \in 1 .. Len(pending_connections) :
         pending_connections[i] = pending_connections[j] => i = j
    /\ \A w \in Workers : handled[w] # NoConnection => conn[handled[w]] = "handled"
    /\ \A v, w \in Workers : handled[v] # NoConnection /\ handled[v] = handled[w] => v = w
    /\ \A c \in Connections :
         conn[c] = "queued" => \E i \in 1 .. Len(pending_connections) : pending_connections[i] = c

\* A worker leaves only once a stop is requested and nothing queued before it
\* is left.
Drained ==
    \A w \in Workers : worker[w] = "exited" =>
        stop_requested /\ \A c \in Connections : conn[c] # "queued"

\* ... and so nothing is when all of them have left.
AfterWorkers == listener = "resetting" => \A c \in Connections : conn[c] # "queued"

IInv ==
    /\ TypeOK /\ TelemetryBalances /\ NoLostWakeup /\ QueuedBeforeStopIsHandled
    /\ ListenerShape /\ StopOrder /\ Ownership /\ Drained /\ AfterWorkers

-----------------------------------------------------------------------------
(* Counting the connections in a set of states *)

Count(f, S) == Cardinality({x \in Connections : f[x] \in S})

\* A connection that changes its state leaves the sets it was in ...
LEMMA Leaves ==
    ASSUME NEW c \in Connections, NEW v, NEW S, DOMAIN conn = Connections,
           conn' = [conn EXCEPT ![c] = v], conn[c] \in S, v \notin S
    PROVE  Count(conn, S) > 0 /\ Count(conn', S) = Count(conn, S) - 1
<1> DEFINE A == {x \in Connections : conn[x] \in S}
           B == {x \in Connections : conn'[x] \in S}
<1>1. IsFiniteSet(A)
  BY ReplicationServerAssumption, FS_Subset
<1>2. B = A \ {c} /\ c \in A
  OBVIOUS
<1>3. Cardinality(B) = Cardinality(A) - 1
  BY <1>1, <1>2, FS_RemoveElement
<1>4. Cardinality(A) # 0 /\ Cardinality(A) \in Nat
  BY <1>1, <1>2, FS_EmptySet, FS_CardinalityType
<1> QED BY <1>3, <1>4 DEF Count

\* ... enters others ...
LEMMA Enters ==
    ASSUME NEW c \in Connections, NEW v, NEW S, DOMAIN conn = Connections,
           conn' = [conn EXCEPT ![c] = v], conn[c] \notin S, v \in S
    PROVE  Count(conn', S) = Count(conn, S) + 1
<1> DEFINE A == {x \in Connections : conn[x] \in S}
           B == {x \in Connections : conn'[x] \in S}
<1>1. IsFiniteSet(A)
  BY ReplicationServerAssumption, FS_Subset
<1>2. B = A \union {c} /\ c \notin A
  OBVIOUS
<1>3. Cardinality(B) = Cardinality(A) + 1
  BY <1>1, <1>2, FS_AddElement
<1> QED BY <1>3 DEF Count

\* ... and the counts of the rest stay.
LEMMA Stays ==
    ASSUME NEW c \in Connections, NEW v, NEW S, DOMAIN conn = Connections,
           conn' = [conn EXCEPT ![c] = v], conn[c] \in S <=> v \in S
    PROVE  Count(conn', S) = Count(conn, S)
<1>1. {x \in Connections : conn[x] \in S} = {x \in Connections : conn'[x] \in S}
  OBVIOUS
<1> QED BY <1>1 DEF Count

\* The connections in a set of states are finitely many.
LEMMA CountType ==
    ASSUME NEW S
    PROVE  Count(conn, S) \in Nat
<1>1. IsFiniteSet({x \in Connections : conn[x] \in S})
  BY ReplicationServerAssumption, FS_Subset
<1> QED BY <1>1, FS_CardinalityType DEF Count

Active == {"accepted", "queued", "late", "handled", "no_db", "abandoned"}

\* TelemetryBalances, in terms of Count.
LEMMA Balance ==
    TelemetryBalances <=>
        /\ telemetry.accepted = telemetry.completed + telemetry.failed + telemetry.active
        /\ telemetry.completed = Count(conn, {"completed"})
        /\ telemetry.failed = Count(conn, {"failed"})
        /\ telemetry.active = Count(conn, Active)
  BY DEF TelemetryBalances, Count, Active

\* ... and after a step.
LEMMA BalanceNext ==
    TelemetryBalances' <=>
        /\ telemetry'.accepted = telemetry'.completed + telemetry'.failed + telemetry'.active
        /\ telemetry'.completed = Count(conn', {"completed"})
        /\ telemetry'.failed = Count(conn', {"failed"})
        /\ telemetry'.active = Count(conn', Active)
  BY DEF TelemetryBalances, Count, Active

\* A connection that stays active changes no counter.
LEMMA StaysActive ==
    ASSUME TypeOK, TelemetryBalances, NEW c \in Connections, NEW v \in Active,
           conn[c] \in Active, conn' = [conn EXCEPT ![c] = v], telemetry' = telemetry
    PROVE  TelemetryBalances'
<1>1. DOMAIN conn = Connections
  BY DEF TypeOK
<1>2. /\ Count(conn', {"completed"}) = Count(conn, {"completed"})
      /\ Count(conn', {"failed"}) = Count(conn, {"failed"})
      /\ Count(conn', Active) = Count(conn, Active)
  <2>1. conn[c] \notin {"completed"} /\ conn[c] \notin {"failed"}
        /\ v \notin {"completed"} /\ v \notin {"failed"}
    BY DEF Active
  <2>2. Count(conn', {"completed"}) = Count(conn, {"completed"})
    BY <1>1, <2>1, Stays
  <2>3. Count(conn', {"failed"}) = Count(conn, {"failed"})
    BY <1>1, <2>1, Stays
  <2>4. Count(conn', Active) = Count(conn, Active)
    BY <1>1, Stays
  <2> QED BY <2>2, <2>3, <2>4
<1> QED BY <1>2, Balance, BalanceNext

\* A connection that ends well or badly moves from active to one of the others.
LEMMA EndsBalanced ==
    ASSUME TypeOK, TelemetryBalances, NEW c \in Connections, NEW ok \in BOOLEAN,
           conn[c] \in Active,
           conn' = [conn EXCEPT ![c] = IF ok THEN "completed" ELSE "failed"],
           telemetry' = [telemetry EXCEPT
                       !.completed = @ + (IF ok THEN 1 ELSE 0),
                       !.failed = @ + (IF ok THEN 0 ELSE 1),
                       !.active = IF @ > 0 THEN @ - 1 ELSE @]
    PROVE  TelemetryBalances'
<1>1. DOMAIN conn = Connections
  BY DEF TypeOK
<1>t. telemetry \in [accepted : Nat, completed : Nat, failed : Nat, active : Nat]
  BY DEF TypeOK
<1> DEFINE v == IF ok THEN "completed" ELSE "failed"
<1>2. conn[c] \notin {"completed"} /\ conn[c] \notin {"failed"} /\ v \notin Active
  BY DEF Active
<1>3. Count(conn, Active) > 0 /\ Count(conn', Active) = Count(conn, Active) - 1
  BY <1>1, <1>2, Leaves
<1>4. \A S : Count(conn, S) \in Nat
  BY CountType
<1>5. CASE ok = TRUE
  <2>1. v = "completed" /\ conn' = [conn EXCEPT ![c] = "completed"]
    BY <1>5
  <2>2. Count(conn', {"completed"}) = Count(conn, {"completed"}) + 1
    BY <1>1, <1>2, <2>1, Enters
  <2>3. Count(conn', {"failed"}) = Count(conn, {"failed"})
    BY <1>1, <1>2, <2>1, Stays
  <2>4. /\ telemetry'.completed = telemetry.completed + 1
        /\ telemetry'.failed = telemetry.failed
        /\ telemetry'.accepted = telemetry.accepted
        /\ telemetry'.active = IF telemetry.active > 0 THEN telemetry.active - 1 ELSE telemetry.active
    BY <1>t, <1>5
  <2> QED BY <1>t, <1>3, <1>4, <2>2, <2>3, <2>4, Balance, BalanceNext
<1>6. CASE ok = FALSE
  <2>1. v = "failed" /\ conn' = [conn EXCEPT ![c] = "failed"]
    BY <1>6
  <2>2. Count(conn', {"completed"}) = Count(conn, {"completed"})
    BY <1>1, <1>2, <2>1, Stays, ZenonT(60)
  <2>3. Count(conn', {"failed"}) = Count(conn, {"failed"}) + 1
    BY <1>1, <1>2, <2>1, Enters
  <2>4. /\ telemetry'.completed = telemetry.completed
        /\ telemetry'.failed = telemetry.failed + 1
        /\ telemetry'.accepted = telemetry.accepted
        /\ telemetry'.active = IF telemetry.active > 0 THEN telemetry.active - 1 ELSE telemetry.active
    BY <1>t, <1>6
  <2> QED BY <1>t, <1>3, <1>4, <2>2, <2>3, <2>4, Balance, BalanceNext
<1> QED BY <1>5, <1>6

Telemetry == [accepted : Nat, completed : Nat, failed : Nat, active : Nat]

\* The counters stay natural numbers.
LEMMA CountersType ==
    ASSUME NEW t \in Telemetry, NEW m \in Nat, NEW n \in Nat
    PROVE  /\ [t EXCEPT !.accepted = @ + 1, !.active = @ + 1] \in Telemetry
           /\ [t EXCEPT !.completed = @ + m, !.failed = @ + n,
                        !.active = IF @ > 0 THEN @ - 1 ELSE @] \in Telemetry
           /\ [t EXCEPT !.failed = @ + 1, !.active = IF @ > 0 THEN @ - 1 ELSE @]
                = [t EXCEPT !.completed = @ + 0, !.failed = @ + 1,
                            !.active = IF @ > 0 THEN @ - 1 ELSE @]
<1> USE DEF Telemetry
<1>1. \A r \in Telemetry : [r EXCEPT !.active = @ + 1] \in Telemetry
  OBVIOUS
<1>2. \A r \in Telemetry : [r EXCEPT !.active = IF @ > 0 THEN @ - 1 ELSE @] \in Telemetry
  OBVIOUS
<1>3. \A r \in Telemetry : [r EXCEPT !.failed = @ + n] \in Telemetry
  OBVIOUS
<1>4. [t EXCEPT !.accepted = @ + 1] \in Telemetry /\ [t EXCEPT !.completed = @ + m] \in Telemetry
  OBVIOUS
<1>5. [t EXCEPT !.completed = @ + 0] = t
  OBVIOUS
<1>6. [t EXCEPT !.accepted = @ + 1, !.active = @ + 1]
        = [[t EXCEPT !.accepted = @ + 1] EXCEPT !.active = @ + 1]
  OBVIOUS
<1>7. [t EXCEPT !.completed = @ + m, !.failed = @ + n, !.active = IF @ > 0 THEN @ - 1 ELSE @]
        = [[[t EXCEPT !.completed = @ + m] EXCEPT !.failed = @ + n]
              EXCEPT !.active = IF @ > 0 THEN @ - 1 ELSE @]
  OBVIOUS
<1>8. [t EXCEPT !.failed = @ + 1, !.active = IF @ > 0 THEN @ - 1 ELSE @]
        = [t EXCEPT !.completed = @ + 0, !.failed = @ + 1,
                    !.active = IF @ > 0 THEN @ - 1 ELSE @]
  <2>1. [t EXCEPT !.failed = @ + 1, !.active = IF @ > 0 THEN @ - 1 ELSE @]
          = [[t EXCEPT !.failed = @ + 1] EXCEPT !.active = IF @ > 0 THEN @ - 1 ELSE @]
    OBVIOUS
  <2>2. [t EXCEPT !.completed = @ + 0, !.failed = @ + 1, !.active = IF @ > 0 THEN @ - 1 ELSE @]
          = [[[t EXCEPT !.completed = @ + 0] EXCEPT !.failed = @ + 1]
                EXCEPT !.active = IF @ > 0 THEN @ - 1 ELSE @]
    OBVIOUS
  <2> QED BY <1>5, <2>1, <2>2, Zenon
<1> HIDE DEF Telemetry
<1>9. [t EXCEPT !.accepted = @ + 1, !.active = @ + 1] \in Telemetry
  BY <1>1, <1>4, <1>6, Zenon
<1>10. [t EXCEPT !.completed = @ + m, !.failed = @ + n,
                 !.active = IF @ > 0 THEN @ - 1 ELSE @] \in Telemetry
  BY <1>2, <1>3, <1>4, <1>7, Zenon
<1> QED BY <1>8, <1>9, <1>10, Zenon

\* A new connection is active.
LEMMA AcceptBalanced ==
    ASSUME TypeOK, TelemetryBalances, NEW c \in Connections, conn[c] = "new",
           conn' = [conn EXCEPT ![c] = "accepted"],
           telemetry' = [telemetry EXCEPT !.accepted = @ + 1, !.active = @ + 1]
    PROVE  TelemetryBalances'
<1>1. DOMAIN conn = Connections
  BY DEF TypeOK
<1>t. telemetry \in [accepted : Nat, completed : Nat, failed : Nat, active : Nat]
  BY DEF TypeOK
<1>2. Count(conn', {"completed"}) = Count(conn, {"completed"})
  BY <1>1, Stays
<1>3. Count(conn', {"failed"}) = Count(conn, {"failed"})
  BY <1>1, Stays
<1>4. Count(conn', Active) = Count(conn, Active) + 1
  <2>1. "new" \notin Active /\ "accepted" \in Active
    BY DEF Active
  <2> QED BY <1>1, <2>1, Enters
<1>5. \A S : Count(conn, S) \in Nat
  BY CountType
<1>6. /\ telemetry'.completed = telemetry.completed
      /\ telemetry'.failed = telemetry.failed
      /\ telemetry'.accepted = telemetry.accepted + 1
      /\ telemetry'.active = telemetry.active + 1
  BY <1>t
<1> QED BY <1>t, <1>2, <1>3, <1>4, <1>5, <1>6, Balance, BalanceNext

-----------------------------------------------------------------------------
(* The initial state and the control thread *)

\* Before the first start(): nothing runs and nothing is counted.
LEMMA InitHolds == Init => IInv
<1> SUFFICES ASSUME Init PROVE IInv
  OBVIOUS
<1>1. TypeOK
  <2>1. pending_connections \in Seq(Connections)
    BY DEF Init
  <2>2. telemetry \in [accepted : Nat, completed : Nat, failed : Nat, active : Nat]
    BY DEF Init, NoTelemetry
  <2>3. {snapshot, stop_requested, running, published, listening, last_error,
         accepting_connections} \subseteq BOOLEAN
    BY DEF Init
  <2>4. worker \in [Workers -> {"none", "awake", "asleep", "handling", "exited"}]
        /\ handled \in [Workers -> Connections \union {NoConnection}]
        /\ conn \in [Connections -> {"new", "accepted", "handled"} \union InQueue \union Ends]
    BY DEF Init
  <2>5. /\ accepted # NoConnection <=> listener = "queueing"
        /\ \A w \in Workers : handled[w] # NoConnection <=> worker[w] = "handling"
    BY DEF Init
  <2> QED BY <2>1, <2>2, <2>3, <2>4, <2>5 DEF Init, TypeOK, ListenerStates
<1>2. TelemetryBalances
  <2>1. \A S : "new" \notin S => Count(conn, S) = 0
    BY FS_EmptySet DEF Count, Init
  <2>2. Count(conn, {"completed"}) = 0 /\ Count(conn, {"failed"}) = 0 /\ Count(conn, Active) = 0
    BY <2>1 DEF Active
  <2> QED BY <2>2, Balance DEF Init, NoTelemetry
<1>3. NoLostWakeup /\ QueuedBeforeStopIsHandled
  BY DEF Init, NoLostWakeup, QueuedBeforeStopIsHandled, Asleep
<1>4. ListenerShape /\ StopOrder
  BY DEF Init, ListenerShape, StopOrder, Up, Asleep, Stopping
<1>5. Ownership /\ Drained /\ AfterWorkers
  BY DEF Init, Ownership, Drained, AfterWorkers
<1> QED BY <1>1, <1>2, <1>3, <1>4, <1>5 DEF IInv

\* What is said of the connections, by whoever touches none of them.
LEMMA ConnectionsUntouched ==
    ASSUME IInv, UNCHANGED <<accepted, pending_connections, handled, telemetry, conn>>
    PROVE  TelemetryBalances' /\ QueuedBeforeStopIsHandled' /\ Ownership'
  BY DEF IInv, TelemetryBalances, QueuedBeforeStopIsHandled, Ownership, InQueue

\* start() resets the counters when no thread of the server is left.
LEMMA StartKeeps ==
    ASSUME IInv, Start
    PROVE  IInv'
<1> USE DEF IInv, Start, ControlStep, listenerVars, workerVars
<1>1. listener = "none" /\ pending_connections = <<>> /\ accepted = NoConnection
      /\ \A w \in Workers : handled[w] = NoConnection /\ worker[w] = "none"
  BY DEF TypeOK, ListenerShape, StopOrder, Up
<1>2. TypeOK'
  BY ReplicationServerAssumption DEF TypeOK, NoTelemetry
<1>3. TelemetryBalances'
  <2>1. \A S : "new" \notin S => Count(conn', S) = 0
    BY FS_EmptySet DEF Count
  <2>2. Count(conn', {"completed"}) = 0 /\ Count(conn', {"failed"}) = 0 /\ Count(conn', Active) = 0
    BY <2>1 DEF Active
  <2> QED BY <2>2, BalanceNext DEF NoTelemetry
<1>4. NoLostWakeup' /\ QueuedBeforeStopIsHandled'
  BY <1>1 DEF NoLostWakeup, QueuedBeforeStopIsHandled, Asleep
<1>5. ListenerShape' /\ StopOrder'
  BY <1>1 DEF ListenerShape, StopOrder, Up, Asleep, Stopping
<1>6. Ownership' /\ Drained' /\ AfterWorkers'
  BY <1>1 DEF Ownership, Drained, AfterWorkers
<1> QED BY <1>2, <1>3, <1>4, <1>5, <1>6

\* The other steps of start() and stop() only move flags.
LEMMA ControlKeeps ==
    ASSUME IInv, StartStep \/ Stop \/ StopStep
    PROVE  IInv'
<1>1. UNCHANGED <<accepted, pending_connections, handled, telemetry, conn, worker,
                  accepting_connections, last_error>>
  BY DEF StartStep, Stop, StopStep, StartSpawns, PollRunning, PollError, StopSetsFlag,
         StopTakesSnapshot, StopClosesAcceptor, StopJoinsListener, StopReturns,
         listenerVars, workerVars, sharedVars
<1>2. TelemetryBalances' /\ QueuedBeforeStopIsHandled' /\ Ownership'
  BY <1>1, ConnectionsUntouched
<1> USE <1>1 DEF IInv, ControlStep, listenerVars, workerVars, sharedVars
<1>3. SUFFICES TypeOK' /\ NoLostWakeup' /\ ListenerShape' /\ StopOrder' /\ Drained' /\ AfterWorkers'
  BY <1>2
<1>4. (control' \in {"idle", "start_join", "poll_running", "poll_error"} \union Stopping)
      /\ listener' \in ListenerStates
  BY DEF StartStep, Stop, StopStep, StartSpawns, PollRunning, PollError, StopSetsFlag,
         StopTakesSnapshot, StopClosesAcceptor, StopJoinsListener, StopReturns, TypeOK, Stopping,
         ListenerStates
<1>5. (listener' = "queueing" <=> listener = "queueing") /\ (listener' = "notifying" <=> listener = "notifying")
      /\ (listener' = "resetting" <=> listener = "resetting")
  BY DEF StartStep, Stop, StopStep, StartSpawns, PollRunning, PollError, StopSetsFlag,
         StopTakesSnapshot, StopClosesAcceptor, StopJoinsListener, StopReturns
<1>6. {snapshot', stop_requested', running', published', listening'} \subseteq BOOLEAN
  BY DEF StartStep, Stop, StopStep, StartSpawns, PollRunning, PollError, StopSetsFlag,
         StopTakesSnapshot, StopClosesAcceptor, StopJoinsListener, StopReturns, TypeOK
<1>7. TypeOK'
  BY <1>4, <1>5, <1>6 DEF TypeOK
<1>8. NoLostWakeup' /\ AfterWorkers'
  BY <1>5 DEF NoLostWakeup, AfterWorkers, Asleep
<1>9. Drained'
  BY DEF Drained, ListenerShape, StartStep, Stop, StopStep, StartSpawns, PollRunning, PollError, StopSetsFlag,
         StopTakesSnapshot, StopClosesAcceptor, StopJoinsListener, StopReturns
<1> USE DEF ListenerShape, StopOrder, Up, Stopping, Asleep
<1>10. ListenerShape' /\ StopOrder'
  <2>1. CASE StartSpawns
    BY <2>1 DEF StartSpawns
  <2>2. CASE PollRunning
    BY <2>2 DEF PollRunning
  <2>3. CASE PollError
    BY <2>3 DEF PollError
  <2>4. CASE Stop
    BY <2>4 DEF Stop
  <2>5. CASE StopSetsFlag
    BY <2>5 DEF StopSetsFlag
  <2>6. CASE StopTakesSnapshot
    BY <2>6 DEF StopTakesSnapshot
  <2>7. CASE StopClosesAcceptor
    <3>1. (listening' => listening) /\ control' = "stop_join"
          /\ UNCHANGED <<stop_requested, running, published, listener>>
      BY <2>7 DEF StopClosesAcceptor
    <3>2. stop_requested
      BY <2>7 DEF StopClosesAcceptor
    <3> QED BY <3>1, <3>2
  <2>8. CASE StopJoinsListener
    BY <2>8 DEF StopJoinsListener
  <2>9. CASE StopReturns
    BY <2>9 DEF StopReturns
  <2> QED BY <2>1, <2>2, <2>3, <2>4, <2>5, <2>6, <2>7, <2>8, <2>9 DEF StartStep, StopStep
<1> QED BY <1>7, <1>8, <1>9, <1>10

-----------------------------------------------------------------------------
(* The listener *)

\* run() while no worker exists, and its decisions in the loop.
LEMMA ListenerMovesKeep ==
    ASSUME IInv,
           \/ \E ok \in BOOLEAN : ListenerOpens(ok)
           \/ ListenerPublishes \/ ListenerChecksStop \/ ListenerAcceptFails
    PROVE  IInv'
<1> USE DEF ListenerStep, sharedVars, controlVars, workerVars
<1>1. UNCHANGED <<control, snapshot, accepted, pending_connections, handled, telemetry, conn,
                  worker, accepting_connections, stop_requested, running>>
  BY DEF ListenerOpens, ListenerPublishes, ListenerChecksStop, ListenerAcceptFails
<1>2. TelemetryBalances' /\ QueuedBeforeStopIsHandled' /\ Ownership'
  BY <1>1, ConnectionsUntouched
<1>3. listener' \in ListenerStates /\ listener' \notin {"queueing", "notifying", "resetting", "none"}
      /\ listener \notin {"queueing", "notifying", "resetting", "none"}
  BY DEF ListenerOpens, ListenerPublishes, ListenerChecksStop, ListenerAcceptFails, ListenerStates
<1>4. {published', listening', last_error'} \subseteq BOOLEAN
  BY DEF ListenerOpens, ListenerPublishes, ListenerChecksStop, ListenerAcceptFails, IInv, TypeOK
<1>5. TypeOK'
  BY <1>1, <1>3, <1>4 DEF IInv, TypeOK
<1>6. NoLostWakeup' /\ AfterWorkers' /\ Drained'
  BY <1>1, <1>3 DEF IInv, NoLostWakeup, AfterWorkers, Drained, Asleep
<1> USE DEF IInv, ListenerShape, StopOrder, Up, Stopping, Asleep
<1>7. ListenerShape' /\ StopOrder'
  <2>1. ASSUME NEW ok \in BOOLEAN, ListenerOpens(ok)
        PROVE  ListenerShape' /\ StopOrder'
    <3>1. CASE ok = TRUE
      BY <1>1, <2>1, <3>1 DEF ListenerOpens
    <3>2. CASE ok = FALSE
      BY <1>1, <2>1, <3>2 DEF ListenerOpens
    <3> QED BY <3>1, <3>2
  <2>2. CASE ListenerPublishes
    BY <1>1, <2>2 DEF ListenerPublishes
  <2>3. CASE ListenerChecksStop
    BY <1>1, <2>3 DEF ListenerChecksStop
  <2>4. CASE ListenerAcceptFails
    BY <1>1, <2>4 DEF ListenerAcceptFails
  <2> QED BY <2>1, <2>2, <2>3, <2>4
<1> QED BY <1>2, <1>5, <1>6, <1>7

\* run() spawns its workers, and it wakes and joins them at the end.
LEMMA ListenerPoolKeeps ==
    ASSUME IInv, ListenerSpawnsWorkers \/ ListenerCloses \/ ListenerJoinsWorkers
    PROVE  IInv'
<1> USE DEF ListenerStep, sharedVars, controlVars, workerVars
<1>1. UNCHANGED <<control, snapshot, accepted, pending_connections, handled, telemetry, conn,
                  stop_requested, published, listening, last_error>>
  BY DEF ListenerSpawnsWorkers, ListenerCloses, ListenerJoinsWorkers
<1>2. TelemetryBalances' /\ QueuedBeforeStopIsHandled' /\ Ownership'
  BY <1>1, ConnectionsUntouched
<1> USE DEF IInv
<1>3. CASE ListenerSpawnsWorkers
  <2>1. \A w \in Workers : worker[w] = "none" /\ worker'[w] = "awake"
    BY <1>3 DEF ListenerSpawnsWorkers, ListenerShape, Up
  <2>2. TypeOK'
    BY <1>1, <1>3, <2>1 DEF ListenerSpawnsWorkers, TypeOK, ListenerStates
  <2>3. NoLostWakeup' /\ AfterWorkers' /\ Drained'
    BY <1>1, <1>3, <2>1 DEF ListenerSpawnsWorkers, NoLostWakeup, AfterWorkers, Drained, Asleep
  <2>4. ListenerShape' /\ StopOrder'
    BY <1>1, <1>3, <2>1 DEF ListenerSpawnsWorkers, ListenerShape, StopOrder, Up, Stopping, Asleep
  <2> QED BY <1>2, <2>2, <2>3, <2>4
<1>4. CASE ListenerCloses
  <2>1. \A w \in Workers : worker'[w] = IF worker[w] = "asleep" THEN "awake" ELSE worker[w]
    BY <1>4 DEF ListenerCloses, Asleep
  <2>2. TypeOK'
    BY <1>1, <1>4, <2>1 DEF ListenerCloses, TypeOK, ListenerStates
  <2>3. NoLostWakeup' /\ AfterWorkers' /\ Drained'
    BY <1>1, <1>4, <2>1 DEF ListenerCloses, NoLostWakeup, AfterWorkers, Drained, Asleep
  <2>4. ListenerShape' /\ StopOrder'
    BY <1>1, <1>4, <2>1 DEF ListenerCloses, ListenerShape, StopOrder, Up, Stopping, Asleep
  <2> QED BY <1>2, <2>2, <2>3, <2>4
<1>5. CASE ListenerJoinsWorkers
  <2>1. \A w \in Workers : worker'[w] = "none"
    BY <1>5 DEF ListenerJoinsWorkers
  <2>2. TypeOK'
    BY <1>1, <1>5, <2>1 DEF ListenerJoinsWorkers, TypeOK, ListenerStates
  <2>3. NoLostWakeup' /\ AfterWorkers' /\ Drained'
    BY <1>1, <1>5, <2>1, ReplicationServerAssumption
    DEF ListenerJoinsWorkers, NoLostWakeup, AfterWorkers, Drained, Asleep
  <2>4. ListenerShape' /\ StopOrder'
    BY <1>1, <1>5, <2>1 DEF ListenerJoinsWorkers, ListenerShape, StopOrder, Up, Stopping, Asleep
  <2> QED BY <1>2, <2>2, <2>3, <2>4
<1> QED BY <1>3, <1>4, <1>5

\* A new connection belongs to the listener.
LEMMA ListenerAcceptsKeeps ==
    ASSUME IInv, NEW c \in Connections, ListenerAccepts(c)
    PROVE  IInv'
<1> USE DEF IInv, ListenerAccepts, ListenerStep, sharedVars, controlVars, workerVars
<1>1. TelemetryBalances'
  BY AcceptBalanced
<1>2. TypeOK'
  <2>1. telemetry' \in [accepted : Nat, completed : Nat, failed : Nat, active : Nat]
    <3>1. telemetry \in Telemetry
      BY DEF TypeOK, Telemetry
    <3> QED BY <3>1, CountersType DEF Telemetry
  <2>2. conn' \in [Connections -> {"new", "accepted", "handled"} \union InQueue \union Ends]
    BY DEF TypeOK
  <2>3. UNCHANGED <<control, pending_connections, worker, handled, snapshot, stop_requested, running,
                    published, listening, last_error, accepting_connections>>
    OBVIOUS
  <2>4. accepted' \in Connections /\ accepted' # NoConnection /\ listener' = "queueing"
    BY ReplicationServerAssumption
  <2> QED BY <2>1, <2>2, <2>3, <2>4 DEF TypeOK, ListenerStates
<1>3. NoLostWakeup' /\ QueuedBeforeStopIsHandled' /\ Drained' /\ AfterWorkers'
  BY DEF NoLostWakeup, QueuedBeforeStopIsHandled, Drained, AfterWorkers, Asleep, TypeOK
<1>4. ListenerShape' /\ StopOrder'
  BY DEF ListenerShape, StopOrder, Up, Stopping, Asleep
<1>5. Ownership'
  BY DEF Ownership, TypeOK, InQueue
<1> QED BY <1>1, <1>2, <1>3, <1>4, <1>5

\* A connection goes to the queue, or is closed because the queue is full.
LEMMA ListenerQueuesKeeps ==
    ASSUME IInv, ListenerQueues
    PROVE  IInv'
<1> DEFINE room == Len(pending_connections) < kMaxPendingAcceptedConnections
           state == IF ~room THEN "failed" ELSE IF stop_requested THEN "late" ELSE "queued"
<1> USE DEF IInv
<1>1. /\ listener = "queueing"
      /\ UNCHANGED <<control, snapshot, stop_requested, running, published, listening,
                      accepting_connections, worker, handled>>
      /\ accepted' = NoConnection
      /\ conn' = [conn EXCEPT ![accepted] = state]
  BY DEF ListenerQueues, ListenerStep, controlVars, workerVars
<1>2. accepted \in Connections /\ conn[accepted] = "accepted"
  BY <1>1 DEF TypeOK, Ownership
<1>3. pending_connections \in Seq(Connections) /\ DOMAIN conn = Connections
  BY DEF TypeOK
<1>4. ListenerShape' /\ StopOrder'
  <2>1. listener' \in {"notifying", "loop"}
    BY DEF ListenerQueues, ListenerStep
  <2> QED BY <1>1, <2>1 DEF ListenerShape, StopOrder, Up, Stopping, Asleep
<1>5. CASE room
  <2>1. /\ listener' = "notifying" /\ telemetry' = telemetry
        /\ pending_connections' = Append(pending_connections, accepted)
        /\ state \in InQueue
        /\ last_error' = (last_error \/ FALSE)
    BY <1>5 DEF ListenerQueues, ListenerStep, InQueue
  <2>2. /\ pending_connections' \in Seq(Connections)
        /\ Len(pending_connections') = Len(pending_connections) + 1
        /\ Len(pending_connections) \in Nat
        /\ \A i \in 1 .. Len(pending_connections) : pending_connections'[i] = pending_connections[i]
        /\ pending_connections'[Len(pending_connections) + 1] = accepted
    BY <1>2, <1>3, <2>1
  <2>3. TelemetryBalances'
    BY <1>1, <1>2, <2>1, StaysActive DEF InQueue, Active
  <2>4. TypeOK'
    <3>1. conn' \in [Connections -> {"new", "accepted", "handled"} \union InQueue \union Ends]
      BY <1>1, <1>2, <2>1 DEF TypeOK
    <3>2. last_error' \in BOOLEAN
      BY <2>1 DEF TypeOK
    <3> QED BY <1>1, <2>1, <2>2, <3>1, <3>2 DEF TypeOK, ListenerStates
  <2>5. NoLostWakeup'
    <3>1. Cardinality({w \in Workers : worker[w] = "awake"}) \in Nat
      BY ReplicationServerAssumption, FS_Subset, FS_CardinalityType
    <3> QED BY <1>1, <2>1, <2>2, <3>1 DEF NoLostWakeup, Asleep
  <2>6. QueuedBeforeStopIsHandled' /\ AfterWorkers'
    BY <1>1, <1>2, <1>3, <2>1 DEF QueuedBeforeStopIsHandled, AfterWorkers, InQueue
  <2>7. Drained'
    BY <1>1, <1>2, <1>3, <2>1 DEF Drained, InQueue
  <2>8. Ownership'
    <3>1. \A i \in 1 .. Len(pending_connections) : pending_connections[i] \in Connections
      BY <1>3
    <3>2. \A i \in 1 .. Len(pending_connections') : conn'[pending_connections'[i]] \in InQueue
      BY <1>1, <1>2, <1>3, <2>1, <2>2, <3>1 DEF Ownership
    <3>3. \A i \in 1 .. Len(pending_connections) : pending_connections[i] # accepted
      BY <1>2 DEF Ownership, InQueue
    <3>4. \A i, j \in 1 .. Len(pending_connections') :
            pending_connections'[i] = pending_connections'[j] => i = j
      BY <2>2, <3>3 DEF Ownership
    <3>5. /\ \A w \in Workers : handled'[w] # NoConnection => conn'[handled'[w]] = "handled"
          /\ \A v, w \in Workers : handled'[v] # NoConnection /\ handled'[v] = handled'[w] => v = w
      BY <1>1, <1>2 DEF Ownership, TypeOK
    <3>6. \A c \in Connections :
            conn'[c] = "queued" =>
              \E i \in 1 .. Len(pending_connections') : pending_connections'[i] = c
      BY <1>1, <1>2, <1>3, <2>2 DEF Ownership
    <3> QED BY <1>1, <3>2, <3>4, <3>5, <3>6 DEF Ownership
  <2> QED BY <1>4, <2>3, <2>4, <2>5, <2>6, <2>7, <2>8
<1>6. CASE ~room
  <2>1. /\ listener' = "loop" /\ pending_connections' = pending_connections
        /\ state = "failed" /\ last_error' = (last_error \/ TRUE)
        /\ telemetry' = [telemetry EXCEPT !.failed = @ + 1,
                                          !.active = IF @ > 0 THEN @ - 1 ELSE @]
    BY <1>6 DEF ListenerQueues, ListenerStep
  <2>2. telemetry' = [telemetry EXCEPT !.completed = @ + 0, !.failed = @ + 1,
                                       !.active = IF @ > 0 THEN @ - 1 ELSE @]
        /\ telemetry' \in Telemetry
    <3>1. telemetry \in Telemetry
      BY DEF TypeOK, Telemetry
    <3> QED BY <2>1, <3>1, CountersType
  <2>3. TelemetryBalances'
    BY <1>1, <1>2, <2>1, <2>2, EndsBalanced DEF Active
  <2>4. TypeOK'
    <3>1. conn' \in [Connections -> {"new", "accepted", "handled"} \union InQueue \union Ends]
      BY <1>1, <1>2, <2>1 DEF TypeOK, Ends
    <3>2. last_error' \in BOOLEAN
      BY <2>1 DEF TypeOK
    <3>3. telemetry' \in [accepted : Nat, completed : Nat, failed : Nat, active : Nat]
      BY <2>2 DEF Telemetry
    <3> QED BY <1>1, <2>1, <3>1, <3>2, <3>3 DEF TypeOK, ListenerStates
  <2>5. NoLostWakeup' /\ QueuedBeforeStopIsHandled' /\ AfterWorkers' /\ Drained'
    BY <1>1, <1>2, <1>3, <2>1 DEF NoLostWakeup, Asleep, QueuedBeforeStopIsHandled, AfterWorkers, Drained
  <2>6. Ownership'
    <3>1. \A i \in 1 .. Len(pending_connections) : pending_connections[i] \in Connections
      BY <1>3
    <3> QED BY <1>1, <1>2, <1>3, <2>1, <3>1 DEF Ownership, TypeOK, InQueue
  <2> QED BY <1>4, <2>3, <2>4, <2>5, <2>6
<1> QED BY <1>5, <1>6

\* run() drops what is still queued, none of it queued before the stop.
LEMMA ListenerEndsKeeps ==
    ASSUME IInv, ListenerEnds
    PROVE  IInv'
<1> USE DEF IInv, ListenerEnds, ListenerStep, controlVars, workerVars
<1>1. conn' = conn
  <2>1. DOMAIN conn = Connections
    BY DEF TypeOK
  <2>2. \A c \in Connections : conn[c] # "queued"
    BY DEF AfterWorkers
  <2> QED BY <2>1, <2>2 DEF TypeOK
<1>2. UNCHANGED <<control, snapshot, stop_requested, running, last_error, accepted, handled,
                  worker, accepting_connections, telemetry>>
  OBVIOUS
<1>3. \A w \in Workers : worker[w] = "none"
  BY DEF ListenerShape, Up
<1>4. TypeOK'
  <2>1. pending_connections' \in Seq(Connections)
    OBVIOUS
  <2>2. published' = FALSE /\ listening' = FALSE /\ listener' = "ended"
    OBVIOUS
  <2>3. listener = "resetting"
    OBVIOUS
  <2> QED BY <1>1, <1>2, <2>1, <2>2, <2>3 DEF TypeOK, ListenerStates
<1>5. TelemetryBalances' /\ QueuedBeforeStopIsHandled'
  BY <1>1, <1>2 DEF TelemetryBalances, QueuedBeforeStopIsHandled
<1>6. NoLostWakeup' /\ AfterWorkers' /\ Drained'
  BY <1>1, <1>2, <1>3 DEF NoLostWakeup, AfterWorkers, Drained, Asleep
<1>7. ListenerShape' /\ StopOrder'
  BY <1>2 DEF ListenerShape, StopOrder, Up, Stopping, Asleep
<1>8. Ownership'
  BY <1>1, <1>2 DEF Ownership, AfterWorkers
<1> QED BY <1>4, <1>5, <1>6, <1>7, <1>8

-----------------------------------------------------------------------------
(* The workers *)

Awake == {w \in Workers : worker[w] = "awake"}

\* The number of workers that are awake, when one more wakes ...
LEMMA OneMoreAwake ==
    ASSUME NEW w \in Workers, DOMAIN worker = Workers, worker[w] # "awake",
           worker' = [worker EXCEPT ![w] = "awake"]
    PROVE  Cardinality(Awake) \in Nat /\ Cardinality(Awake') = Cardinality(Awake) + 1
<1>1. IsFiniteSet(Awake)
  BY ReplicationServerAssumption, FS_Subset DEF Awake
<1>2. Awake' = Awake \union {w} /\ w \notin Awake
  BY DEF Awake
<1> QED BY <1>1, <1>2, FS_AddElement, FS_CardinalityType

\* ... and when one is awake no more.
LEMMA OneLessAwake ==
    ASSUME NEW w \in Workers, DOMAIN worker = Workers, worker[w] = "awake",
           NEW s, s # "awake", worker' = [worker EXCEPT ![w] = s]
    PROVE  Cardinality(Awake) \in Nat /\ Cardinality(Awake') = Cardinality(Awake) - 1
<1>1. IsFiniteSet(Awake)
  BY ReplicationServerAssumption, FS_Subset DEF Awake
<1>2. Awake' = Awake \ {w} /\ w \in Awake
  BY DEF Awake
<1> QED BY <1>1, <1>2, FS_RemoveElement, FS_CardinalityType

\* A worker that is woken, by notify_one or for no reason.
LEMMA WakingKeeps ==
    ASSUME IInv, ListenerNotifies \/ \E w \in Workers : WorkerWakes(w)
    PROVE  IInv'
<1>1. UNCHANGED <<control, snapshot, accepted, pending_connections, handled, telemetry, conn,
                  accepting_connections, stop_requested, running, published, listening, last_error>>
  BY DEF ListenerNotifies, WorkerWakes, controlVars, sharedVars, listenerVars
<1>2. TelemetryBalances' /\ QueuedBeforeStopIsHandled' /\ Ownership'
  BY <1>1, ConnectionsUntouched
<1>3. listener' = listener \/ (listener = "notifying" /\ listener' = "loop")
  BY DEF ListenerNotifies, WorkerWakes, listenerVars, ListenerStep
<1>4. \/ worker' = worker /\ Asleep = {}
      \/ \E w \in Workers : worker[w] = "asleep" /\ worker' = [worker EXCEPT ![w] = "awake"]
  BY DEF ListenerNotifies, WorkerWakes, Asleep
<1> USE DEF IInv
<1>5. TypeOK'
  BY <1>1, <1>3, <1>4 DEF TypeOK, ListenerStates
<1>6. DOMAIN worker = Workers /\ Len(pending_connections) \in Nat
  BY DEF TypeOK
<1>7. NoLostWakeup'
  <2>1. CASE worker' = worker /\ Asleep = {}
    BY <2>1 DEF NoLostWakeup, Asleep
  <2>2. ASSUME NEW w \in Workers, worker[w] = "asleep", worker' = [worker EXCEPT ![w] = "awake"]
        PROVE  NoLostWakeup'
    <3>1. Cardinality(Awake') = Cardinality(Awake) + 1 /\ Cardinality(Awake) \in Nat
      BY <1>6, <2>2, OneMoreAwake
    <3>2. w \in Asleep
      BY <2>2 DEF Asleep
    <3> QED BY <1>1, <1>3, <1>6, <3>1, <3>2 DEF NoLostWakeup, Awake
  <2> QED BY <1>4, <2>1, <2>2
<1>8. AfterWorkers' /\ Drained'
  BY <1>1, <1>3, <1>4, <1>6 DEF AfterWorkers, Drained
<1>9. ListenerShape' /\ StopOrder'
  <2>1. /\ \A w \in Workers : worker'[w] = "none" <=> worker[w] = "none"
        /\ \A w \in Workers : worker'[w] = "asleep" => worker[w] = "asleep"
    BY <1>4, <1>6
  <2> QED BY <1>1, <1>3, <2>1 DEF ListenerShape, StopOrder, Up, Stopping, Asleep
<1> QED BY <1>2, <1>5, <1>7, <1>8, <1>9

\* A worker takes a connection, leaves or waits.
LEMMA WorkerChecksQueueKeeps ==
    ASSUME IInv, NEW w \in Workers, WorkerChecksQueue(w)
    PROVE  IInv'
<1>1. UNCHANGED <<control, snapshot, accepted, listener, telemetry,
                  accepting_connections, stop_requested, running, published, listening, last_error>>
      /\ worker[w] = "awake"
  BY DEF WorkerChecksQueue, controlVars, sharedVars, listenerVars
<1> USE DEF IInv
<1>2. DOMAIN worker = Workers /\ pending_connections \in Seq(Connections)
      /\ DOMAIN conn = Connections /\ DOMAIN handled = Workers
  BY DEF TypeOK
<1>3. StopOrder'
  BY <1>1 DEF StopOrder, Up, Stopping
<1>u. listener \in Up
  BY <1>1 DEF ListenerShape
<1>4. CASE pending_connections # <<>>
  <2> DEFINE c == Head(pending_connections)
  <2>1. /\ handled' = [handled EXCEPT ![w] = c]
        /\ pending_connections' = Tail(pending_connections)
        /\ conn' = [conn EXCEPT ![c] = "handled"]
        /\ worker' = [worker EXCEPT ![w] = "handling"]
    BY <1>4 DEF WorkerChecksQueue
  <2>2. /\ c \in Connections /\ c = pending_connections[1]
        /\ Len(pending_connections) \in Nat \ {0}
        /\ pending_connections' \in Seq(Connections)
        /\ Len(pending_connections') = Len(pending_connections) - 1
        /\ \A i \in 1 .. Len(pending_connections') :
             pending_connections'[i] = pending_connections[i + 1]
    BY <1>2, <1>4, <2>1
  <2>3. conn[c] \in InQueue
    BY <2>2 DEF Ownership
  <2>4. TelemetryBalances'
    BY <1>1, <2>1, <2>2, <2>3, StaysActive DEF InQueue, Active
  <2>5. TypeOK'
    <3>1. c # NoConnection
      BY <2>2, ReplicationServerAssumption
    <3> QED BY <1>1, <2>1, <2>2, <3>1 DEF TypeOK
  <2>6. NoLostWakeup'
    <3>1. Cardinality(Awake') = Cardinality(Awake) - 1 /\ Cardinality(Awake) \in Nat
      BY <1>1, <1>2, <2>1, OneLessAwake
    <3>2. Asleep' = Asleep
      BY <1>1, <1>2, <2>1 DEF Asleep
    <3> QED BY <1>1, <2>2, <3>1, <3>2 DEF NoLostWakeup, Awake
  <2>7. QueuedBeforeStopIsHandled' /\ AfterWorkers' /\ Drained'
    BY <1>1, <1>2, <2>1, <2>2 DEF QueuedBeforeStopIsHandled, AfterWorkers, Drained
  <2>8. ListenerShape'
    BY <1>1, <1>2, <1>u, <2>1 DEF ListenerShape, Up, Asleep
  <2>9. Ownership'
    <3>1. \A i \in 1 .. Len(pending_connections) : pending_connections[i] \in Connections
      BY <1>2
    <3>2. \A i \in 1 .. Len(pending_connections') :
            i + 1 \in 1 .. Len(pending_connections) /\ pending_connections[i + 1] # c
      BY <2>2 DEF Ownership
    <3>3. \A i \in 1 .. Len(pending_connections') : conn'[pending_connections'[i]] \in InQueue
      BY <1>2, <2>1, <2>2, <3>1, <3>2 DEF Ownership
    <3>4. \A i, j \in 1 .. Len(pending_connections') :
            pending_connections'[i] = pending_connections'[j] => i = j
      BY <2>2, <3>2 DEF Ownership
    <3>5. \A v \in Workers : handled[v] # c
      BY <2>3, <2>2, ReplicationServerAssumption DEF Ownership, InQueue
    <3>6. /\ \A v \in Workers : handled'[v] # NoConnection => conn'[handled'[v]] = "handled"
          /\ \A v, x \in Workers : handled'[v] # NoConnection /\ handled'[v] = handled'[x] => v = x
      BY <1>2, <2>1, <2>2, <3>5 DEF Ownership, TypeOK
    <3>7. ASSUME NEW d \in Connections, conn'[d] = "queued"
          PROVE  \E i \in 1 .. Len(pending_connections') : pending_connections'[i] = d
      <4>1. d # c /\ conn[d] = "queued"
        BY <1>2, <2>1, <2>2, <3>7
      <4>2. PICK i \in 1 .. Len(pending_connections) : pending_connections[i] = d
        BY <4>1 DEF Ownership
      <4>3. i # 1
        BY <2>2, <4>1, <4>2
      <4>4. i - 1 \in 1 .. Len(pending_connections') /\ pending_connections'[i - 1] = d
        BY <2>2, <4>2, <4>3
      <4> QED BY <4>4
    <3>8. accepted' # NoConnection => conn'[accepted'] = "accepted"
      BY <1>1, <1>2, <2>1, <2>2, <2>3 DEF Ownership, InQueue, TypeOK
    <3> QED BY <3>3, <3>4, <3>6, <3>7, <3>8 DEF Ownership
  <2> QED BY <1>3, <2>4, <2>5, <2>6, <2>7, <2>8, <2>9
<1>5. CASE pending_connections = <<>>
  <2> DEFINE s == IF stop_requested \/ ~accepting_connections THEN "exited" ELSE "asleep"
  <2>1. worker' = [worker EXCEPT ![w] = s] /\ UNCHANGED <<handled, pending_connections, conn>>
    BY <1>5 DEF WorkerChecksQueue
  <2>2. TelemetryBalances' /\ QueuedBeforeStopIsHandled' /\ Ownership'
    BY <1>1, <2>1, ConnectionsUntouched
  <2>3. TypeOK'
    BY <1>1, <1>2, <2>1 DEF TypeOK
  <2>4. NoLostWakeup'
    <3>1. Cardinality(Awake') \in Nat
      <4>1. IsFiniteSet(Awake')
        BY ReplicationServerAssumption, FS_Subset DEF Awake
      <4> QED BY <4>1, FS_CardinalityType
    <3>2. Len(pending_connections') = 0
      BY <1>5, <2>1
    <3> QED BY <3>1, <3>2 DEF NoLostWakeup, Awake
  <2>5. s = "exited" => stop_requested
    BY <1>u, <1>1 DEF ListenerShape, StopOrder, Up
  <2>6. \A c \in Connections : conn[c] # "queued"
    BY <1>5 DEF Ownership
  <2>7. AfterWorkers' /\ Drained'
    BY <1>1, <1>2, <2>1, <2>5, <2>6 DEF AfterWorkers, Drained
  <2>8. ListenerShape'
    BY <1>1, <1>2, <1>u, <2>1 DEF ListenerShape, Up, Asleep
  <2> QED BY <1>3, <2>2, <2>3, <2>4, <2>7, <2>8
<1> QED BY <1>4, <1>5

\* A worker is done with its connection and looks at the queue again.
LEMMA WorkerDoneKeeps ==
    ASSUME IInv, NEW w \in Workers, worker[w] = "handling",
           NEW end \in {"completed", "failed", "no_db"}, WorkerDone(w, end),
           UNCHANGED <<control, snapshot, stop_requested, running, published, listening,
                       listener, accepted, accepting_connections, pending_connections>>,
           last_error' \in BOOLEAN,
           telemetry' \in [accepted : Nat, completed : Nat, failed : Nat, active : Nat],
           TelemetryBalances'
    PROVE  IInv'
<1> USE DEF IInv
<1>1. /\ worker' = [worker EXCEPT ![w] = "awake"]
      /\ handled' = [handled EXCEPT ![w] = NoConnection]
      /\ conn' = [conn EXCEPT ![handled[w]] = end]
  BY DEF WorkerDone
<1>2. handled[w] \in Connections /\ conn[handled[w]] = "handled"
  BY DEF TypeOK, Ownership
<1>3. DOMAIN worker = Workers /\ pending_connections \in Seq(Connections)
      /\ DOMAIN conn = Connections /\ DOMAIN handled = Workers
  BY DEF TypeOK
<1>4. TypeOK'
  <2>1. conn' \in [Connections -> {"new", "accepted", "handled"} \union InQueue \union Ends]
    BY <1>1, <1>2 DEF TypeOK, Ends
  <2>2. /\ handled' \in [Workers -> Connections \union {NoConnection}]
        /\ worker' \in [Workers -> {"none", "awake", "asleep", "handling", "exited"}]
        /\ \A v \in Workers : handled'[v] # NoConnection <=> worker'[v] = "handling"
    BY <1>1 DEF TypeOK
  <2> QED BY <2>1, <2>2 DEF TypeOK
<1>5. NoLostWakeup'
  <2>1. Cardinality(Awake') = Cardinality(Awake) + 1 /\ Cardinality(Awake) \in Nat
    BY <1>1, <1>3, OneMoreAwake
  <2>2. Asleep' = Asleep
    BY <1>1, <1>3 DEF Asleep
  <2> QED BY <1>3, <2>1, <2>2 DEF NoLostWakeup, Awake
<1>6. QueuedBeforeStopIsHandled' /\ AfterWorkers' /\ Drained'
  BY <1>1, <1>2, <1>3 DEF QueuedBeforeStopIsHandled, AfterWorkers, Drained
<1>7. ListenerShape' /\ StopOrder'
  BY <1>1, <1>3 DEF ListenerShape, StopOrder, Up, Stopping, Asleep
<1>8. Ownership'
  <2>1. \A i \in 1 .. Len(pending_connections) : pending_connections[i] \in Connections
    BY <1>3
  <2>2. \A i \in 1 .. Len(pending_connections) : pending_connections[i] # handled[w]
    BY <1>2 DEF Ownership, InQueue
  <2>3. \A i \in 1 .. Len(pending_connections) : conn'[pending_connections[i]] \in InQueue
    BY <1>1, <1>3, <2>1, <2>2 DEF Ownership
  <2>4. \A v \in Workers : v # w => handled[v] # handled[w]
    BY <1>2, ReplicationServerAssumption DEF Ownership
  <2>5. /\ \A v \in Workers : handled'[v] # NoConnection => conn'[handled'[v]] = "handled"
        /\ \A v, x \in Workers : handled'[v] # NoConnection /\ handled'[v] = handled'[x] => v = x
    BY <1>1, <1>2, <1>3, <2>4 DEF Ownership, TypeOK
  <2>6. accepted # NoConnection => conn'[accepted] = "accepted"
    BY <1>1, <1>2, <1>3 DEF Ownership, TypeOK
  <2>7. \A c \in Connections :
          conn'[c] = "queued" => \E i \in 1 .. Len(pending_connections) : pending_connections[i] = c
    BY <1>1, <1>2, <1>3 DEF Ownership
  <2> QED BY <2>3, <2>5, <2>6, <2>7 DEF Ownership
<1> QED BY <1>4, <1>5, <1>6, <1>7, <1>8

\* The two ways a handler ends: with counters, or without a database handle.
LEMMA WorkerHandlesKeeps ==
    ASSUME IInv, NEW w \in Workers, WorkerHandlesAny(w)
    PROVE  IInv'
<1>1. worker[w] = "handling"
  BY DEF WorkerHandlesAny, WorkerHasNoDb, WorkerHandles
<1>2. handled[w] \in Connections /\ conn[handled[w]] = "handled"
  BY <1>1 DEF IInv, TypeOK, Ownership
<1>3. TypeOK /\ TelemetryBalances /\ telemetry \in Telemetry
  BY DEF IInv, TypeOK, Telemetry
<1>4. CASE WorkerHasNoDb(w)
  <2>1. WorkerDone(w, "no_db") /\ last_error' = TRUE
        /\ UNCHANGED <<control, snapshot, stop_requested, running, published, listening, telemetry,
                       listener, accepted, accepting_connections, pending_connections>>
    BY <1>4 DEF WorkerHasNoDb, controlVars, listenerVars
  <2>2. TelemetryBalances'
    BY <1>2, <1>3, <2>1, StaysActive DEF WorkerDone, Active
  <2>3. telemetry' \in [accepted : Nat, completed : Nat, failed : Nat, active : Nat]
    BY <1>3, <2>1 DEF Telemetry
  <2> QED BY <1>1, <2>1, <2>2, <2>3, WorkerDoneKeeps
<1>5. ASSUME NEW ok \in BOOLEAN, WorkerHandles(w, ok)
      PROVE  IInv'
  <2> DEFINE end == IF ok THEN "completed" ELSE "failed"
             m == IF ok THEN 1 ELSE 0
             n == IF ok THEN 0 ELSE 1
  <2>1. /\ WorkerDone(w, end) /\ end \in {"completed", "failed", "no_db"}
        /\ last_error' = (last_error \/ ~ok)
        /\ UNCHANGED <<control, snapshot, stop_requested, running, published, listening,
                       listener, accepted, accepting_connections, pending_connections>>
        /\ telemetry' = [telemetry EXCEPT !.completed = @ + m, !.failed = @ + n,
                                          !.active = IF @ > 0 THEN @ - 1 ELSE @]
    BY <1>5 DEF WorkerHandles, controlVars, listenerVars
  <2>2. TelemetryBalances'
    <3>1. conn' = [conn EXCEPT ![handled[w]] = end]
      BY <2>1 DEF WorkerDone
    <3>2. conn[handled[w]] \in Active
      BY <1>2 DEF Active
    <3> QED BY <1>2, <1>3, <2>1, <3>1, <3>2, EndsBalanced
  <2>3. telemetry' \in Telemetry
    <3>1. m \in Nat /\ n \in Nat
      OBVIOUS
    <3> HIDE DEF m, n
    <3> QED BY <1>3, <2>1, <3>1, CountersType
  <2>4. last_error' \in BOOLEAN
    BY <2>1
  <2> QED BY <1>1, <2>1, <2>2, <2>3, <2>4, WorkerDoneKeeps DEF Telemetry
<1> QED BY <1>4, <1>5 DEF WorkerHandlesAny

-----------------------------------------------------------------------------
(* The theorems *)

\* Every step of the three kinds of threads keeps the inductive invariant.
LEMMA NextKeeps == IInv /\ [Next]_vars => IInv'
<1> SUFFICES ASSUME IInv, [Next]_vars PROVE IInv'
  OBVIOUS
<1>1. CASE Start
  BY <1>1, StartKeeps
<1>2. CASE StartStep \/ Stop \/ StopStep
  BY <1>2, ControlKeeps
<1>3. CASE ListenerRuns
  BY <1>3, ListenerMovesKeep, ListenerPoolKeeps, ListenerQueuesKeeps, WakingKeeps,
     ListenerEndsKeeps DEF ListenerRuns
<1>4. CASE ListenerAcceptFails
  BY <1>4, ListenerMovesKeep
<1>5. ASSUME NEW c \in Connections, ListenerAccepts(c)
      PROVE  IInv'
  BY <1>5, ListenerAcceptsKeeps
<1>6. ASSUME NEW w \in Workers, WorkerWakes(w) \/ WorkerChecksQueue(w) \/ WorkerHandlesAny(w)
      PROVE  IInv'
  BY <1>6, WakingKeeps, WorkerChecksQueueKeeps, WorkerHandlesKeeps
<1>7. CASE UNCHANGED vars
  <2> USE <1>7 DEF vars, controlVars, sharedVars, listenerVars, workerVars, IInv
  <2>1. TelemetryBalances' /\ QueuedBeforeStopIsHandled' /\ Ownership'
    BY ConnectionsUntouched
  <2>2. TypeOK'
    BY DEF TypeOK
  <2>3. NoLostWakeup' /\ Drained' /\ AfterWorkers'
    BY DEF NoLostWakeup, Drained, AfterWorkers, Asleep
  <2>4. ListenerShape' /\ StopOrder'
    BY DEF ListenerShape, StopOrder, Asleep
  <2> QED BY <2>1, <2>2, <2>3, <2>4
<1> QED BY <1>1, <1>2, <1>3, <1>4, <1>5, <1>6, <1>7 DEF Next

\* The inductive invariant says more than the safety properties.
LEMMA InvIsSafe == IInv => ListenerSafety /\ QueuedBeforeStopIsHandled
<1> SUFFICES ASSUME IInv PROVE FullyUpOrFullyDown
  BY DEF IInv, ListenerSafety
<1> QED BY DEF IInv, FullyUpOrFullyDown, ListenerShape, StopOrder, TypeOK, Up

\* For any number of workers, connections and any bound of the queue, and
\* whichever workers have no database handle: the counters balance, no wakeup
\* is lost, and between two calls the server is up or down as a whole.
THEOREM ListenerIsSafe == Spec => []ListenerSafety
<1>1. Spec => []IInv
  BY InitHolds, NextKeeps, PTL DEF Spec
<1> QED BY <1>1, InvIsSafe, PTL

\* stop() never abandons a connection that was queued before it was called.
THEOREM StopDrainsTheQueue == Spec => []QueuedBeforeStopIsHandled
<1>1. Spec => []IInv
  BY InitHolds, NextKeeps, PTL DEF Spec
<1> QED BY <1>1, InvIsSafe, PTL

\* However the listener and the workers interleave, a socket has one owner: the
\* listener, one place of the queue or one worker, never two workers.
THEOREM ConnectionsHaveOneOwner == Spec => []Ownership
<1>1. IInv => Ownership
  BY DEF IInv
<1>2. Spec => []IInv
  BY InitHolds, NextKeeps, PTL DEF Spec
<1> QED BY <1>1, <1>2, PTL

\* What became of a connection is decided once, until the next start() forgets.
EndsAreFinal ==
    [][\A c \in Connections : conn[c] \in Ends => conn'[c] = conn[c] \/ Start]_vars

\* No connection is handled again, counted again or given back to the queue once
\* it was completed, refused or closed.
THEOREM ConnectionsEndOnce == Spec => EndsAreFinal
<1>1. ASSUME IInv, [Next]_vars, NEW c \in Connections, conn[c] \in Ends, ~Start
      PROVE  conn'[c] = conn[c]
  <2> USE <1>1 DEF IInv, TypeOK, Ends
  <2>1. ASSUME NEW d \in Connections, ListenerAccepts(d)
        PROVE  conn'[c] = conn[c]
    BY <2>1 DEF ListenerAccepts
  <2>2. CASE ListenerQueues
    <3>1. accepted # c /\ conn' = [conn EXCEPT ![accepted] = conn'[accepted]]
      BY <2>2 DEF ListenerQueues, ListenerStep, Ownership
    <3> QED BY <3>1
  <2>3. CASE ListenerEnds
    BY <2>3 DEF ListenerEnds
  <2>4. ASSUME NEW w \in Workers, WorkerChecksQueue(w)
        PROVE  conn'[c] = conn[c]
    <3>1. CASE pending_connections # <<>>
      <4>1. Head(pending_connections) = pending_connections[1] /\ 1 \in 1 .. Len(pending_connections)
        BY <3>1
      <4>2. Head(pending_connections) # c
        BY <4>1 DEF Ownership, InQueue
      <4> QED BY <2>4, <3>1, <4>2 DEF WorkerChecksQueue
    <3>2. CASE pending_connections = <<>>
      BY <2>4, <3>2 DEF WorkerChecksQueue
    <3> QED BY <3>1, <3>2
  <2>5. ASSUME NEW w \in Workers, WorkerHandlesAny(w)
        PROVE  conn'[c] = conn[c]
    <3>1. handled[w] # NoConnection
      BY <2>5 DEF WorkerHandlesAny, WorkerHasNoDb, WorkerHandles
    <3>2. handled[w] # c
      BY <3>1 DEF Ownership
    <3> QED BY <2>5, <3>2 DEF WorkerHandlesAny, WorkerHasNoDb, WorkerHandles, WorkerDone
  <2>6. CASE UNCHANGED conn
    BY <2>6
  <2> QED BY <2>1, <2>2, <2>3, <2>4, <2>5, <2>6
          DEF Next, StartStep, StartSpawns, PollRunning, PollError, Stop, StopStep, StopSetsFlag,
              StopTakesSnapshot, StopClosesAcceptor, StopJoinsListener, StopReturns, ListenerRuns,
              ListenerOpens, ListenerPublishes, ListenerSpawnsWorkers, ListenerChecksStop,
              ListenerNotifies, ListenerCloses, ListenerJoinsWorkers, ListenerAcceptFails,
              WorkerWakes, vars
<1>2. Spec => []IInv
  BY InitHolds, NextKeeps, PTL DEF Spec
<1>3. ASSUME IInv, [Next]_vars
      PROVE  \A c \in Connections : conn[c] \in Ends => conn'[c] = conn[c] \/ Start
  BY <1>1, <1>3
<1> QED BY <1>2, <1>3, PTL DEF Spec, EndsAreFinal

-----------------------------------------------------------------------------
(* The frames of one connection *)

\* A nonempty set of natural numbers has a least element.
LEMMA LeastNumber ==
    ASSUME NEW T, T \subseteq Nat, T # {}
    PROVE  \E x \in T : \A y \in T : x <= y
<1>1. IsWellFoundedOn(OpToRel(<,Nat), Nat)
  BY NatLessThanWellFounded
<1>2. PICK x \in T : \A y \in T : ~ (<<y, x>> \in OpToRel(<,Nat))
  BY <1>1, WFMin
<1>3. \A y \in T : ~ (y < x)
  BY <1>2 DEF OpToRel
<1> QED BY <1>3

\* f sums up the frames of z up to the n-th.
IsTotal(f, z, n) == f = [k \in 0..n |-> IF k = 0 THEN 0 ELSE f[k - 1] + kHeaderSize + z[k]]

HasTotal(z, n) == \E f \in [0..n -> Nat] : IsTotal(f, z, n)

\* What such a sum is at each frame.
LEMMA TotalAt ==
    ASSUME NEW z, NEW n \in Nat, NEW f, IsTotal(f, z, n)
    PROVE  f[0] = 0 /\ \A k \in 1..n : f[k] = f[k - 1] + kHeaderSize + z[k]
  BY DEF IsTotal

\* There is one.
LEMMA TotalExists ==
    ASSUME NEW z \in Seq(Nat), NEW m \in 0..Len(z)
    PROVE  HasTotal(z, m)
<1>0. kHeaderSize \in Nat
  BY RpcAssumption
<1> DEFINE Bad == {n \in 0..Len(z) : ~HasTotal(z, n)}
<1> SUFFICES ASSUME m \in Bad PROVE FALSE
  OBVIOUS
<1>1. PICK n \in Bad : \A k \in Bad : n <= k
  <2>1. Bad \subseteq Nat /\ Bad # {}
    OBVIOUS
  <2> HIDE DEF Bad
  <2> QED BY <2>1, LeastNumber
<1>2. n # 0
  <2>1. ASSUME NEW f, f = [k \in 0..0 |-> 0] PROVE f \in [0..0 -> Nat] /\ IsTotal(f, z, 0)
    <3>1. \A k \in 0..0 : k = 0
      OBVIOUS
    <3>2. [k \in 0..0 |-> IF k = 0 THEN 0 ELSE f[k - 1] + kHeaderSize + z[k]] = [k \in 0..0 |-> 0]
      BY <3>1
    <3> QED BY <2>1, <3>2 DEF IsTotal
  <2>2. HasTotal(z, 0)
    BY <2>1 DEF HasTotal
  <2> QED BY <2>2
<1>3. n - 1 \in 0..Len(z) /\ n - 1 \notin Bad /\ n \in 1..Len(z)
  BY <1>1, <1>2
<1>4. PICK f \in [0..(n - 1) -> Nat] : IsTotal(f, z, n - 1)
  BY <1>3 DEF HasTotal
<1>5. f[0] = 0 /\ \A k \in 1..(n - 1) : f[k] = f[k - 1] + kHeaderSize + z[k]
  <2>1. n - 1 \in Nat
    BY <1>3
  <2> HIDE DEF Bad
  <2> QED BY <1>4, <2>1, TotalAt
<1>6. PICK g : g = [k \in 0..n |-> IF k = n THEN f[n - 1] + kHeaderSize + z[n] ELSE f[k]]
  OBVIOUS
<1>7. g \in [0..n -> Nat]
  <2>1. z[n] \in Nat /\ kHeaderSize \in Nat /\ f[n - 1] \in Nat
    BY <1>0, <1>3
  <2>2. \A k \in 0..n : k = n \/ k \in 0..(n - 1)
    BY <1>3
  <2> QED BY <1>3, <1>6, <2>1, <2>2
<1>8. \A k \in 0..n : g[k] = IF k = 0 THEN 0 ELSE g[k - 1] + kHeaderSize + z[k]
  <2>1. g[0] = 0 /\ g[n] = g[n - 1] + kHeaderSize + z[n]
    BY <1>0, <1>3, <1>5, <1>6
  <2>2. ASSUME NEW k \in 1..(n - 1) PROVE g[k] = g[k - 1] + kHeaderSize + z[k]
    BY <1>0, <1>3, <1>5, <1>6
  <2>3. \A k \in 0..n : k = 0 \/ k = n \/ k \in 1..(n - 1)
    BY <1>3
  <2> QED BY <1>3, <2>1, <2>2, <2>3
<1>9. IsTotal(g, z, n)
  <2>1. g = [k \in 0..n |-> g[k]]
    BY <1>7
  <2> QED BY <1>8, <2>1 DEF IsTotal
<1>10. HasTotal(z, n)
  BY <1>7, <1>9 DEF HasTotal
<1> QED BY <1>10

\* The bytes of a frame more.
LEMMA TotalRule ==
    ASSUME NEW z \in Seq(Nat)
    PROVE  /\ TotalBytes(z, 0) = 0
           /\ \A k \in 0..Len(z) : TotalBytes(z, k) \in Nat
           /\ \A k \in 1..Len(z) : TotalBytes(z, k) = TotalBytes(z, k - 1) + kHeaderSize + z[k]
<1> DEFINE total == CHOOSE f : IsTotal(f, z, Len(z))
<1>1. IsTotal(total, z, Len(z))
  <2>1. Len(z) \in 0..Len(z)
    OBVIOUS
  <2>2. \E f : IsTotal(f, z, Len(z))
    BY <2>1, TotalExists DEF HasTotal
  <2> QED BY <2>2
<1>2. \A k : TotalBytes(z, k) = total[k]
  BY DEF TotalBytes, IsTotal
<1> HIDE DEF total
<1>3. total[0] = 0 /\ \A k \in 1..Len(z) : total[k] = total[k - 1] + kHeaderSize + z[k]
  BY <1>1, TotalAt
<1> DEFINE Bad == {k \in 0..Len(z) : total[k] \notin Nat}
<1>4. Bad = {}
  <2> SUFFICES ASSUME Bad # {} PROVE FALSE
    OBVIOUS
  <2>1. PICK n \in Bad : \A k \in Bad : n <= k
    <3>1. Bad \subseteq Nat
      OBVIOUS
    <3> HIDE DEF Bad
    <3> QED BY <3>1, LeastNumber
  <2>2. n # 0
    BY <1>3
  <2>3. n \in 1..Len(z) /\ n - 1 \in 0..Len(z) /\ n - 1 \notin Bad
    BY <2>1, <2>2
  <2>4. total[n - 1] \in Nat /\ z[n] \in Nat
    BY <2>3
  <2>5. kHeaderSize \in Nat
    BY RpcAssumption
  <2> QED BY <1>3, <2>3, <2>4, <2>5
<1> QED BY <1>2, <1>3, <1>4

\* The room left in the queue, for a frame within its budget and for any.
LEMMA RoomIs ==
    ASSUME NEW size \in Nat, 2 * (kHeaderSize + size) < SizeModulus, NEW queued \in Int
    PROVE  /\ RoomFor(size, 0)
           /\ size <= MaxQueuedPayload => (RoomFor(size, queued) <=> queued + size <= MaxQueuedPayload)
<1>1. kHeaderSize \in Nat /\ MaxQueuedPayload \in Nat
  BY RpcAssumption
<1>2. 2 * (kHeaderSize + MaxQueuedPayload) < SizeModulus
  BY RpcAssumption
<1>3. SizeModulus \in Nat /\ SizeModulus > 0
  BY <1>1, <1>2, RpcAssumption
<1> QED BY <1>1, <1>2, <1>3 DEF RoomFor

\* The payload of the frames after the p-th up to the d-th.
Payload(z, d, p) == TotalBytes(z, d) - TotalBytes(z, p) - kHeaderSize * (d - p)

\* The header bytes of one frame more or less.
LEMMA HeadersOf ==
    ASSUME NEW n \in Int
    PROVE  /\ kHeaderSize * n \in Int /\ kHeaderSize * 0 = 0
           /\ kHeaderSize * (n + 1) = kHeaderSize * n + kHeaderSize
           /\ kHeaderSize * (n - 1) = kHeaderSize * n - kHeaderSize
<1>1. kHeaderSize \in Nat
  BY RpcAssumption
<1> QED BY <1>1

\* Decoding a frame adds its payload to what is queued, popping one takes it.
LEMMA PayloadRule ==
    ASSUME NEW z \in Seq(Nat), NEW d \in 0..Len(z), NEW p \in 0..Len(z)
    PROVE  /\ Payload(z, d, d) = 0 /\ Payload(z, d, p) \in Int
           /\ d < Len(z) => Payload(z, d + 1, p) = Payload(z, d, p) + z[d + 1]
           /\ p < Len(z) => Payload(z, d, p + 1) = Payload(z, d, p) - z[p + 1]
<1>1. kHeaderSize \in Nat /\ d - p \in Int /\ d \in Nat /\ p \in Nat /\ Len(z) \in Nat
  BY RpcAssumption
<1>2. TotalBytes(z, d) \in Nat /\ TotalBytes(z, p) \in Nat
  BY TotalRule
<1>3. PICK h \in Int : h = kHeaderSize * (d - p)
  BY <1>1, HeadersOf
<1>4. Payload(z, d, d) = 0 /\ Payload(z, d, p) \in Int /\ Payload(z, d, p) = TotalBytes(z, d) - TotalBytes(z, p) - h
  <2>1. d - d = 0 /\ kHeaderSize * 0 = 0
    BY <1>1, HeadersOf
  <2> QED BY <1>2, <1>3, <2>1 DEF Payload
<1>5. ASSUME d < Len(z) PROVE Payload(z, d + 1, p) = Payload(z, d, p) + z[d + 1]
  <2>1. d + 1 \in 1..Len(z) /\ (d + 1) - 1 = d /\ (d + 1) - p = (d - p) + 1 /\ z[d + 1] \in Nat
    BY <1>1, <1>5
  <2>2. kHeaderSize * ((d + 1) - p) = h + kHeaderSize
    BY <1>1, <1>3, <2>1, HeadersOf
  <2>3. TotalBytes(z, d + 1) = TotalBytes(z, d) + kHeaderSize + z[d + 1]
    BY <2>1, TotalRule
  <2>4. Payload(z, d + 1, p) = TotalBytes(z, d + 1) - TotalBytes(z, p) - (h + kHeaderSize)
    BY <2>2 DEF Payload
  <2>5. PICK t \in Nat, u \in Nat, y \in Nat : t = TotalBytes(z, d) /\ u = TotalBytes(z, p) /\ y = z[d + 1]
    BY <1>2, <2>1
  <2>6. (t + kHeaderSize + y) - u - (h + kHeaderSize) = (t - u - h) + y
    BY <1>1
  <2> QED BY <1>4, <2>3, <2>4, <2>5, <2>6
<1>6. ASSUME p < Len(z) PROVE Payload(z, d, p + 1) = Payload(z, d, p) - z[p + 1]
  <2>1. p + 1 \in 1..Len(z) /\ (p + 1) - 1 = p /\ d - (p + 1) = (d - p) - 1 /\ z[p + 1] \in Nat
    BY <1>1, <1>6
  <2>2. kHeaderSize * (d - (p + 1)) = h - kHeaderSize
    BY <1>1, <1>3, <2>1, HeadersOf
  <2>3. TotalBytes(z, p + 1) = TotalBytes(z, p) + kHeaderSize + z[p + 1]
    BY <2>1, TotalRule
  <2>4. Payload(z, d, p + 1) = TotalBytes(z, d) - TotalBytes(z, p + 1) - (h - kHeaderSize)
    BY <2>2 DEF Payload
  <2>5. PICK t \in Nat, u \in Nat, y \in Nat : t = TotalBytes(z, d) /\ u = TotalBytes(z, p) /\ y = z[p + 1]
    BY <1>2, <2>1
  <2>6. t - (u + kHeaderSize + y) - (h - kHeaderSize) = (t - u - h) - y
    BY <1>1
  <2> QED BY <1>4, <2>3, <2>4, <2>5, <2>6
<1> QED BY <1>4, <1>5, <1>6

\* What the drain returns.
LEMMA Drains ==
    ASSUME wire \in Seq(Nat), NEW d \in 0..Len(wire), NEW p \in Nat, NEW got \in Nat,
           got <= TotalBytes(wire, Len(wire))
    PROVE  \E e \in d..Len(wire) :
             /\ Stops(e, p, got) /\ \A k \in d..(e - 1) : ~Stops(k, p, got)
             /\ DrainDecodedFrames(d, p, got).decoded = e
             /\ DrainDecodedFrames(d, p, got).ok = (e - p >= MaxQueuedFrames \/ ~Refuses(e, got))
<1> DEFINE S == {k \in d..Len(wire) : Stops(k, p, got)}
           AtStop(e) == Stops(e, p, got) /\ \A k \in d..(e - 1) : ~Stops(k, p, got)
           e0 == CHOOSE e \in d..Len(wire) : AtStop(e)
<1>1. kHeaderSize \in Nat \ {0} /\ Len(wire) \in Nat
  BY RpcAssumption
<1>2. Len(wire) \in S
  <2>1. TotalBytes(wire, Len(wire)) \in Nat
    BY <1>1, TotalRule
  <2>2. got - TotalBytes(wire, Len(wire)) < kHeaderSize
    BY <1>1, <2>1
  <2>3. Stops(Len(wire), p, got)
    BY <2>2 DEF Stops
  <2> QED BY <1>1, <2>3
<1>3. PICK e \in S : \A k \in S : e <= k
  <2>1. S \subseteq Nat
    OBVIOUS
  <2> HIDE DEF S
  <2> QED BY <1>2, <2>1, LeastNumber
<1>4. e \in d..Len(wire) /\ AtStop(e)
  BY <1>3
<1>5. e0 \in d..Len(wire) /\ AtStop(e0)
  <2> HIDE DEF AtStop
  <2> QED BY <1>4
<1>6. DrainDecodedFrames(d, p, got) =
        [decoded |-> e0, ok |-> e0 - p >= MaxQueuedFrames \/ ~Refuses(e0, got)]
  BY DEF DrainDecodedFrames
<1> HIDE DEF e0
<1>7. DrainDecodedFrames(d, p, got).decoded = e0
  BY <1>6
<1>8. DrainDecodedFrames(d, p, got).ok = (e0 - p >= MaxQueuedFrames \/ ~Refuses(e0, got))
  BY <1>6
<1> QED BY <1>5, <1>7, <1>8

\* Payload sizes are numbers.
LEMMA SizesAreNumbers ==
    ASSUME NEW z \in Seq(PayloadSizes)
    PROVE  z \in Seq(Nat)
<1>1. PICK n \in Nat : z \in [1..n -> PayloadSizes]
  BY SeqDef
<1>2. PayloadSizes \subseteq Nat
  BY RpcAssumption
<1>3. z \in [1..n -> Nat]
  BY <1>1, <1>2
<1> QED BY <1>3, SeqDef

\* The frames a peer sends, in the bounds of the model.
LEMMA BoundedSizes ==
    ASSUME NEW z \in BoundedSeq(PayloadSizes, MaxFrames)
    PROVE  z \in Seq(PayloadSizes) /\ Len(z) <= MaxFrames
<1>1. PICK n \in 0..MaxFrames : z \in [1..n -> PayloadSizes]
  BY DEF BoundedSeq, SeqOf
<1>2. n \in Nat /\ n <= MaxFrames
  BY <1>1, RpcAssumption
<1>3. z \in Seq(PayloadSizes)
  BY <1>1, <1>2, SeqDef
<1>4. Len(z) = n
  BY <1>1, <1>2, <1>3
<1> QED BY <1>2, <1>3, <1>4

\* Where the drain stops: nothing is decoded that was not read, the limits of the
\* queue hold, with an empty queue no whole frame is left that it does not
\* refuse, and what it refuses is a frame that is not admissible.
LEMMA DrainStops ==
    ASSUME wire \in Seq(PayloadSizes), NEW d \in 0..Len(wire), NEW p \in 0..d, NEW got \in Nat,
           TotalBytes(wire, d) <= got, got <= TotalBytes(wire, Len(wire)), d - p <= MaxQueuedFrames,
           NEW e \in d..Len(wire), Stops(e, p, got), \A k \in d..(e - 1) : ~Stops(k, p, got)
    PROVE  /\ TotalBytes(wire, e) <= got /\ e - p <= MaxQueuedFrames
           /\ (/\ \A i \in DOMAIN wire : wire[i] <= MaxQueuedPayload
               /\ Payload(wire, d, p) <= MaxQueuedPayload) => Payload(wire, e, p) <= MaxQueuedPayload
           /\ (e = p /\ e < Len(wire) /\ Admissible(wire[e + 1])) =>
                 got - TotalBytes(wire, e) < kHeaderSize + wire[e + 1]
           /\ Refuses(e, got) => e < Len(wire) /\ ~Admissible(wire[e + 1])
<1>1. /\ kHeaderSize \in Nat \ {0} /\ MaxQueuedFrames \in Nat \ {0} /\ MaxQueuedPayload \in Nat
      /\ MaxFramePayload \in Nat /\ MaxBufferedBytes \in Nat
  BY RpcAssumption
<1>2. wire \in Seq(Nat) /\ Len(wire) \in Nat /\ d \in Nat /\ p \in Nat /\ e \in Nat /\ p \in 0..Len(wire)
      /\ e \in 0..Len(wire)
  <2>1. wire \in Seq(Nat)
    BY SizesAreNumbers
  <2> QED BY <2>1
<1>3. \A k \in 1..Len(wire) : wire[k] \in Nat /\ wire[k] \in PayloadSizes /\ 2 * (kHeaderSize + wire[k]) < SizeModulus
  <2>1. \A k \in 1..Len(wire) : wire[k] \in PayloadSizes
    OBVIOUS
  <2>2. \A n \in PayloadSizes : n \in Nat /\ 2 * (kHeaderSize + n) < SizeModulus
    BY RpcAssumption
  <2> QED BY <2>1, <2>2
<1>4. \A k \in 0..Len(wire) : TotalBytes(wire, k) \in Nat
  BY <1>2, TotalRule
<1>5. ASSUME e = d
      PROVE  /\ TotalBytes(wire, e) <= got /\ e - p <= MaxQueuedFrames
             /\ Payload(wire, d, p) <= MaxQueuedPayload => Payload(wire, e, p) <= MaxQueuedPayload
  BY <1>5
<1>6. ASSUME e # d
      PROVE  /\ TotalBytes(wire, e) <= got /\ e - p <= MaxQueuedFrames
             /\ (\A i \in DOMAIN wire : wire[i] <= MaxQueuedPayload) => Payload(wire, e, p) <= MaxQueuedPayload
  <2>1. PICK k \in d..(e - 1) : k = e - 1
    BY <1>2, <1>6
  <2>2. e = k + 1 /\ k \in Nat /\ k \in 0..Len(wire) /\ e \in 1..Len(wire) /\ k < Len(wire)
    BY <1>2, <2>1
  <2>3. ~Stops(k, p, got)
    OBVIOUS
  <2>4. /\ k - p < MaxQueuedFrames /\ got - TotalBytes(wire, k) >= kHeaderSize + wire[k + 1]
        /\ RoomFor(wire[k + 1], Payload(wire, k, p))
    <3>1. wire[k + 1] \in Nat /\ TotalBytes(wire, k) \in Nat
      BY <1>3, <1>4, <2>2
    <3> QED BY <1>1, <1>2, <2>2, <2>3, <3>1 DEF Stops, Payload
  <2>5. TotalBytes(wire, e) = TotalBytes(wire, k) + kHeaderSize + wire[e]
    BY <1>2, <2>1, <2>2, TotalRule
  <2>6. TotalBytes(wire, e) <= got
    BY <1>1, <1>3, <1>4, <2>2, <2>4, <2>5
  <2>7. e - p <= MaxQueuedFrames
    BY <1>1, <1>2, <2>2, <2>4
  <2>8. ASSUME \A i \in DOMAIN wire : wire[i] <= MaxQueuedPayload PROVE Payload(wire, e, p) <= MaxQueuedPayload
    <3>1. wire[e] <= MaxQueuedPayload /\ wire[e] \in Nat /\ 2 * (kHeaderSize + wire[e]) < SizeModulus
      BY <1>3, <2>2, <2>8
    <3>2. Payload(wire, k, p) \in Int /\ Payload(wire, e, p) = Payload(wire, k, p) + wire[e]
      BY <1>2, <2>2, PayloadRule
    <3>3. Payload(wire, k, p) + wire[e] <= MaxQueuedPayload
      BY <2>2, <2>4, <3>1, <3>2, RoomIs
    <3> QED BY <3>2, <3>3
  <2> QED BY <2>6, <2>7, <2>8
<1>7. ASSUME e = p, e < Len(wire), Admissible(wire[e + 1])
      PROVE  got - TotalBytes(wire, e) < kHeaderSize + wire[e + 1]
  <2>1. e + 1 \in 1..Len(wire) /\ wire[e + 1] \in Nat /\ 2 * (kHeaderSize + wire[e + 1]) < SizeModulus
    BY <1>2, <1>3, <1>7
  <2>2. Payload(wire, e, e) = 0 /\ ~(e - e >= MaxQueuedFrames) /\ ~Refuses(e, got)
    <3>1. Payload(wire, e, e) = 0
      BY <1>2, PayloadRule
    <3>2. ~(e - e >= MaxQueuedFrames)
      BY <1>1, <1>2
    <3>3. ~Refuses(e, got)
      BY <1>1, <1>7, <2>1 DEF Refuses, Admissible
    <3> QED BY <3>1, <3>2, <3>3
  <2>3. RoomFor(wire[e + 1], Payload(wire, e, e))
    BY <2>1, <2>2, RoomIs
  <2>4. \/ got - TotalBytes(wire, e) < kHeaderSize
        \/ got - TotalBytes(wire, e) < kHeaderSize + wire[e + 1]
    BY <1>7, <2>2, <2>3 DEF Stops, Payload
  <2>5. PICK t \in Nat, y \in Nat : t = TotalBytes(wire, e) /\ y = wire[e + 1]
    BY <1>2, <1>4, <2>1
  <2>6. got - t < kHeaderSize => got - t < kHeaderSize + y
    BY <1>1
  <2> QED BY <2>4, <2>5, <2>6
<1>8. ASSUME Refuses(e, got) PROVE e < Len(wire) /\ ~Admissible(wire[e + 1])
  <2>1. got - TotalBytes(wire, e) >= kHeaderSize /\ TotalBytes(wire, e) \in Nat
    BY <1>2, <1>4, <1>8 DEF Refuses
  <2>2. e # Len(wire)
    BY <1>1, <1>4, <2>1
  <2>3. e + 1 \in 1..Len(wire) /\ wire[e + 1] \in Nat
    BY <1>2, <1>3, <2>2
  <2> QED BY <1>1, <1>2, <1>8, <2>2, <2>3 DEF Refuses, Admissible
<1> QED BY <1>5, <1>6, <1>7, <1>8

\* The frames' safety, with the bytes read.
RpcInv ==
    /\ RpcSafety
    /\ rpcRead \in Nat /\ rpcRead <= TotalBytes(wire, Len(wire))

\* A fresh connection has read nothing and satisfies the invariant.
LEMMA RpcStarts ==
    ASSUME RpcInit PROVE RpcInv
<1>1. wire \in Seq(PayloadSizes) /\ Len(wire) <= MaxFrames
  BY BoundedSizes DEF RpcInit
<1>2. wire \in Seq(Nat) /\ Len(wire) \in Nat /\ Len(wire) \in 0..Len(wire)
  <2>1. wire \in Seq(Nat)
    BY <1>1, SizesAreNumbers
  <2> QED BY <2>1
<1>3. TotalBytes(wire, 0) = 0 /\ TotalBytes(wire, Len(wire)) \in Nat
  BY <1>2, TotalRule
<1>4. kHeaderSize \in Nat \ {0} /\ MaxQueuedFrames \in Nat /\ MaxQueuedPayload \in Nat
  BY RpcAssumption
<1>5. rpcRead = 0 /\ decoded = 0 /\ popped = 0 /\ rpcError = FALSE
  BY DEF RpcInit
<1>6. RpcTypeOK /\ GoodPeerIsNotCutOff
  <2>1. rpcError \in BOOLEAN
    BY <1>5
  <2>2. popped \in 0..decoded /\ decoded \in 0..Len(wire) /\ TotalBytes(wire, decoded) <= rpcRead
    BY <1>2, <1>3, <1>5
  <2>3. ~rpcError
    BY <1>5
  <2> QED BY <1>1, <2>1, <2>2, <2>3 DEF RpcTypeOK, GoodPeerIsNotCutOff
<1>7. NoFrameWaitsForMore
  <2> SUFFICES ASSUME decoded < Len(wire) PROVE Buffered < kHeaderSize + wire[decoded + 1]
    BY DEF NoFrameWaitsForMore
  <2>1. wire[decoded + 1] \in Nat
    BY <1>2, <1>5
  <2> QED BY <1>3, <1>4, <1>5, <2>1 DEF Buffered
<1>8. QueueWithinLimits
  <2>1. QueuedPayload = Payload(wire, decoded, popped)
    BY DEF QueuedPayload, Payload
  <2>2. QueuedPayload = 0
    BY <1>2, <1>5, <2>1, PayloadRule
  <2> QED BY <1>4, <1>5, <2>2 DEF QueueWithinLimits
<1> QED BY <1>2, <1>3, <1>5, <1>6, <1>7, <1>8 DEF RpcInv, RpcSafety

\* What the drain leaves, for a queue that holds the frames from p on.
Left(d, p, got, e) ==
    /\ p \in 0..e /\ e \in d..Len(wire)
    /\ TotalBytes(wire, e) <= got /\ e - p <= MaxQueuedFrames
    /\ (/\ \A i \in DOMAIN wire : wire[i] <= MaxQueuedPayload
        /\ Payload(wire, d, p) <= MaxQueuedPayload) => Payload(wire, e, p) <= MaxQueuedPayload
    /\ (e = p /\ e < Len(wire) /\ Admissible(wire[e + 1])) =>
          got - TotalBytes(wire, e) < kHeaderSize + wire[e + 1]
    /\ Refuses(e, got) => e < Len(wire) /\ ~Admissible(wire[e + 1])

\* The drain stops at a frame that Left describes, and reports an error exactly
\* when the buffer holds a frame it refuses and the queue has room for one.
LEMMA DrainLeaves ==
    ASSUME wire \in Seq(PayloadSizes), NEW d \in 0..Len(wire), NEW p \in 0..d, NEW got \in Nat,
           TotalBytes(wire, d) <= got, got <= TotalBytes(wire, Len(wire)), d - p <= MaxQueuedFrames
    PROVE  \E e : /\ Left(d, p, got, e)
                 /\ DrainDecodedFrames(d, p, got).decoded = e
                 /\ DrainDecodedFrames(d, p, got).ok = (e - p >= MaxQueuedFrames \/ ~Refuses(e, got))
<1>1. wire \in Seq(Nat) /\ p \in Nat
  BY SizesAreNumbers
<1>2. PICK e \in d..Len(wire) :
        /\ Stops(e, p, got) /\ \A k \in d..(e - 1) : ~Stops(k, p, got)
        /\ DrainDecodedFrames(d, p, got).decoded = e
        /\ DrainDecodedFrames(d, p, got).ok = (e - p >= MaxQueuedFrames \/ ~Refuses(e, got))
  BY <1>1, Drains
<1>3. p \in 0..e
  BY <1>1, <1>2
<1>4. Left(d, p, got, e)
  BY <1>2, <1>3, DrainStops DEF Left
<1> QED BY <1>2, <1>4

\* A state after a drain.
LEMMA LeftIsSafe ==
    ASSUME RpcInv, wire' = wire, NEW d \in Nat, NEW e, NEW p \in Nat, NEW got \in Nat,
           got <= TotalBytes(wire, Len(wire)), Left(d, p, got, e),
           (\A i \in DOMAIN wire : wire[i] <= MaxQueuedPayload) => Payload(wire, d, p) <= MaxQueuedPayload,
           decoded' = e, popped' = p, rpcRead' = got, rpcError' \in BOOLEAN, GoodPeerIsNotCutOff'
    PROVE  RpcInv'
<1>1. wire \in Seq(PayloadSizes) /\ Len(wire) <= MaxFrames /\ Len(wire) \in Nat
  BY DEF RpcInv, RpcSafety, RpcTypeOK
<1>2. RpcTypeOK'
  BY <1>1 DEF RpcTypeOK, Left
<1>3. NoFrameWaitsForMore'
  BY DEF NoFrameWaitsForMore, Left, Buffered
<1>4. QueueWithinLimits'
  <2>1. QueuedPayload' = Payload(wire, e, p)
    BY DEF QueuedPayload, Payload
  <2> QED BY <2>1 DEF QueueWithinLimits, Left
<1> QED BY <1>2, <1>3, <1>4 DEF RpcInv, RpcSafety

\* A peer whose frames are all admissible, with a buffer that holds a frame and
\* a read.
GoodPeer ==
    /\ \A i \in DOMAIN wire : Admissible(wire[i])
    /\ kHeaderSize + MaxFramePayload + MaxChunk <= MaxBufferedBytes + 1

\* A read of up to MaxChunk bytes, with the drain it ends in.
LEMMA IngestKeeps ==
    ASSUME RpcInv, NEW n \in 1..MaxChunk, Ingest(n)
    PROVE  RpcInv'
<1>1. /\ wire \in Seq(PayloadSizes) /\ decoded \in 0..Len(wire) /\ popped = decoded /\ ~rpcError
      /\ TotalBytes(wire, decoded) <= rpcRead /\ rpcRead \in Nat /\ Len(wire) \in Nat
      /\ rpcRead + n <= TotalBytes(wire, Len(wire)) /\ n \in Nat /\ rpcRead + n \in Nat /\ n >= 1
      /\ decoded \in Nat
  <2>1. MaxChunk \in Nat
    BY RpcAssumption
  <2>2. n \in Nat /\ n >= 1
    BY <2>1
  <2>3. wire \in Seq(PayloadSizes) /\ decoded \in 0..Len(wire) /\ TotalBytes(wire, decoded) <= rpcRead /\ rpcRead \in Nat
    BY DEF RpcInv, RpcSafety, RpcTypeOK
  <2>4. decoded = popped /\ ~rpcError /\ rpcRead + n <= TotalBytes(wire, Len(wire))
    BY DEF Ingest
  <2>5. Len(wire) \in Nat /\ decoded \in Nat /\ rpcRead + n \in Nat
    BY <2>2, <2>3
  <2> QED BY <2>2, <2>3, <2>4, <2>5
<1>2. /\ kHeaderSize \in Nat /\ MaxChunk \in Nat /\ MaxFramePayload \in Nat /\ MaxBufferedBytes \in Nat
      /\ MaxQueuedFrames \in Nat \ {0} /\ MaxQueuedPayload \in Nat
  BY RpcAssumption
<1>3. wire \in Seq(Nat)
  BY <1>1, SizesAreNumbers
<1>4. TotalBytes(wire, decoded) \in Nat /\ TotalBytes(wire, Len(wire)) \in Nat /\ Buffered \in Nat
  <2>1. TotalBytes(wire, decoded) \in Nat /\ TotalBytes(wire, Len(wire)) \in Nat
    BY <1>1, <1>3, TotalRule
  <2> QED BY <1>1, <2>1 DEF Buffered
<1>5. CASE n > MaxBufferedBytes - Buffered
  <2>1. rpcError' = TRUE /\ UNCHANGED <<wire, rpcRead, decoded, popped>>
    BY <1>5 DEF Ingest
  <2>2. ASSUME GoodPeer PROVE FALSE
    <3>1. decoded # Len(wire)
      BY <1>1, <1>2, <1>4, <1>5 DEF Buffered
    <3>2. decoded + 1 \in 1..Len(wire) /\ wire[decoded + 1] \in Nat
      BY <1>1, <1>3, <3>1
    <3>3. Admissible(wire[decoded + 1]) /\ wire[decoded + 1] <= MaxFramePayload
      BY <1>3, <2>2, <3>2 DEF GoodPeer, Admissible
    <3>4. Buffered < kHeaderSize + wire[decoded + 1]
      BY <1>1, <3>1, <3>3 DEF RpcInv, RpcSafety, NoFrameWaitsForMore
    <3> QED BY <1>1, <1>2, <1>4, <1>5, <2>2, <3>2, <3>3, <3>4 DEF GoodPeer
  <2>3. GoodPeerIsNotCutOff'
    BY <2>1, <2>2 DEF GoodPeerIsNotCutOff, GoodPeer
  <2>4. RpcTypeOK'
    BY <2>1 DEF RpcInv, RpcSafety, RpcTypeOK
  <2>5. NoFrameWaitsForMore'
    BY <2>1 DEF NoFrameWaitsForMore
  <2>6. QueueWithinLimits'
    BY <2>1 DEF RpcInv, RpcSafety, QueueWithinLimits, QueuedPayload
  <2> QED BY <2>1, <2>3, <2>4, <2>5, <2>6 DEF RpcInv, RpcSafety
<1>6. CASE ~(n > MaxBufferedBytes - Buffered)
  <2>1. TotalBytes(wire, decoded) <= rpcRead + n /\ decoded \in 0..decoded /\ decoded - decoded <= MaxQueuedFrames
    BY <1>1, <1>2, <1>4
  <2>2. PICK e : /\ Left(decoded, decoded, rpcRead + n, e)
                 /\ DrainDecodedFrames(decoded, decoded, rpcRead + n).decoded = e
                 /\ DrainDecodedFrames(decoded, decoded, rpcRead + n).ok =
                      (e - decoded >= MaxQueuedFrames \/ ~Refuses(e, rpcRead + n))
    BY <1>1, <2>1, DrainLeaves
  <2>3. /\ rpcRead' = rpcRead + n /\ decoded' = e /\ wire' = wire /\ popped' = decoded
        /\ rpcError' = ~DrainDecodedFrames(decoded, decoded, rpcRead + n).ok
    BY <1>1, <1>6, <2>2 DEF Ingest
  <2>4. rpcError' = ~(e - decoded >= MaxQueuedFrames \/ ~Refuses(e, rpcRead + n))
    BY <2>2, <2>3
  <2>5. rpcError' \in BOOLEAN /\ (rpcError' => Refuses(e, rpcRead + n))
    BY <2>4
  <2>6. ASSUME GoodPeer PROVE ~Refuses(e, rpcRead + n)
    <3> SUFFICES ASSUME Refuses(e, rpcRead + n) PROVE FALSE
      OBVIOUS
    <3>1. e < Len(wire) /\ ~Admissible(wire[e + 1]) /\ e \in decoded..Len(wire)
      BY <2>2 DEF Left
    <3>2. e + 1 \in 1..Len(wire)
      BY <1>1, <3>1
    <3> QED BY <1>3, <2>6, <3>1, <3>2 DEF GoodPeer
  <2>7. GoodPeerIsNotCutOff'
    <3>1. GoodPeer => ~rpcError'
      BY <2>5, <2>6
    <3> QED BY <2>3, <3>1 DEF GoodPeerIsNotCutOff, GoodPeer
  <2>8. Payload(wire, decoded, decoded) <= MaxQueuedPayload
    <3>1. Payload(wire, decoded, decoded) = 0
      BY <1>1, <1>3, PayloadRule
    <3> QED BY <1>2, <3>1
  <2> QED BY <1>1, <2>2, <2>3, <2>5, <2>7, <2>8, LeftIsSafe
<1> QED BY <1>5, <1>6

\* A frame handed to the session leaves the queue.
LEMMA PopKeeps ==
    ASSUME RpcInv, PopFrame
    PROVE  RpcInv'
<1>1. /\ wire \in Seq(PayloadSizes) /\ decoded \in 0..Len(wire) /\ popped \in 0..decoded /\ popped < decoded
      /\ TotalBytes(wire, decoded) <= rpcRead /\ rpcRead \in Nat /\ Len(wire) \in Nat
      /\ rpcRead <= TotalBytes(wire, Len(wire)) /\ decoded \in Nat /\ popped \in Nat
      /\ popped + 1 \in 0..decoded /\ popped + 1 \in 1..Len(wire) /\ popped + 1 \in Nat /\ popped \in 0..Len(wire)
      /\ rpcError \in BOOLEAN
  BY DEF RpcInv, RpcSafety, RpcTypeOK, PopFrame
<1>2. MaxQueuedFrames \in Nat /\ MaxQueuedPayload \in Nat
  BY RpcAssumption
<1>3. wire \in Seq(Nat) /\ wire[popped + 1] \in Nat
  BY <1>1, SizesAreNumbers
<1>4. decoded - (popped + 1) <= MaxQueuedFrames
  BY <1>1, <1>2 DEF RpcInv, RpcSafety, QueueWithinLimits
<1>5. PICK e : /\ Left(decoded, popped + 1, rpcRead, e)
               /\ DrainDecodedFrames(decoded, popped + 1, rpcRead).decoded = e
  BY <1>1, <1>4, DrainLeaves
<1>6. popped' = popped + 1 /\ decoded' = e /\ wire' = wire /\ rpcRead' = rpcRead /\ rpcError' = rpcError
  BY <1>5 DEF PopFrame
<1>7. ASSUME \A i \in DOMAIN wire : wire[i] <= MaxQueuedPayload
      PROVE  Payload(wire, decoded, popped + 1) <= MaxQueuedPayload
  <2>1. QueuedPayload = Payload(wire, decoded, popped)
    BY DEF QueuedPayload, Payload
  <2>2. Payload(wire, decoded, popped) <= MaxQueuedPayload
    BY <1>7, <2>1 DEF RpcInv, RpcSafety, QueueWithinLimits
  <2>3. /\ Payload(wire, decoded, popped) \in Int
        /\ Payload(wire, decoded, popped + 1) = Payload(wire, decoded, popped) - wire[popped + 1]
    BY <1>1, <1>3, PayloadRule
  <2> QED BY <1>2, <1>3, <2>2, <2>3
<1>8. GoodPeerIsNotCutOff'
  BY <1>6 DEF RpcInv, RpcSafety, GoodPeerIsNotCutOff
<1> QED BY <1>1, <1>5, <1>6, <1>7, <1>8, LeftIsSafe

\* For every header size, every limit and every sequence of payloads, however it
\* is cut into reads: no complete admissible frame is left waiting, a peer that
\* keeps to the limits is not cut off, and the queue stays within its limits.
THEOREM FramesAreSafe == RpcSpec => []RpcSafety
<1>1. RpcInv /\ [RpcNext]_rpcVars => RpcInv'
  <2> SUFFICES ASSUME RpcInv, [RpcNext]_rpcVars PROVE RpcInv'
    OBVIOUS
  <2>1. CASE UNCHANGED rpcVars
    BY <2>1 DEF rpcVars, RpcInv, RpcSafety, RpcTypeOK, NoFrameWaitsForMore, GoodPeerIsNotCutOff,
                QueueWithinLimits, QueuedPayload, Buffered
  <2> QED BY <2>1, IngestKeeps, PopKeeps DEF RpcNext
<1>2. RpcInv => RpcSafety
  BY DEF RpcInv
<1> QED BY <1>1, <1>2, RpcStarts, PTL DEF RpcSpec

-----------------------------------------------------------------------------
(* The cluster bridge *)

Books == [PeerSites -> Addresses \cup {NoAddress}]

Counts == [PeerSites -> 0..MaxFailures]

ClusterRecords ==
    [on : BOOLEAN, secret : BOOLEAN, discovery : BOOLEAN,
     raft : BOOLEAN, ingress : BOOLEAN, mdns : BOOLEAN,
     manual : Books, seen : SUBSET Addresses, members : Books, next : 2..(MaxSite + 1),
     failures : Counts, fresh : SUBSET PeerSites, cooling : SUBSET PeerSites,
     asked : SUBSET Addresses, failed : Counts, evicted : SUBSET PeerSites]

\* What is on runs as a whole.
SwitchesOK(c) ==
    /\ c.on = c.raft /\ c.on = c.ingress /\ c.mdns = (c.on /\ c.discovery)
    /\ c.on /\ c.discovery => c.secret

\* Every accepted address is some peer's.
AskedOK(asked, manual) == \A a \in asked : \E s \in PeerSites : manual[s] = a

\* A well-formed bridge, whose counters are those of the peers it lists now.
BridgeOK(c) ==
    /\ c \in ClusterRecords
    /\ SwitchesOK(c)
    /\ c.on /\ Listed(c.manual) # {} => c.secret
    /\ c.evicted = {}
    /\ c.failures = c.failed
    /\ AskedOK(c.asked, c.manual)

\* Nothing is switched on or off.
SameSwitches(c, d) ==
    /\ d.on = c.on /\ d.secret = c.secret /\ d.discovery = c.discovery
    /\ d.raft = c.raft /\ d.ingress = c.ingress /\ d.mdns = c.mdns

\* What a call leaves: a bridge that is still on, with the same secret.
StillOK(c, d) == BridgeOK(d) /\ SameSwitches(c, d)

\* The limits of the counters.
LEMMA ClusterNumbers ==
    /\ MaxSite \in Nat /\ MaxSite >= 2 /\ PeerSites \subseteq Nat
    /\ MaxFailures \in Nat /\ MaxFailures >= 1 /\ MaxFailures >= EvictAfter /\ MaxFailures >= FailClosedAfter
    /\ EvictAfter \in Nat /\ FailClosedAfter \in Nat
BY ClusterAssumption DEF PeerSites, MaxFailures

\* A bridge without a cluster.
LEMMA OffOK ==
    ASSUME NEW members \in Books
    PROVE  BridgeOK(Off(members))
<1>1. Nobody \in Books /\ NoFailures \in Counts /\ 2 \in 2..(MaxSite + 1)
  BY ClusterNumbers DEF Nobody, Books, NoFailures, Counts
<1>2. Off(members) \in ClusterRecords
  BY <1>1 DEF Off, ClusterRecords
<1>3. ~Off(members).on /\ Off(members).asked = {} /\ Off(members).evicted = {}
      /\ Off(members).failures = Off(members).failed
  BY DEF Off
<1>4. SwitchesOK(Off(members))
  BY DEF Off, SwitchesOK
<1> QED BY <1>2, <1>3, <1>4 DEF BridgeOK, AskedOK

\* The fields of a bridge.
LEMMA BridgeFields ==
    ASSUME NEW c \in ClusterRecords
    PROVE  /\ c.manual \in Books /\ c.members \in Books /\ c.seen \subseteq Addresses
           /\ c.next \in 2..(MaxSite + 1) /\ c.failures \in Counts /\ c.failed \in Counts
           /\ c.fresh \subseteq PeerSites /\ c.cooling \subseteq PeerSites /\ c.asked \subseteq Addresses
           /\ {c.on, c.secret, c.discovery, c.raft, c.ingress, c.mdns} \subseteq BOOLEAN
BY DEF ClusterRecords

\* Clearing entries.
LEMMA ClearedEntries ==
    /\ \A sites : \A f \in Books : Cleared(f, sites, NoAddress) \in Books
    /\ \A sites : \A f \in Counts : Cleared(f, sites, 0) \in Counts
BY ClusterNumbers DEF Cleared, Books, Counts

\* What is left of them.
LEMMA ClearedAt ==
    ASSUME NEW f, NEW sites, NEW none, NEW s \in PeerSites
    PROVE  Cleared(f, sites, none)[s] = IF s \in sites THEN none ELSE f[s]
BY DEF Cleared

\* remove_peer leaves a sound bridge.
LEMMA WithoutPeersOK ==
    ASSUME NEW c, BridgeOK(c), NEW sites
    PROVE  /\ StillOK(c, WithoutPeers(c, sites))
           /\ WithoutPeers(c, sites).members = c.members /\ WithoutPeers(c, sites).seen = c.seen
<1>1. c \in ClusterRecords /\ c.manual \in Books
  BY BridgeFields DEF BridgeOK
<1>2. PICK manual \in Books : manual = Cleared(c.manual, sites, NoAddress)
  BY <1>1, ClearedEntries
<1>3. PICK asked : asked = c.asked \ {c.manual[s] : s \in sites}
  OBVIOUS
<1>4. asked \subseteq Addresses
  BY <1>1, <1>3, BridgeFields
<1>5. PICK d : d = [c EXCEPT !.manual = manual, !.asked = asked]
  OBVIOUS
<1>6. d = WithoutPeers(c, sites)
  BY <1>2, <1>3, <1>5 DEF WithoutPeers
<1>7. d \in ClusterRecords
  BY <1>1, <1>4, <1>5 DEF ClusterRecords
<1>8. /\ SameSwitches(c, d) /\ d.manual = manual /\ d.asked = asked /\ d.members = c.members
      /\ d.seen = c.seen /\ d.failures = c.failures /\ d.failed = c.failed /\ d.evicted = c.evicted
  BY <1>1, <1>5 DEF ClusterRecords, SameSwitches
<1>9. Listed(manual) \subseteq Listed(c.manual)
  BY <1>2, ClearedAt DEF Listed
<1>10. AskedOK(asked, manual)
  <2> SUFFICES ASSUME NEW a \in asked PROVE \E s \in PeerSites : manual[s] = a
    BY DEF AskedOK
  <2>1. PICK s \in PeerSites : c.manual[s] = a
    BY <1>3 DEF BridgeOK, AskedOK
  <2>2. s \notin sites
    BY <1>3, <2>1
  <2> QED BY <1>2, <2>1, <2>2, ClearedAt
<1> QED BY <1>6, <1>7, <1>8, <1>9, <1>10 DEF StillOK, BridgeOK, SameSwitches, SwitchesOK

\* Erasing probe maps does.
LEMMA ForgottenOK ==
    ASSUME NEW c, BridgeOK(c), NEW sites
    PROVE  /\ StillOK(c, Forgotten(c, sites))
           /\ Forgotten(c, sites).members = c.members /\ Forgotten(c, sites).seen = c.seen
<1>1. c \in ClusterRecords /\ c.failures \in Counts /\ c.failed = c.failures /\ c.fresh \subseteq PeerSites
  BY BridgeFields DEF BridgeOK
<1>2. PICK counts \in Counts : counts = Cleared(c.failures, sites, 0)
  BY <1>1, ClearedEntries
<1>3. PICK fresh : fresh = c.fresh \ sites
  OBVIOUS
<1>5. PICK d : d = [c EXCEPT !.failures = counts, !.fresh = fresh, !.failed = counts]
  OBVIOUS
<1>6. d = Forgotten(c, sites)
  BY <1>1, <1>2, <1>3, <1>5 DEF Forgotten
<1>7. d \in ClusterRecords
  BY <1>1, <1>3, <1>5 DEF ClusterRecords
<1>8. /\ SameSwitches(c, d) /\ d.manual = c.manual /\ d.asked = c.asked /\ d.members = c.members
      /\ d.seen = c.seen /\ d.failures = d.failed /\ d.evicted = c.evicted
  BY <1>1, <1>5 DEF ClusterRecords, SameSwitches
<1> QED BY <1>6, <1>7, <1>8 DEF StillOK, BridgeOK, SameSwitches, SwitchesOK

\* What discovery and the manual entries propose.
LEMMA ProposalsTyped ==
    ASSUME NEW c \in ClusterRecords
    PROVE  /\ Proposals(c) \in Books
           /\ StatusPeers(c) \in Books
           /\ \A s \in PeerSites : c.manual[s] # NoAddress => Proposals(c)[s] = c.manual[s]
<1>1. c.manual \in Books /\ c.members \in Books /\ c.seen \subseteq Addresses
  BY BridgeFields
<1>2. Proposals(c) \in Books /\ \A s \in PeerSites : c.manual[s] # NoAddress => Proposals(c)[s] = c.manual[s]
  <2>1. ASSUME NEW s \in PeerSites
        PROVE  (IF \E a \in c.seen : Identity[a] = s THEN CHOOSE a \in c.seen : Identity[a] = s
                ELSE NoAddress) \in Addresses \cup {NoAddress}
    BY <1>1
  <2> QED BY <1>1, <2>1 DEF Proposals, Books
<1>3. StatusPeers(c) \in Books
  BY <1>1, <1>2 DEF StatusPeers, Books
<1> QED BY <1>2, <1>3

\* The guess is a site without a peer.
LEMMA GuessIsFree ==
    ASSUME NEW c \in ClusterRecords, GuessedSite(c) \in PeerSites
    PROVE  GuessedSite(c) \notin Listed(Proposals(c))
<1>1. FreeSites(c) \subseteq Nat /\ FreeSites(c) # {}
  <2>1. c.next \in 2..(MaxSite + 1) /\ MaxSite \in Nat
    BY BridgeFields, ClusterNumbers
  <2>2. MaxSite + 1 \notin PeerSites /\ MaxSite + 1 \in c.next..(MaxSite + 1)
    BY <2>1 DEF PeerSites
  <2>3. MaxSite + 1 \in FreeSites(c)
    BY <2>2 DEF FreeSites, Listed
  <2>4. FreeSites(c) \subseteq Nat
    BY <2>1 DEF FreeSites
  <2> QED BY <2>3, <2>4
<1>2. PICK t \in FreeSites(c) : \A u \in FreeSites(c) : t <= u
  BY <1>1, LeastNumber
<1>3. GuessedSite(c) \in FreeSites(c)
  BY <1>2 DEF GuessedSite
<1> QED BY <1>3 DEF FreeSites

\* The entry of a site nobody else has.
LEMMA AddedPeerOK ==
    ASSUME NEW c, BridgeOK(c), c.secret, NEW a \in Addresses, NEW s \in PeerSites,
           c.manual[s] \in {a, NoAddress}, NEW answered \in BOOLEAN, NEW applied \in BOOLEAN
    PROVE  StillOK(c, AddedPeer(c, a, s, answered, applied))
<1>1. /\ c \in ClusterRecords /\ c.manual \in Books /\ c.members \in Books /\ c.failures \in Counts
      /\ c.failed = c.failures /\ c.fresh \subseteq PeerSites /\ c.asked \subseteq Addresses
      /\ c.next \in 2..(MaxSite + 1)
  BY BridgeFields DEF BridgeOK
<1>2. PICK manual \in Books : manual = [c.manual EXCEPT ![s] = a]
  BY <1>1 DEF Books
<1>3. PICK members \in Books : members = [c.members EXCEPT ![s] = IF applied THEN AddServer(@, a) ELSE @]
  BY <1>1 DEF Books, AddServer
<1>4. PICK n \in 2..(MaxSite + 1) : n = IF s + 1 > c.next THEN s + 1 ELSE c.next
  BY <1>1, ClusterNumbers DEF PeerSites
<1>5. PICK counts \in Counts : counts = [c.failures EXCEPT ![s] = IF answered THEN 0 ELSE 1]
  <2>1. PICK k \in Nat : k = (IF answered THEN 0 ELSE 1) /\ k <= 1
    OBVIOUS
  <2>2. k \in 0..MaxFailures
    BY <2>1, ClusterNumbers
  <2>3. [c.failures EXCEPT ![s] = k] \in Counts
    BY <1>1, <2>2 DEF Counts
  <2> QED BY <2>1, <2>3
<1>6. PICK fresh : fresh = c.fresh \cup {s} /\ fresh \subseteq PeerSites
  BY <1>1
<1>7. PICK asked : asked = c.asked \cup {a} /\ asked \subseteq Addresses
  BY <1>1
<1>8. PICK d : d = [c EXCEPT !.manual = manual, !.members = members, !.next = n, !.fresh = fresh,
                             !.failures = counts, !.failed = counts, !.asked = asked]
  OBVIOUS
<1>9. d = AddedPeer(c, a, s, answered, applied)
  <2>1. AddedPeer(c, a, s, answered, applied) =
          [c EXCEPT !.manual = [c.manual EXCEPT ![s] = a],
                    !.members = [c.members EXCEPT ![s] = IF applied THEN AddServer(@, a) ELSE @],
                    !.next = IF s + 1 > c.next THEN s + 1 ELSE c.next,
                    !.fresh = c.fresh \cup {s},
                    !.failures = [c.failures EXCEPT ![s] = IF answered THEN 0 ELSE 1],
                    !.failed = [c.failed EXCEPT ![s] = IF answered THEN 0 ELSE 1],
                    !.asked = c.asked \cup {a}]
    BY DEF AddedPeer
  <2> QED BY <1>1, <1>2, <1>3, <1>4, <1>5, <1>6, <1>7, <1>8, <2>1
<1>10. d \in ClusterRecords
  BY <1>1, <1>6, <1>7, <1>8 DEF ClusterRecords
<1>11. /\ SameSwitches(c, d) /\ d.manual = manual /\ d.asked = asked
       /\ d.failures = d.failed /\ d.evicted = c.evicted
  BY <1>1, <1>8 DEF ClusterRecords, SameSwitches
<1>12. AskedOK(asked, manual)
  <2> SUFFICES ASSUME NEW b \in asked PROVE \E t \in PeerSites : manual[t] = b
    BY DEF AskedOK
  <2>1. CASE b = a
    BY <1>1, <1>2, <2>1 DEF Books
  <2>2. CASE b # a
    <3>1. b \in c.asked
      BY <1>7, <2>2
    <3>2. PICK t \in PeerSites : c.manual[t] = b
      BY <3>1 DEF BridgeOK, AskedOK
    <3>3. b # NoAddress
      BY <1>1, <3>1, ClusterAssumption
    <3>4. t # s
      BY <2>2, <3>2, <3>3
    <3> QED BY <1>1, <1>2, <3>2, <3>4 DEF Books
  <2> QED BY <2>1, <2>2
<1> QED BY <1>9, <1>10, <1>11, <1>12 DEF StillOK, BridgeOK, SameSwitches, SwitchesOK

\* The attempt to change Raft's membership, and its failure.
LEMMA JoinRaftOK ==
    ASSUME NEW c, BridgeOK(c), c.secret, NEW a \in Addresses, NEW s \in PeerSites,
           c.manual[s] \in {a, NoAddress}, NEW answered \in BOOLEAN,
           NEW r \in JoinRaft(c, a, s, answered)
    PROVE  StillOK(c, r.c)
<1>1. \/ \E applied \in BOOLEAN : r = [c |-> AddedPeer(c, a, s, answered, applied), ok |-> TRUE]
      \/ r = [c |-> WithoutPeers([c EXCEPT !.manual[s] = a], {s}), ok |-> FALSE]
  BY DEF JoinRaft
<1>2. ASSUME NEW applied \in BOOLEAN, r = [c |-> AddedPeer(c, a, s, answered, applied), ok |-> TRUE]
      PROVE  StillOK(c, r.c)
  <2>1. r.c = AddedPeer(c, a, s, answered, applied)
    BY <1>2
  <2> QED BY <2>1, AddedPeerOK
<1>3. ASSUME r = [c |-> WithoutPeers([c EXCEPT !.manual[s] = a], {s}), ok |-> FALSE]
      PROVE  StillOK(c, r.c)
  <2>1. c \in ClusterRecords /\ c.manual \in Books /\ c.asked \subseteq Addresses
    BY BridgeFields DEF BridgeOK
  <2>2. PICK manual \in Books : manual = [c.manual EXCEPT ![s] = a]
    BY <2>1 DEF Books
  <2>3. PICK d : d = [c EXCEPT !.manual = manual]
    OBVIOUS
  <2>4. d = [c EXCEPT !.manual[s] = a]
    BY <2>1, <2>2, <2>3
  <2>5. d \in ClusterRecords
    BY <2>1, <2>3 DEF ClusterRecords
  <2>6. /\ SameSwitches(c, d) /\ d.manual = manual /\ d.asked = c.asked
        /\ d.failures = c.failures /\ d.failed = c.failed /\ d.evicted = c.evicted
    BY <2>1, <2>3 DEF ClusterRecords, SameSwitches
  <2>7. AskedOK(c.asked, manual)
    <3> SUFFICES ASSUME NEW b \in c.asked PROVE \E t \in PeerSites : manual[t] = b
      BY DEF AskedOK
    <3>1. PICK t \in PeerSites : c.manual[t] = b
      BY DEF BridgeOK, AskedOK
    <3>2. b # NoAddress
      BY <2>1, ClusterAssumption
    <3>3. CASE t = s
      BY <2>1, <2>2, <3>1, <3>2, <3>3 DEF Books
    <3>4. CASE t # s
      BY <2>1, <2>2, <3>1, <3>4 DEF Books
    <3> QED BY <3>3, <3>4
  <2>8. StillOK(c, d)
    BY <2>5, <2>6, <2>7 DEF StillOK, BridgeOK, SameSwitches, SwitchesOK
  <2>9. StillOK(d, WithoutPeers(d, {s}))
    BY <2>8, WithoutPeersOK DEF StillOK
  <2>10. r.c = WithoutPeers(d, {s})
    BY <1>3, <2>4
  <2> QED BY <2>8, <2>9, <2>10 DEF StillOK, SameSwitches
<1> QED BY <1>1, <1>2, <1>3

\* cluster_add_peer.
LEMMA AddPeerOK ==
    ASSUME NEW c, BridgeOK(c), NEW a \in Addresses, NEW r \in AddPeerResults(c, a)
    PROVE  StillOK(c, r.c)
<1>1. StillOK(c, c) /\ c \in ClusterRecords
  BY DEF StillOK, SameSwitches, BridgeOK
<1>2. CASE r \in Declined(c)
  BY <1>1, <1>2 DEF Declined
<1>3. CASE r \notin Declined(c)
  <2>1. c.secret /\ (r \in AddAnswering(c, a) \/ r \in AddSilent(c, a))
    BY <1>3 DEF AddPeerResults
  <2>2. CASE r \in AddAnswering(c, a)
    <3>1. /\ Identity[a] # Local /\ Proposals(c)[Identity[a]] \in {a, NoAddress}
          /\ r \in JoinRaft(c, a, Identity[a], TRUE)
      BY <1>3, <2>2 DEF AddAnswering
    <3>2. PICK s \in PeerSites : s = Identity[a]
      BY <3>1, ClusterAssumption DEF PeerSites, Local
    <3>3. c.manual[s] \in {a, NoAddress}
      BY <1>1, <3>1, <3>2, ProposalsTyped
    <3>4. PICK answered \in BOOLEAN : answered = TRUE
      OBVIOUS
    <3>5. r \in JoinRaft(c, a, s, answered)
      BY <3>1, <3>2, <3>4, Zenon
    <3> QED BY <2>1, <3>3, <3>5, JoinRaftOK
  <2>3. CASE r \in AddSilent(c, a)
    <3>1. GuessedSite(c) \in PeerSites /\ r \in JoinRaft(c, a, GuessedSite(c), FALSE)
      BY <1>3, <2>3 DEF AddSilent
    <3>2. PICK s \in PeerSites : s = GuessedSite(c)
      BY <3>1
    <3>3. s \notin Listed(Proposals(c))
      BY <1>1, <3>1, <3>2, GuessIsFree
    <3>4. c.manual[s] \in {a, NoAddress}
      BY <1>1, <3>3, ProposalsTyped DEF Listed
    <3>5. PICK answered \in BOOLEAN : answered = FALSE
      OBVIOUS
    <3>6. r \in JoinRaft(c, a, s, answered)
      BY <3>1, <3>2, <3>5, Zenon
    <3> QED BY <2>1, <3>4, <3>6, JoinRaftOK
  <2> QED BY <2>1, <2>2, <2>3
<1> QED BY <1>2, <1>3

\* cluster_remove_peer.
LEMMA RemovePeerOK ==
    ASSUME NEW c, BridgeOK(c), NEW s \in PeerSites, NEW r \in RemovePeerResults(c, s)
    PROVE  StillOK(c, r.c)
<1>1. StillOK(c, c) /\ c \in ClusterRecords
  BY DEF StillOK, SameSwitches, BridgeOK
<1>2. CASE r \in Declined(c)
  BY <1>1, <1>2 DEF Declined
<1>3. CASE r \notin Declined(c)
  <2>1. PICK gone \in BOOLEAN : r = DropPeer([c EXCEPT !.members[s] = RemoveServer(@, gone)], s)
    BY <1>3 DEF RemovePeerResults
  <2>2. PICK members \in Books : members = [c.members EXCEPT ![s] = RemoveServer(@, gone)]
    BY <1>1, BridgeFields DEF Books, RemoveServer
  <2>3. PICK d : d = [c EXCEPT !.members = members]
    OBVIOUS
  <2>4. d = [c EXCEPT !.members[s] = RemoveServer(@, gone)]
    BY <1>1, <2>2, <2>3
  <2>5. d \in ClusterRecords
    BY <1>1, <2>3 DEF ClusterRecords
  <2>6. /\ SameSwitches(c, d) /\ d.manual = c.manual /\ d.asked = c.asked
        /\ d.failures = c.failures /\ d.failed = c.failed /\ d.evicted = c.evicted
    BY <1>1, <2>3 DEF ClusterRecords, SameSwitches
  <2>7. StillOK(c, d)
    BY <2>5, <2>6 DEF StillOK, BridgeOK, SameSwitches, SwitchesOK
  <2>8. r.c = d \/ r.c = Forgotten(WithoutPeers(d, {s}), {s})
    BY <2>1, <2>4 DEF DropPeer
  <2>9. PICK e : e = WithoutPeers(d, {s})
    OBVIOUS
  <2>10. StillOK(d, e)
    BY <2>7, <2>9, WithoutPeersOK DEF StillOK
  <2>11. StillOK(e, Forgotten(e, {s}))
    BY <2>10, ForgottenOK DEF StillOK
  <2> QED BY <2>7, <2>8, <2>9, <2>10, <2>11 DEF StillOK, SameSwitches
<1> QED BY <1>2, <1>3

\* The recursive definition of WithPeers, up to the n-th peer.
IsJoining(f, start, peers, n) ==
    f = [k \in 0..n |-> IF k = 0 THEN Accepted(start) ELSE JoinNext(f[k - 1], peers[k])]

HasJoining(start, peers, n) == \E f : IsJoining(f, start, peers, n)

\* What it says of one peer more.
LEMMA JoiningAt ==
    ASSUME NEW start, NEW peers, NEW n \in Nat, NEW f, IsJoining(f, start, peers, n)
    PROVE  f[0] = Accepted(start) /\ \A k \in 1..n : f[k] = JoinNext(f[k - 1], peers[k])
BY DEF IsJoining

\* Peers joined one after the other are a function of their number.
LEMMA JoiningExists ==
    ASSUME NEW start, NEW peers, NEW m \in Nat
    PROVE  HasJoining(start, peers, m)
<1> DEFINE Bad == {n \in Nat : ~HasJoining(start, peers, n)}
           first == Accepted(start)
<1> SUFFICES ASSUME m \in Bad PROVE FALSE
  OBVIOUS
<1>0. ASSUME NEW f, NEW n, f = [k \in 0..n |-> IF k = 0 THEN first ELSE JoinNext(f[k - 1], peers[k])]
      PROVE  IsJoining(f, start, peers, n)
  BY <1>0 DEF IsJoining
<1>1. PICK n \in Bad : \A k \in Bad : n <= k
  <2>1. Bad \subseteq Nat /\ Bad # {}
    OBVIOUS
  <2> HIDE DEF Bad
  <2> QED BY <2>1, LeastNumber
<1>2. n # 0
  <2>1. PICK f : f = [k \in 0..0 |-> first]
    OBVIOUS
  <2> HIDE DEF Bad, first
  <2>2. \A k \in 0..0 : k = 0
    OBVIOUS
  <2>3. f = [k \in 0..0 |-> IF k = 0 THEN first ELSE JoinNext(f[k - 1], peers[k])]
    BY <2>1, <2>2
  <2>4. HasJoining(start, peers, 0)
    BY <1>0, <2>3 DEF HasJoining
  <2> QED BY <2>4 DEF Bad
<1>3. n \in Nat /\ n - 1 \in Nat /\ n - 1 \notin Bad
  BY <1>1, <1>2
<1>4. PICK f : IsJoining(f, start, peers, n - 1)
  BY <1>3 DEF HasJoining
<1>5. f[0] = first /\ \A k \in 1..(n - 1) : f[k] = JoinNext(f[k - 1], peers[k])
  <2> HIDE DEF Bad
  <2> QED BY <1>3, <1>4, JoiningAt
<1>5a. ~HasJoining(start, peers, n)
  BY <1>1
<1> HIDE DEF Bad, first
<1>6. PICK g : g = [k \in 0..n |-> IF k = n THEN JoinNext(f[n - 1], peers[n]) ELSE f[k]]
  OBVIOUS
<1>7. ASSUME NEW k \in 0..n
      PROVE  g[k] = IF k = 0 THEN first ELSE JoinNext(g[k - 1], peers[k])
  <2>1. CASE k = 0
    BY <1>2, <1>3, <1>5, <1>6, <2>1
  <2>2. CASE k = n
    <3>1. g[n - 1] = f[n - 1] /\ g[n] = JoinNext(f[n - 1], peers[n])
      BY <1>2, <1>3, <1>6
    <3> QED BY <1>2, <2>2, <3>1
  <2>3. CASE k \in 1..(n - 1)
    <3>1. g[k] = f[k] /\ g[k - 1] = f[k - 1] /\ k # 0
      BY <1>3, <1>6, <2>3
    <3> QED BY <1>5, <2>3, <3>1
  <2> QED BY <1>3, <2>1, <2>2, <2>3
<1>8. g = [k \in 0..n |-> IF k = 0 THEN first ELSE JoinNext(g[k - 1], peers[k])]
  <2>1. g = [k \in 0..n |-> g[k]]
    BY <1>6
  <2> QED BY <1>7, <2>1
<1>9. IsJoining(g, start, peers, n)
  BY <1>0, <1>8
<1> QED BY <1>5a, <1>9 DEF HasJoining

\* The results after some of the peers, all of them sound.
AllOK(start, results) == \A r \in results : StillOK(start, r.c)

\* One peer more.
LEMMA JoinNextOK ==
    ASSUME NEW start, NEW results, AllOK(start, results), NEW a \in Addresses
    PROVE  AllOK(start, JoinNext(results, a))
<1> SUFFICES ASSUME NEW q \in JoinNext(results, a) PROVE StillOK(start, q.c)
  BY DEF AllOK
<1>1. PICK r \in results : q \in (IF r.ok THEN AddPeerResults(r.c, a) ELSE {r})
  BY DEF JoinNext
<1>2. StillOK(start, r.c)
  BY DEF AllOK
<1>3. CASE q = r
  BY <1>2, <1>3
<1>4. CASE q \in AddPeerResults(r.c, a)
  <2>1. PICK c : c = r.c
    OBVIOUS
  <2>2. StillOK(c, q.c)
    BY <1>2, <1>4, <2>1, AddPeerOK DEF StillOK
  <2> QED BY <1>2, <2>1, <2>2 DEF StillOK, SameSwitches
<1> QED BY <1>1, <1>3, <1>4

\* The configured peers of cluster_enable.
LEMMA WithPeersOK ==
    ASSUME NEW start, BridgeOK(start), NEW peers \in Seq(Addresses)
    PROVE  AllOK(start, WithPeers(start, peers))
<1> DEFINE f == CHOOSE f : IsJoining(f, start, peers, Len(peers))
<1>1. WithPeers(start, peers) = f[Len(peers)]
  BY DEF WithPeers, IsJoining
<1>2. PICK n \in Nat : n = Len(peers) /\ \A i \in 1..n : peers[i] \in Addresses
  OBVIOUS
<1>3. IsJoining(f, start, peers, n)
  <2>1. \E g : IsJoining(g, start, peers, n)
    BY JoiningExists DEF HasJoining
  <2> QED BY <1>2, <2>1
<1> HIDE DEF f
<1>4. f[0] = Accepted(start) /\ \A k \in 1..n : f[k] = JoinNext(f[k - 1], peers[k])
  BY <1>3, JoiningAt
<1> DEFINE Bad == {k \in 0..n : ~AllOK(start, f[k])}
<1> SUFFICES ASSUME n \in Bad PROVE FALSE
  BY <1>1, <1>2
<1>5. PICK k \in Bad : \A l \in Bad : k <= l
  <2>1. Bad \subseteq Nat /\ Bad # {}
    OBVIOUS
  <2> HIDE DEF Bad
  <2> QED BY <2>1, LeastNumber
<1>6. CASE k = 0
  <2>1. \A r \in f[0] : r.c = start
    BY <1>4 DEF Accepted
  <2>2. AllOK(start, f[0])
    BY <2>1 DEF AllOK, StillOK, SameSwitches
  <2> QED BY <1>5, <1>6, <2>2
<1>7. CASE k # 0
  <2>1. k \in 1..n /\ k - 1 \in 0..n /\ k - 1 \notin Bad
    BY <1>5, <1>7
  <2>2. AllOK(start, f[k - 1]) /\ ~AllOK(start, f[k])
    BY <1>5, <2>1
  <2> HIDE DEF Bad
  <2>3. PICK a \in Addresses : a = peers[k]
    BY <1>2, <2>1
  <2>4. AllOK(start, JoinNext(f[k - 1], a))
    BY <2>2, JoinNextOK
  <2> QED BY <1>4, <2>1, <2>2, <2>3, <2>4
<1> QED BY <1>6, <1>7

\* cluster_enable, whatever fails on the way.
LEMMA EnableOK ==
    ASSUME BridgeOK(cluster), NEW config \in Configs, ClusterEnable(config)
    PROVE  BridgeOK(cluster')
<1>1. /\ config.secret \in BOOLEAN /\ config.discovery \in BOOLEAN /\ config.peers \in Seq(Addresses)
      /\ config.discovery => config.secret
  BY ClusterAssumption DEF Configs, ClusterEnable, Secure
<1>2. PICK r \in EnableResults(cluster, config) : cluster' = r.c
  BY DEF ClusterEnable
<1>3. \A m \in RaftStarts(cluster, config) : m \in Books
  <2>1. cluster.members \in Books /\ Nobody \in Books
    BY BridgeFields DEF BridgeOK, Nobody, Books
  <2> QED BY <2>1 DEF RaftStarts
<1>4. ASSUME NEW m \in RaftStarts(cluster, config), r.c = Off(m) PROVE BridgeOK(r.c)
  BY <1>3, <1>4, OffOK
<1>5. ASSUME NEW m \in RaftStarts(cluster, config), NEW q \in WithPeers(Enabled(config, m), config.peers),
             r.c = IF q.ok THEN q.c ELSE Disabled(q.c)
      PROVE  BridgeOK(r.c)
  <2>1. PICK e : e = Enabled(config, m)
    OBVIOUS
  <2>2. PICK o : o = Off(m) /\ BridgeOK(o) /\ o \in ClusterRecords
    BY <1>3, OffOK DEF BridgeOK
  <2>3. e = [o EXCEPT !.on = TRUE, !.secret = config.secret, !.discovery = config.discovery,
                      !.raft = TRUE, !.ingress = TRUE, !.mdns = config.discovery]
    BY <2>1, <2>2 DEF Enabled
  <2>4. e \in ClusterRecords
    BY <1>1, <2>2, <2>3 DEF ClusterRecords
  <2>5. /\ e.on = TRUE /\ e.raft = TRUE /\ e.ingress = TRUE
        /\ e.secret = config.secret /\ e.discovery = config.discovery /\ e.mdns = config.discovery
        /\ e.manual = o.manual /\ e.asked = o.asked /\ e.evicted = o.evicted
        /\ e.failures = o.failures /\ e.failed = o.failed
    BY <2>2, <2>3 DEF ClusterRecords
  <2>6. Listed(o.manual) = {}
    BY <2>2 DEF Off, Nobody, Listed
  <2>7. SwitchesOK(e)
    BY <1>1, <2>5 DEF SwitchesOK
  <2>8. BridgeOK(e)
    BY <2>2, <2>4, <2>5, <2>6, <2>7 DEF BridgeOK
  <2>9. BridgeOK(q.c)
    BY <1>1, <1>5, <2>1, <2>8, WithPeersOK DEF AllOK, StillOK
  <2>10. BridgeOK(Disabled(q.c))
    BY <2>9, OffOK, BridgeFields DEF BridgeOK, Disabled
  <2> QED BY <1>5, <2>9, <2>10
<1> QED BY <1>2, <1>4, <1>5 DEF EnableResults, IngressFails

\* The recursive definition of ReconciledInOrder, up to site n.
IsReconciling(f, starts, sites, address, n) ==
    f = [s \in Local..n |-> IF s = Local THEN starts
                            ELSE IF s \notin sites THEN f[s - 1]
                            ELSE UNION {Reconciled(d, s, address[s]) : d \in f[s - 1]}]

HasReconciling(starts, sites, address, n) == \E f : IsReconciling(f, starts, sites, address, n)

\* Clusters after the reconciliation of one site more.
ReconciledNext(cs, s, sites, address) ==
    IF s \notin sites THEN cs ELSE UNION {Reconciled(d, s, address[s]) : d \in cs}

\* What the definition says of one site more.
LEMMA ReconcilingAt ==
    ASSUME NEW starts, NEW sites, NEW address, NEW n \in Nat, NEW f
    PROVE  IsReconciling(f, starts, sites, address, n)
             <=> f = [s \in 1..n |-> IF s = 1 THEN starts ELSE ReconciledNext(f[s - 1], s, sites, address)]
BY DEF IsReconciling, ReconciledNext, Local

\* Sites reconciled one after the other are a function of the last one.
LEMMA ReconcilingExists ==
    ASSUME NEW starts, NEW sites, NEW address, NEW m \in Nat
    PROVE  HasReconciling(starts, sites, address, m)
<1> DEFINE Onward(q, s) == ReconciledNext(q, s, sites, address)
           Bad == {n \in Nat : ~HasReconciling(starts, sites, address, n)}
<1> SUFFICES ASSUME m \in Bad PROVE FALSE
  OBVIOUS
<1>0. ASSUME NEW f, NEW n \in Nat
      PROVE  IsReconciling(f, starts, sites, address, n)
               <=> f = [s \in 1..n |-> IF s = 1 THEN starts ELSE Onward(f[s - 1], s)]
  BY ReconcilingAt
<1>1. PICK n \in Bad : \A k \in Bad : n <= k
  <2>1. Bad \subseteq Nat /\ Bad # {}
    OBVIOUS
  <2> HIDE DEF Bad
  <2> QED BY <2>1, LeastNumber
<1>5a. n \in Nat /\ ~HasReconciling(starts, sites, address, n)
  BY <1>1
<1> HIDE DEF Onward
<1>2. n # 0
  <2>1. PICK f : f = [s \in 1..0 |-> starts]
    OBVIOUS
  <2> HIDE DEF Bad
  <2>2. f = [s \in 1..0 |-> IF s = 1 THEN starts ELSE Onward(f[s - 1], s)]
    <3>1. 1..0 = {}
      OBVIOUS
    <3> QED BY <2>1, <3>1
  <2>4. HasReconciling(starts, sites, address, 0)
    BY <1>0, <2>2 DEF HasReconciling
  <2> QED BY <1>5a, <2>4
<1>3. n - 1 \in Nat /\ n - 1 \notin Bad
  BY <1>1, <1>2
<1>4. PICK f : IsReconciling(f, starts, sites, address, n - 1)
  BY <1>3 DEF HasReconciling
<1> HIDE DEF Bad
<1>5. f = [s \in 1..(n - 1) |-> IF s = 1 THEN starts ELSE Onward(f[s - 1], s)]
  BY <1>0, <1>3, <1>4
<1>6. PICK g : g = [s \in 1..n |-> IF s = n THEN (IF n = 1 THEN starts ELSE Onward(f[n - 1], n)) ELSE f[s]]
  OBVIOUS
<1>7. ASSUME NEW s \in 1..n
      PROVE  g[s] = IF s = 1 THEN starts ELSE Onward(g[s - 1], s)
  <2>1. CASE s = 1
    <3>1. CASE n = 1
      BY <1>6, <2>1, <3>1
    <3>2. CASE n # 1
      <4>1. 1 \in 1..(n - 1) /\ g[s] = f[1]
        BY <1>3, <1>5a, <1>6, <2>1, <3>2
      <4> QED BY <1>5, <2>1, <4>1
    <3> QED BY <3>1, <3>2
  <2>2. CASE s = n /\ n # 1
    <3>1. g[n - 1] = f[n - 1] /\ g[n] = Onward(f[n - 1], n)
      BY <1>2, <1>3, <1>5a, <1>6, <2>2
    <3> QED BY <2>2, <3>1
  <2>3. CASE s \in 2..(n - 1)
    <3>1. g[s] = f[s] /\ g[s - 1] = f[s - 1] /\ s # 1 /\ s \in 1..(n - 1)
      BY <1>3, <1>5a, <1>6, <2>3
    <3> QED BY <1>5, <2>3, <3>1
  <2> QED BY <1>3, <1>5a, <2>1, <2>2, <2>3
<1>8. g = [s \in 1..n |-> IF s = 1 THEN starts ELSE Onward(g[s - 1], s)]
  <2>1. g = [s \in 1..n |-> g[s]]
    BY <1>6
  <2> QED BY <1>7, <2>1
<1>9. IsReconciling(g, starts, sites, address, n)
  BY <1>0, <1>5a, <1>8
<1> QED BY <1>5a, <1>9 DEF HasReconciling

\* Clusters that are all sound.
EachOK(start, cs) == \A d \in cs : StillOK(start, d)

\* One peer removed and added again.
LEMMA ReconciledOK ==
    ASSUME NEW c, BridgeOK(c), NEW s \in PeerSites, NEW a \in Addresses, NEW d \in Reconciled(c, s, a)
    PROVE  StillOK(c, d)
<1>1. PICK r \in RemovePeerResults(c, s) :
        d \in (IF r.ok THEN {q.c : q \in AddPeerResults(r.c, a)} ELSE {r.c})
  BY DEF Reconciled
<1>2. PICK e : e = r.c
  OBVIOUS
<1>3. StillOK(c, e)
  BY <1>2, RemovePeerOK
<1>4. CASE d = e
  BY <1>3, <1>4
<1>5. CASE d # e
  <2>1. PICK q \in AddPeerResults(e, a) : d = q.c
    BY <1>1, <1>2, <1>5
  <2>2. StillOK(e, d)
    BY <1>3, <2>1, AddPeerOK DEF StillOK
  <2> QED BY <1>3, <2>2 DEF StillOK, SameSwitches
<1> QED BY <1>4, <1>5

\* A pass over some sites.
LEMMA ReconciledInOrderOK ==
    ASSUME NEW start, NEW starts, EachOK(start, starts), NEW sites \in SUBSET PeerSites, NEW address,
           \A s \in sites : address[s] \in Addresses
    PROVE  EachOK(start, ReconciledInOrder(starts, sites, address))
<1> DEFINE f == CHOOSE f : IsReconciling(f, starts, sites, address, MaxSite)
<1>1. ReconciledInOrder(starts, sites, address) = f[MaxSite]
  BY DEF ReconciledInOrder, IsReconciling
<1>2. MaxSite \in Nat /\ MaxSite >= 2
  BY ClusterNumbers
<1>3. IsReconciling(f, starts, sites, address, MaxSite)
  <2>1. \E g : IsReconciling(g, starts, sites, address, MaxSite)
    BY <1>2, ReconcilingExists DEF HasReconciling
  <2> QED BY <2>1
<1> HIDE DEF f
<1>4. f = [s \in 1..MaxSite |-> IF s = 1 THEN starts ELSE ReconciledNext(f[s - 1], s, sites, address)]
  BY <1>2, <1>3, ReconcilingAt
<1> DEFINE Bad == {s \in 1..MaxSite : ~EachOK(start, f[s])}
<1> SUFFICES ASSUME MaxSite \in Bad PROVE FALSE
  BY <1>1, <1>2
<1>5. PICK s \in Bad : \A l \in Bad : s <= l
  <2>1. Bad \subseteq Nat /\ Bad # {}
    BY <1>2
  <2> HIDE DEF Bad
  <2> QED BY <2>1, LeastNumber
<1>6. s \in 1..MaxSite /\ ~EachOK(start, f[s])
  BY <1>5
<1>7. s # 1
  BY <1>2, <1>4, <1>6
<1>8. s - 1 \in 1..MaxSite /\ s \in PeerSites /\ s - 1 \notin Bad
  BY <1>2, <1>5, <1>6, <1>7 DEF PeerSites
<1>9. EachOK(start, f[s - 1])
  BY <1>8
<1> HIDE DEF Bad
<1>10. f[s] = ReconciledNext(f[s - 1], s, sites, address)
  BY <1>4, <1>6, <1>7
<1>11. PICK cs : cs = f[s - 1]
  OBVIOUS
<1>12. ASSUME NEW d \in ReconciledNext(cs, s, sites, address) PROVE StillOK(start, d)
  <2>1. CASE s \notin sites
    BY <1>9, <1>11, <1>12, <2>1 DEF ReconciledNext, EachOK
  <2>2. CASE s \in sites
    <3>1. PICK e \in cs : d \in Reconciled(e, s, address[s])
      BY <1>12, <2>2 DEF ReconciledNext
    <3>2. StillOK(start, e)
      BY <1>9, <1>11 DEF EachOK
    <3>3. PICK a \in Addresses : a = address[s]
      BY <2>2
    <3>4. StillOK(e, d)
      BY <1>8, <3>1, <3>2, <3>3, ReconciledOK DEF StillOK
    <3> QED BY <3>2, <3>4 DEF StillOK, SameSwitches
  <2> QED BY <2>1, <2>2
<1> QED BY <1>6, <1>10, <1>11, <1>12 DEF EachOK

\* All of them.
LEMMA AllReconciledOK ==
    ASSUME NEW c, BridgeOK(c), NEW sites \in SUBSET Listed(StatusPeers(c)), NEW d \in AllReconciled(c, sites)
    PROVE  StillOK(c, d)
<1>1. PICK named : named = sites \cap Listed(Proposals(c))
  OBVIOUS
<1>2. PICK address : address = StatusPeers(c)
  OBVIOUS
<1>3. PICK rest : rest = sites \ named
  OBVIOUS
<1>4. /\ named \in SUBSET PeerSites /\ rest \in SUBSET PeerSites
      /\ \A s \in named \cup rest : address[s] \in Addresses
  <2>1. address \in Books
    BY <1>2, ProposalsTyped DEF BridgeOK
  <2> QED BY <1>1, <1>2, <1>3, <2>1 DEF Listed, Books
<1>5. EachOK(c, {c})
  BY DEF EachOK, StillOK, SameSwitches
<1>6. EachOK(c, ReconciledInOrder({c}, named, address))
  BY <1>4, <1>5, ReconciledInOrderOK
<1>7. EachOK(c, ReconciledInOrder(ReconciledInOrder({c}, named, address), rest, address))
  BY <1>4, <1>6, ReconciledInOrderOK
<1>8. d \in ReconciledInOrder(ReconciledInOrder({c}, named, address), rest, address)
  BY <1>1, <1>2, <1>3 DEF AllReconciled
<1> QED BY <1>7, <1>8 DEF EachOK

\* The results of the probes.
LEMMA ProbedOK ==
    ASSUME NEW c, BridgeOK(c), NEW probed \in SUBSET PeerSites, NEW answered
    PROVE  /\ StillOK(c, Probed(c, probed, answered))
           /\ Probed(c, probed, answered).manual = c.manual
           /\ Probed(c, probed, answered).members = c.members
           /\ Probed(c, probed, answered).seen = c.seen
<1>1. c \in ClusterRecords /\ c.failures \in Counts /\ c.failed = c.failures /\ c.fresh \subseteq PeerSites
  BY BridgeFields DEF BridgeOK
<1>2. PICK counts \in Counts : counts = Counted(c.failures, probed, answered)
  <2>1. MaxFailures \in Nat /\ \A s \in PeerSites : c.failures[s] \in 0..MaxFailures
    BY <1>1, ClusterNumbers DEF Counts
  <2>2. ASSUME NEW s \in PeerSites
        PROVE  (IF s \in probed THEN Bumped(c.failures[s], s, answered) ELSE c.failures[s]) \in 0..MaxFailures
    BY <2>1 DEF Bumped
  <2> QED BY <2>2 DEF Counted, Counts
<1>3. PICK fresh : fresh = c.fresh \cup probed
  OBVIOUS
<1>5. PICK d : d = [c EXCEPT !.fresh = fresh, !.failures = counts, !.failed = counts]
  OBVIOUS
<1>6. d = Probed(c, probed, answered)
  BY <1>1, <1>2, <1>3, <1>5 DEF Probed
<1>7. d \in ClusterRecords
  BY <1>1, <1>3, <1>5 DEF ClusterRecords
<1>8. /\ SameSwitches(c, d) /\ d.manual = c.manual /\ d.asked = c.asked /\ d.members = c.members
      /\ d.seen = c.seen /\ d.failures = d.failed /\ d.evicted = c.evicted
  BY <1>1, <1>5 DEF ClusterRecords, SameSwitches
<1> QED BY <1>6, <1>7, <1>8 DEF StillOK, BridgeOK, SameSwitches, SwitchesOK

\* A candidate has failed often enough, by its own history.
LEMMA CandidatesFailed ==
    ASSUME NEW c, BridgeOK(c), NEW peers \in SUBSET PeerSites, NEW silent,
           NEW removed \in SUBSET EvictionCandidates(c, peers, silent)
    PROVE  Unfounded(c, removed, silent) = {}
<1>1. c \in ClusterRecords /\ c.failures \in Counts /\ c.failed = c.failures
  BY BridgeFields DEF BridgeOK
<1> SUFFICES ASSUME NEW s \in Unfounded(c, removed, silent) PROVE FALSE
  OBVIOUS
<1>2. /\ s \in removed /\ s \in PeerSites
      /\ HeartbeatFailures(c, s, silent) >= EvictAfter \/ c.failures[s] >= FailClosedAfter
  BY DEF Unfounded, EvictionCandidates
<1>3. [c EXCEPT !.failures = c.failed].failures = c.failures
  BY <1>1 DEF ClusterRecords
<1>4. Evidence(c, s, silent) = HeartbeatFailures(c, s, silent)
  BY <1>3 DEF Evidence, HeartbeatFailures
<1>5. PICK k \in Nat : k = c.failures[s]
  BY <1>1, <1>2, ClusterNumbers DEF Counts
<1>6. PICK h \in Nat : h = HeartbeatFailures(c, s, silent) /\ (h = MaxFailures \/ h = k)
  BY <1>5, ClusterNumbers DEF HeartbeatFailures
<1>7. h < EvictAfter /\ h < FailClosedAfter
  BY <1>4, <1>6 DEF Unfounded
<1> QED BY <1>2, <1>5, <1>6, <1>7, ClusterNumbers

\* The evictions.
LEMMA EvictedOK ==
    ASSUME NEW c, BridgeOK(c), NEW candidates \in SUBSET PeerSites, NEW removed
    PROVE  StillOK(c, Evicted(c, candidates, removed, {}))
<1>1. PICK d : d = WithoutPeers(c, removed)
  OBVIOUS
<1>2. StillOK(c, d)
  BY <1>1, WithoutPeersOK
<1>3. PICK e : e = Forgotten(d, removed)
  OBVIOUS
<1>4. StillOK(d, e) /\ e \in ClusterRecords
  BY <1>2, <1>3, ForgottenOK DEF StillOK, BridgeOK
<1>5. PICK members \in Books : members = Cleared(e.members, removed, NoAddress)
  BY <1>4, ClearedEntries, BridgeFields
<1>6. PICK cooling : cooling = (e.cooling \cup candidates) \ removed /\ cooling \subseteq PeerSites
  BY <1>4, BridgeFields
<1>7. PICK h : h = [e EXCEPT !.members = members, !.cooling = cooling, !.evicted = {}]
  OBVIOUS
<1>8. h = Evicted(c, candidates, removed, {})
  BY <1>1, <1>3, <1>5, <1>6, <1>7 DEF Evicted
<1>9. h \in ClusterRecords
  BY <1>4, <1>6, <1>7 DEF ClusterRecords
<1>10. /\ SameSwitches(e, h) /\ h.manual = e.manual /\ h.asked = e.asked
       /\ h.failures = e.failures /\ h.failed = e.failed /\ h.evicted = {}
  BY <1>4, <1>7 DEF ClusterRecords, SameSwitches
<1>11. StillOK(e, h)
  BY <1>4, <1>9, <1>10 DEF StillOK, BridgeOK, SameSwitches, SwitchesOK
<1> QED BY <1>2, <1>4, <1>8, <1>11 DEF StillOK, SameSwitches

\* refresh_cluster_peers.
LEMMA RefreshOK ==
    ASSUME BridgeOK(cluster), RefreshClusterPeers
    PROVE  BridgeOK(cluster')
<1>1. PICK found \in SUBSET {a \in Announced : Identity[a] # Local /\ cluster.discovery} :
        LET c     == [cluster EXCEPT !.seen = found]
            peers == Listed(StatusPeers(c))
        IN  \E probed \in ProbeSets(c) : \E answered \in SUBSET probed :
              LET p == Probed(c, probed, answered)
              IN  \/ FollowerRefresh(p, peers)
                  \/ \E silent \in SUBSET (peers \ (answered \union c.cooling)) :
                         LeaderRefresh(p, peers, silent, answered)
  BY DEF RefreshClusterPeers
<1>2. PICK c : c = [cluster EXCEPT !.seen = found]
  OBVIOUS
<1>3. PICK peers : peers = Listed(StatusPeers(c))
  OBVIOUS
<1>4. PICK probed \in ProbeSets(c) : \E answered \in SUBSET probed :
        \/ FollowerRefresh(Probed(c, probed, answered), peers)
        \/ \E silent \in SUBSET (peers \ (answered \union c.cooling)) :
               LeaderRefresh(Probed(c, probed, answered), peers, silent, answered)
  BY <1>1, <1>2, <1>3
<1>5. PICK answered \in SUBSET probed :
        \/ FollowerRefresh(Probed(c, probed, answered), peers)
        \/ \E silent \in SUBSET (peers \ (answered \union c.cooling)) :
               LeaderRefresh(Probed(c, probed, answered), peers, silent, answered)
  BY <1>4
<1>6. BridgeOK(c)
  <2>1. cluster \in ClusterRecords /\ found \subseteq Addresses
    BY ClusterAssumption DEF BridgeOK
  <2>2. c \in ClusterRecords
    BY <1>2, <2>1 DEF ClusterRecords
  <2>3. /\ SameSwitches(cluster, c) /\ c.manual = cluster.manual /\ c.asked = cluster.asked
        /\ c.failures = cluster.failures /\ c.failed = cluster.failed /\ c.evicted = cluster.evicted
    BY <1>2, <2>1 DEF ClusterRecords, SameSwitches
  <2> QED BY <2>2, <2>3 DEF BridgeOK, SameSwitches, SwitchesOK
<1>7. peers \in SUBSET PeerSites /\ probed \in SUBSET PeerSites /\ probed \subseteq peers
  BY <1>3 DEF ProbeSets, Listed
<1>8. PICK p : p = Probed(c, probed, answered)
  OBVIOUS
<1>9. BridgeOK(p) /\ p.manual = c.manual /\ p.members = c.members /\ p.seen = c.seen
  BY <1>6, <1>7, <1>8, ProbedOK DEF StillOK
<1>10. CASE FollowerRefresh(p, peers)
  <2>1. PICK d : d = Forgotten(p, PeerSites \ peers)
    OBVIOUS
  <2>2. BridgeOK(d) /\ d \in ClusterRecords /\ d.evicted = {}
    <3>1. StillOK(p, d)
      BY <1>9, <2>1, ForgottenOK
    <3> QED BY <3>1 DEF StillOK, BridgeOK
  <2>3. cluster' = [d EXCEPT !.evicted = {}]
    BY <1>10, <2>1 DEF FollowerRefresh, PrunedTo
  <2>4. cluster' = d
    BY <2>2, <2>3 DEF ClusterRecords
  <2> QED BY <2>2, <2>4
<1>11. ASSUME NEW silent, LeaderRefresh(p, peers, silent, answered)
       PROVE  BridgeOK(cluster')
  <2>1. PICK candidates : candidates = EvictionCandidates(p, peers, silent)
    OBVIOUS
  <2>2. PICK d \in AllReconciled(p, Misidentified(p, answered)), removed \in SUBSET candidates :
          cluster' = Evicted(PrunedTo(d, peers), candidates, removed, Unfounded(p, removed, silent))
    BY <1>11, <2>1 DEF LeaderRefresh
  <2>3. Unfounded(p, removed, silent) = {}
    BY <1>7, <1>9, <2>1, <2>2, CandidatesFailed
  <2>4. StatusPeers(p) = StatusPeers(c)
    BY <1>9 DEF StatusPeers, Proposals
  <2>5. Misidentified(p, answered) \in SUBSET Listed(StatusPeers(p))
    BY <1>3, <1>5, <1>7, <2>4 DEF Misidentified
  <2>6. BridgeOK(d)
    BY <1>9, <2>2, <2>5, AllReconciledOK DEF StillOK
  <2>7. PICK e : e = PrunedTo(d, peers) /\ BridgeOK(e)
    BY <2>6, ForgottenOK DEF PrunedTo, StillOK
  <2>8. candidates \in SUBSET PeerSites
    BY <1>7, <2>1 DEF EvictionCandidates
  <2>9. cluster' = Evicted(e, candidates, removed, {})
    BY <2>2, <2>3, <2>7
  <2> QED BY <2>7, <2>8, <2>9, EvictedOK DEF StillOK
<1> QED BY <1>5, <1>8, <1>10, <1>11

\* The probe interval passes.
LEMMA TimeOK ==
    ASSUME BridgeOK(cluster), NEW cooled \in BOOLEAN, TimePasses(cooled)
    PROVE  BridgeOK(cluster')
<1>1. cluster \in ClusterRecords
  BY DEF BridgeOK
<1>2. PICK cooling : cooling = (IF cooled THEN {} ELSE cluster.cooling) /\ cooling \subseteq PeerSites
  BY <1>1, BridgeFields
<1>3. cluster' = [cluster EXCEPT !.fresh = {}, !.cooling = cooling]
  BY <1>2 DEF TimePasses
<1>4. cluster' \in ClusterRecords
  BY <1>1, <1>2, <1>3 DEF ClusterRecords
<1>5. /\ SameSwitches(cluster, cluster') /\ cluster'.manual = cluster.manual
      /\ cluster'.asked = cluster.asked /\ cluster'.failures = cluster.failures
      /\ cluster'.failed = cluster.failed /\ cluster'.evicted = cluster.evicted
  BY <1>1, <1>3 DEF ClusterRecords, SameSwitches
<1> QED BY <1>4, <1>5 DEF BridgeOK, SameSwitches, SwitchesOK

\* A pending change of Raft's membership lands.
LEMMA RaftLandsOK ==
    ASSUME BridgeOK(cluster), NEW s \in PeerSites, RaftLands(s)
    PROVE  BridgeOK(cluster')
<1>1. cluster \in ClusterRecords /\ cluster.members \in Books /\ cluster.manual \in Books
  BY BridgeFields DEF BridgeOK
<1>2. PICK members \in Books : members = [cluster.members EXCEPT ![s] = cluster.manual[s]]
  BY <1>1 DEF Books
<1>3. cluster' = [cluster EXCEPT !.members = members]
  BY <1>1, <1>2 DEF RaftLands
<1>4. cluster' \in ClusterRecords
  BY <1>1, <1>3 DEF ClusterRecords
<1>5. /\ SameSwitches(cluster, cluster') /\ cluster'.manual = cluster.manual
      /\ cluster'.asked = cluster.asked /\ cluster'.failures = cluster.failures
      /\ cluster'.failed = cluster.failed /\ cluster'.evicted = cluster.evicted
  BY <1>1, <1>3 DEF ClusterRecords, SameSwitches
<1> QED BY <1>4, <1>5 DEF BridgeOK, SameSwitches, SwitchesOK

\* Every call leaves a sound bridge.
LEMMA ClusterNextOK == BridgeOK(cluster) /\ [ClusterNext]_clusterVars => BridgeOK(cluster')
<1> SUFFICES ASSUME BridgeOK(cluster), [ClusterNext]_clusterVars PROVE BridgeOK(cluster')
  OBVIOUS
<1>1. ASSUME NEW config \in Configs, ClusterEnable(config) PROVE BridgeOK(cluster')
  BY <1>1, EnableOK
<1>2. CASE ClusterDisable
  BY <1>2, OffOK, BridgeFields DEF ClusterDisable, Disabled, BridgeOK
<1>3. ASSUME NEW a \in Addresses, ClusterAddPeer(a) PROVE BridgeOK(cluster')
  BY <1>3, AddPeerOK DEF ClusterAddPeer, StillOK
<1>4. ASSUME NEW s \in PeerSites, ClusterRemovePeer(s) PROVE BridgeOK(cluster')
  BY <1>4, RemovePeerOK DEF ClusterRemovePeer, StillOK
<1>5. CASE RefreshClusterPeers
  BY <1>5, RefreshOK
<1>6. ASSUME NEW cooled \in BOOLEAN, TimePasses(cooled) PROVE BridgeOK(cluster')
  BY <1>6, TimeOK
<1>7. ASSUME NEW s \in PeerSites, RaftLands(s) PROVE BridgeOK(cluster')
  BY <1>7, RaftLandsOK
<1>8. CASE UNCHANGED clusterVars
  BY <1>8 DEF clusterVars
<1> QED BY <1>1, <1>2, <1>3, <1>4, <1>5, <1>6, <1>7, <1>8 DEF ClusterNext

\* A sound bridge is a safe one.
LEMMA BridgeIsSafe == BridgeOK(cluster) => ClusterSafety
<1> SUFFICES ASSUME BridgeOK(cluster) PROVE ClusterSafety
  OBVIOUS
<1>1. /\ cluster.manual \in Books /\ cluster.members \in Books /\ cluster.seen \subseteq Addresses
      /\ cluster.next \in 2..(MaxSite + 1) /\ cluster.failures \in Counts /\ cluster.failed \in Counts
      /\ cluster.fresh \subseteq PeerSites /\ cluster.cooling \subseteq PeerSites
      /\ cluster.asked \subseteq Addresses
  BY BridgeFields DEF BridgeOK
<1>2. ClusterTypeOK
  BY <1>1 DEF ClusterTypeOK, Books, Counts
<1>3. WholeOrNothingRuns
  BY DEF BridgeOK, SwitchesOK, WholeOrNothingRuns
<1>4. PeersNeedSecret
  BY DEF BridgeOK, SwitchesOK, PeersNeedSecret
<1>5. EvictionNeedsFailures
  BY DEF BridgeOK, EvictionNeedsFailures
<1>6. AcceptedPeersAreListed
  <2>1. ASSUME NEW a \in cluster.asked
        PROVE  a \in {cluster.manual[s] : s \in Listed(cluster.manual)}
    <3>1. PICK s \in PeerSites : cluster.manual[s] = a
      BY DEF BridgeOK, AskedOK
    <3>2. a # NoAddress
      BY <1>1, ClusterAssumption
    <3> QED BY <3>1, <3>2 DEF Listed
  <2> QED BY <2>1 DEF AcceptedPeersAreListed
<1> QED BY <1>2, <1>3, <1>4, <1>5, <1>6 DEF ClusterSafety

\* For any addresses, identities, announcements, lists of peers and limits:
\* whatever fails on the way, the cluster runs as a whole or not at all, talks to
\* peers only with a secret, lists every peer it accepted and evicts a peer only
\* for failures of its own.
THEOREM ClusterIsSafe == ClusterSpec => []ClusterSafety
<1> DEFINE Inv == BridgeOK(cluster)
<1>1. ClusterInit => Inv
  <2>1. Nobody \in Books
    BY DEF Nobody, Books
  <2> QED BY <2>1, OffOK DEF ClusterInit
<1>2. Inv /\ [ClusterNext]_clusterVars => Inv'
  BY ClusterNextOK
<1>3. Inv => ClusterSafety
  BY BridgeIsSafe
<1> HIDE DEF Inv
<1> QED BY <1>1, <1>2, <1>3, PTL DEF ClusterSpec
=============================================================================
