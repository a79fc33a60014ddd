---------------------------- MODULE IngressProofs ----------------------------
(***************************************************************************)
(* The safety of what stands around the proxy's handlers, for every value  *)
(* of the constants.  None of the properties is inductive.                 *)
(*                                                                         *)
(* Routes: what a request has left behind at each place (Stage), that the  *)
(* handler that keeps the loop still has its client (LoopHolder), that the *)
(* queue holds each queued request once (QueueOK), and that a reservation  *)
(* is in the hands of the request that made it until that request settles  *)
(* it (ReservationsOwned), without which another request of the same id    *)
(* could settle it.                                                        *)
(*                                                                         *)
(* Usage refreshes: the one refresh of an account is with the thread that  *)
(* is about to enqueue it or with one task (OneRefresh), the tracker's     *)
(* time is the latest at which one began (LastIsLatest), and an answer on  *)
(* its way to the cache was given by the upstream (AnswersAreGiven).       *)
(*                                                                         *)
(* Traffic: of an account that two workers never recorded at once, the     *)
(* copy that will be shown last is the entry (NewestIsLast), and the last  *)
(* event is from the time of traffic_last_emit_at (EventsFollowEmits).     *)
(*                                                                         *)
(* Filters: the client's address and the decoded body are recursive        *)
(* functions of the header's entries.  The first entry at which what the   *)
(* recursion has found differed from what is meant (EndsAt, BodyAt) would  *)
(* contradict the step that leads to it.                                   *)
(***************************************************************************)
EXTENDS ProxyIngress, RequestFilters, Metering, FiniteSetTheorems, SequenceTheorems,
        WellFoundedInduction, NaturalsInduction, TLAPS

-----------------------------------------------------------------------------
(* The routes and the key table *)

Policies == [key : KeyIds \cup {NoKey}, allowed : SUBSET Models, enforced : Optional(Models)]
Places == {"new", "body", "queued", "taken", "upstream", "deferred", "done"}
ProxyRequests ==
    [pc : Places, kind : Kinds \cup {"none", "ws"}, id : Requests \cup {Nobody}, policy : Policies,
     socket : Sockets \cup {NoSocket}, active : BOOLEAN, aborted : BOOLEAN,
     outcome : {"none", "ok", "failed"}, writes : 0..1, logs : 0..1]
WsEntries == [entry : {"absent", "open", "stale"}, open : BOOLEAN, policy : Policies]
Reservations == [status : {"none", "reserved", "settled", "released"}, owner : Requests \cup {Nobody}]

IngressTyped ==
    /\ KeysTypeOK
    /\ req \in [Requests -> ProxyRequests]
    /\ sock \in [Sockets -> WsEntries]
    /\ rows \in [Requests -> Reservations]
    /\ tasks \in Seq(Requests)
    /\ loop \in Requests \cup {Nobody}

\* How far a request is, and what it has left behind by then.
Stage(q) ==
    /\ q.pc \notin {"deferred", "done"} => q.writes = 0 /\ q.logs = 0 /\ q.outcome = "none"
    /\ q.pc = "deferred" => q.writes = 0
    /\ q.outcome # "none" => q.logs = 1
    /\ q.pc \in {"new", "body"} \/ q.kind = "ws" => ~q.aborted
    /\ q.pc \in {"queued", "taken", "upstream", "body"} => q.id \in Requests

StagesOK == \A r \in Requests : Stage(req[r])

\* The handler that holds the loop waits for the upstream, and its client is
\* not noticed to have gone.
LoopHolder == loop # Nobody => req[loop].pc = "upstream" /\ ~req[loop].aborted

\* The executor's queue holds each queued request once.
QueueOK ==
    /\ \A i \in 1..Len(tasks) : req[tasks[i]].pc = "queued"
    /\ \A i, j \in 1..Len(tasks) : i # j => tasks[i] # tasks[j]

\* A reservation is in the hands of its owner, until the owner settles it.
ReservationsOwned ==
    /\ \A i \in Requests : rows[i].status \in {"settled", "released"} => rows[i].owner \in Requests
    /\ \A r \in Requests : req[r].pc = "upstream" /\ req[r].active =>
         rows[req[r].id].status = "reserved" /\ rows[req[r].id].owner = r

ExecutorBounded == Len(tasks) + Cardinality(InHand) <= kMaxInFlightTasks

IngressInv ==
    /\ IngressTyped /\ StagesOK /\ LoopHolder /\ QueueOK /\ ReservationsOwned
    /\ ReservationMatchesOutcome /\ RegistryNamesOpenSockets /\ EnforcedModelIsAllowed
    /\ ExecutorBounded

\* The requests in the hands of the workers are finitely many.
LEMMA InHandIsFinite == IsFiniteSet(InHand) /\ Cardinality(InHand) \in Nat
<1>1. IsFiniteSet(InHand)
  BY FS_Subset, IngressAssumption DEF InHand
<1> QED BY <1>1, FS_CardinalityType

\* What a request is before it arrives and after it is over.
LEMMA FreshProxyRequest ==
    /\ NoPolicy \in Policies
    /\ NoRequest \in ProxyRequests /\ Stage(NoRequest) /\ NoRequest.pc = "new" /\ NoRequest.active = FALSE
<1>1. NoPolicy \in Policies
  BY DEF NoPolicy, Policies, Optional
<1>2. NoRequest \in ProxyRequests
  BY <1>1 DEF NoRequest, ProxyRequests, Places
<1> QED BY <1>1, <1>2 DEF NoRequest, Stage

\* A request that is over keeps what was written and logged, and nothing else.
LEMMA DoneRequest ==
    ASSUME NEW q \in ProxyRequests
    PROVE  LET d == Done(q) IN
           /\ d \in ProxyRequests /\ d.pc = "done" /\ d.aborted = q.aborted /\ d.outcome = q.outcome
           /\ d.writes = q.writes /\ d.logs = q.logs /\ d.active = FALSE
           /\ d.kind = IF q.kind = "ws" THEN "ws" ELSE "none"
<1>1. PICK k \in {"ws", "none"} : k = IF q.kind = "ws" THEN "ws" ELSE "none"
  OBVIOUS
<1>2. PICK a : a = [NoRequest EXCEPT !.pc = "done", !.aborted = q.aborted]
  OBVIOUS
<1>3. a \in ProxyRequests /\ a.pc = "done" /\ a.aborted = q.aborted /\ a.active = FALSE
  BY <1>2, FreshProxyRequest DEF ProxyRequests, Places
<1>4. PICK b : b = [a EXCEPT !.outcome = q.outcome, !.kind = k]
  OBVIOUS
<1>5. /\ b \in ProxyRequests /\ b.pc = "done" /\ b.aborted = q.aborted /\ b.active = FALSE
      /\ b.outcome = q.outcome /\ b.kind = k
  BY <1>1, <1>3, <1>4 DEF ProxyRequests
<1>6. PICK d : d = [b EXCEPT !.writes = q.writes, !.logs = q.logs]
  OBVIOUS
<1>7. /\ d \in ProxyRequests /\ d.pc = "done" /\ d.aborted = q.aborted /\ d.active = FALSE
      /\ d.outcome = q.outcome /\ d.kind = k /\ d.writes = q.writes /\ d.logs = q.logs
  BY <1>5, <1>6 DEF ProxyRequests
<1>8. d = Done(q)
  BY <1>1, <1>2, <1>4, <1>6, FreshProxyRequest DEF Done, ProxyRequests
<1> QED BY <1>1, <1>7, <1>8

\* The request is logged, for the first time.
LEMMA LoggedRequest ==
    ASSUME NEW q \in ProxyRequests, q.logs = 0
    PROVE  LET d == Logged(q) IN
           /\ d \in ProxyRequests /\ d.pc = q.pc /\ d.aborted = q.aborted /\ d.outcome = q.outcome
           /\ d.writes = q.writes /\ d.logs = 1 /\ d.kind = q.kind /\ d.active = q.active /\ d.id = q.id
<1>1. Logged(q) = [q EXCEPT !.logs = 1]
  BY DEF Logged
<1> QED BY <1>1 DEF ProxyRequests

\* The response is written, for the first time.
LEMMA AnsweredRequest ==
    ASSUME NEW q \in ProxyRequests, q.writes = 0
    PROVE  LET d == Answered(q) IN
           /\ d \in ProxyRequests /\ d.pc = "done" /\ d.aborted = q.aborted /\ d.outcome = q.outcome
           /\ d.writes = 1 /\ d.logs = q.logs /\ d.active = FALSE
           /\ d.kind = IF q.kind = "ws" THEN "ws" ELSE "none"
<1>1. PICK w : w = [q EXCEPT !.writes = 1]
  OBVIOUS
<1>2. /\ w \in ProxyRequests /\ w.aborted = q.aborted /\ w.outcome = q.outcome /\ w.writes = 1
      /\ w.logs = q.logs /\ w.kind = q.kind
  BY <1>1 DEF ProxyRequests
<1>3. Answered(q) = Done(w)
  BY <1>1 DEF Answered
<1>4. PICK d : d = Done(w)
  OBVIOUS
<1>5. /\ d \in ProxyRequests /\ d.pc = "done" /\ d.aborted = w.aborted /\ d.outcome = w.outcome
      /\ d.writes = w.writes /\ d.logs = w.logs /\ d.active = FALSE
      /\ d.kind = IF w.kind = "ws" THEN "ws" ELSE "none"
  BY <1>2, <1>4, DoneRequest
<1> QED BY <1>2, <1>3, <1>4, <1>5

\* A fresh process.
LEMMA IngressInitHolds == IngressInit => IngressInv
<1> SUFFICES ASSUME IngressInit PROVE IngressInv
  OBVIOUS
<1> USE IngressAssumption, KeysAssumption
<1>1. KeysTypeOK
  BY DEF IngressInit, KeysInit, KeysTypeOK, NoRow, Optional
<1>2. PICK c : c = [entry |-> "absent", open |-> FALSE, policy |-> NoPolicy]
  OBVIOUS
<1>3. c \in WsEntries /\ c.entry = "absent" /\ c.open = FALSE
  BY <1>2, FreshProxyRequest DEF WsEntries
<1>4. NoReservation \in Reservations /\ NoReservation.status = "none"
  BY DEF NoReservation, Reservations
<1>5. /\ req = [r \in Requests |-> NoRequest] /\ sock = [s \in Sockets |-> c]
      /\ rows = [i \in Requests |-> NoReservation] /\ tasks = <<>> /\ loop = Nobody
  BY <1>2 DEF IngressInit
<1>6. IngressTyped
  BY <1>1, <1>3, <1>4, <1>5, FreshProxyRequest DEF IngressTyped
<1>7. StagesOK /\ LoopHolder
  BY <1>5, FreshProxyRequest DEF StagesOK, LoopHolder
<1>8. QueueOK
  BY <1>5 DEF QueueOK
<1>9. ReservationsOwned /\ ReservationMatchesOutcome
  BY <1>4, <1>5, FreshProxyRequest DEF ReservationsOwned, ReservationMatchesOutcome
<1>10. RegistryNamesOpenSockets
  BY <1>3, <1>5 DEF RegistryNamesOpenSockets
<1>11. EnforcedModelIsAllowed
  BY DEF IngressInit, KeysInit, EnforcedModelIsAllowed, Exists, NoRow
<1>12. ExecutorBounded
  <2>1. InHand = {}
    BY <1>5, FreshProxyRequest DEF InHand
  <2> QED BY <1>5, <2>1, FS_EmptySet DEF ExecutorBounded
<1> QED BY <1>6, <1>7, <1>8, <1>9, <1>10, <1>11, <1>12 DEF IngressInv

-----------------------------------------------------------------------------
\* The operations on the key table keep its rows valid.
LEMMA KeysKeep ==
    ASSUME KeysTypeOK, EnforcedModelIsAllowed, NEW k \in KeyIds,
           \/ \E allowed \in SUBSET Models, enforced \in Optional(Models) : CreateApiKey(k, allowed, enforced)
           \/ \E patch \in Patches : UpdateApiKey(k, patch)
           \/ RegenerateApiKey(k) \/ DeleteApiKey(k) \/ KeyExpires(k)
    PROVE  KeysTypeOK' /\ EnforcedModelIsAllowed'
<1> USE KeysAssumption
<1> DEFINE KeyRows == [secret : 0..MaxSecrets, is_active : BOOLEAN, expired : BOOLEAN,
                       allowed : SUBSET Models, enforced : Optional(Models)]
<1>1. apiKeys \in [KeyIds -> KeyRows] /\ issued \in 0..MaxSecrets
  BY DEF KeysTypeOK
<1>2. NoRow \in KeyRows /\ NoRow.secret = 0
  BY DEF NoRow, Optional
<1>3. ASSUME NEW row \in KeyRows, apiKeys' = [apiKeys EXCEPT ![k] = row], issued' \in 0..MaxSecrets,
             row.secret # 0 => ValidateModelEnforcement(row.enforced, row.allowed)
      PROVE  KeysTypeOK' /\ EnforcedModelIsAllowed'
  <2>1. apiKeys' \in [KeyIds -> KeyRows] /\ \A l \in KeyIds : apiKeys'[l] = IF l = k THEN row ELSE apiKeys[l]
    BY <1>1, <1>3
  <2>2. KeysTypeOK'
    BY <1>3, <2>1 DEF KeysTypeOK
  <2>3. EnforcedModelIsAllowed'
    BY <1>3, <2>1 DEF EnforcedModelIsAllowed, Exists
  <2> QED BY <2>2, <2>3
<1> HIDE DEF KeyRows
<1>4. Exists(k) => ValidateModelEnforcement(apiKeys[k].enforced, apiKeys[k].allowed)
  BY DEF EnforcedModelIsAllowed
<1>5. apiKeys[k] \in KeyRows
  BY <1>1
<1>6. ASSUME NEW allowed \in SUBSET Models, NEW enforced \in Optional(Models), CreateApiKey(k, allowed, enforced)
      PROVE  KeysTypeOK' /\ EnforcedModelIsAllowed'
  <2>1. PICK n \in 0..MaxSecrets : n = issued' /\ ValidateModelEnforcement(enforced, allowed)
    <3>1. issued < MaxSecrets /\ issued' = issued + 1 /\ ValidateModelEnforcement(enforced, allowed)
      BY <1>6 DEF CreateApiKey, IssueApiKeyMaterial
    <3>2. issued' \in 0..MaxSecrets
      BY <1>1, <3>1
    <3> QED BY <3>1, <3>2
  <2>2. PICK a : a = [NoRow EXCEPT !.secret = n, !.is_active = TRUE]
    OBVIOUS
  <2>3. a \in KeyRows /\ a.secret = n
    BY <1>2, <2>2 DEF KeyRows
  <2>4. PICK row : row = [a EXCEPT !.allowed = allowed, !.enforced = enforced]
    OBVIOUS
  <2>5. row \in KeyRows /\ row.allowed = allowed /\ row.enforced = enforced
    BY <1>6, <2>3, <2>4 DEF KeyRows
  <2>6. row = [NoRow EXCEPT !.secret = n, !.is_active = TRUE, !.allowed = allowed, !.enforced = enforced]
    BY <1>2, <2>2, <2>4 DEF KeyRows
  <2>7. apiKeys' = [apiKeys EXCEPT ![k] = row]
    BY <1>6, <2>1, <2>6 DEF CreateApiKey, DbCreateApiKey
  <2> QED BY <1>3, <2>1, <2>5, <2>7
<1>7. ASSUME NEW patch \in Patches, UpdateApiKey(k, patch)
      PROVE  KeysTypeOK' /\ EnforcedModelIsAllowed'
  <2>1. PICK old \in KeyRows : old = apiKeys[k]
    BY <1>5
  <2>2. /\ patch.allowed \in SUBSET Models /\ patch.enforced \in Optional(Models) /\ patch.is_active \in BOOLEAN
    BY DEF Patches
  <2>3. PICK al : al = IF "allowed" \in patch.fields THEN patch.allowed ELSE old.allowed
    OBVIOUS
  <2>4. PICK en : en = IF "enforced" \in patch.fields THEN patch.enforced ELSE old.enforced
    OBVIOUS
  <2>5. PICK ac : ac = IF "is_active" \in patch.fields THEN patch.is_active ELSE old.is_active
    OBVIOUS
  <2>6. PICK ex : ex = IF "expires_at" \in patch.fields THEN FALSE ELSE old.expired
    OBVIOUS
  <2>7. al \in SUBSET Models /\ en \in Optional(Models)
    BY <2>1, <2>2, <2>3, <2>4 DEF KeyRows
  <2>8. ac \in BOOLEAN /\ ex \in BOOLEAN
    <3>1. old.is_active \in BOOLEAN /\ old.expired \in BOOLEAN
      BY <2>1 DEF KeyRows
    <3> QED BY <2>2, <2>5, <2>6, <3>1
  <2>9. PICK a : a = [old EXCEPT !.allowed = al, !.enforced = en]
    OBVIOUS
  <2>10. a \in KeyRows /\ a.allowed = al /\ a.enforced = en
    BY <2>1, <2>7, <2>9 DEF KeyRows
  <2>11. PICK row : row = [a EXCEPT !.is_active = ac, !.expired = ex]
    OBVIOUS
  <2>12. row \in KeyRows /\ row.allowed = al /\ row.enforced = en
    BY <2>8, <2>10, <2>11 DEF KeyRows
  <2>13. row = [old EXCEPT !.allowed = al, !.enforced = en, !.is_active = ac, !.expired = ex]
    BY <2>1, <2>9, <2>11 DEF KeyRows
  <2>14. apiKeys' = [apiKeys EXCEPT ![k] = row] /\ issued' = issued
    <3>1. apiKeys' = [apiKeys EXCEPT ![k] = [old EXCEPT
              !.allowed = al, !.enforced = en, !.is_active = ac, !.expired = ex]]
      BY <1>7, <2>1, <2>3, <2>4, <2>5, <2>6 DEF UpdateApiKey, DbUpdateApiKey
    <3>3. issued' = issued
      BY <1>7 DEF UpdateApiKey
    <3> QED BY <2>13, <3>1, <3>3
  <2>15. ValidateModelEnforcement(en, al)
    BY <1>7, <2>1, <2>3, <2>4 DEF UpdateApiKey
  <2> QED BY <1>1, <1>3, <2>12, <2>14, <2>15
<1>8. CASE RegenerateApiKey(k)
  <2>1. PICK n \in 0..MaxSecrets : n = issued' /\ Exists(k) /\ apiKeys' = [apiKeys EXCEPT ![k].secret = n]
    <3>1. /\ issued < MaxSecrets /\ issued' = issued + 1
          /\ Exists(k) /\ apiKeys' = [apiKeys EXCEPT ![k].secret = issued']
      BY <1>8 DEF RegenerateApiKey, IssueApiKeyMaterial, RotateApiKeySecret
    <3>2. issued' \in 0..MaxSecrets
      BY <1>1, <3>1
    <3> QED BY <3>1, <3>2
  <2>2. PICK row : row = [apiKeys[k] EXCEPT !.secret = n]
    OBVIOUS
  <2>3. row \in KeyRows /\ row.enforced = apiKeys[k].enforced /\ row.allowed = apiKeys[k].allowed
    BY <1>5, <2>2 DEF KeyRows
  <2>4. apiKeys' = [apiKeys EXCEPT ![k] = row]
    BY <1>1, <2>1, <2>2
  <2> QED BY <1>3, <1>4, <2>1, <2>3, <2>4
<1>9. CASE DeleteApiKey(k)
  BY <1>1, <1>2, <1>3, <1>9 DEF DeleteApiKey, DbDeleteApiKey
<1>10. CASE KeyExpires(k)
  <2>1. PICK row : row = [apiKeys[k] EXCEPT !.expired = TRUE]
    OBVIOUS
  <2>2. row \in KeyRows /\ row.enforced = apiKeys[k].enforced /\ row.allowed = apiKeys[k].allowed
    BY <1>5, <2>1 DEF KeyRows
  <2>3. apiKeys' = [apiKeys EXCEPT ![k] = row] /\ issued' = issued /\ Exists(k)
    BY <1>1, <1>10, <2>1 DEF KeyExpires
  <2> QED BY <1>1, <1>3, <1>4, <2>2, <2>3
<1> QED BY <1>6, <1>7, <1>8, <1>9, <1>10

-----------------------------------------------------------------------------
\* No step writes to a client that has gone, or a second time.
WriteOK == \A r \in Requests : req'[r].writes > req[r].writes => ~req[r].aborted /\ req[r].writes = 0

\* A request of the table, read from the invariant.
LEMMA RequestAt ==
    ASSUME IngressInv, NEW r \in Requests
    PROVE  /\ req[r] \in ProxyRequests /\ Stage(req[r]) /\ loop \in Requests \cup {Nobody}
           /\ req[r].writes \in 0..1
  BY DEF IngressInv, IngressTyped, StagesOK, ProxyRequests

\* One request moves.
LEMMA OneRequestMoves ==
    ASSUME IngressInv, NEW r \in Requests, NEW h \in ProxyRequests, Stage(h), req' = [req EXCEPT ![r] = h],
           h.writes > req[r].writes => ~req[r].aborted
    PROVE  /\ req' \in [Requests -> ProxyRequests] /\ StagesOK' /\ WriteOK
           /\ \A p \in Requests : req'[p] = IF p = r THEN h ELSE req[p]
<1>1. /\ req' \in [Requests -> ProxyRequests]
      /\ \A p \in Requests : req'[p] = IF p = r THEN h ELSE req[p]
  BY DEF IngressInv, IngressTyped
<1>2. StagesOK'
  BY <1>1 DEF IngressInv, StagesOK
<1>3. WriteOK
  <2>1. \A p \in Requests : req[p].writes \in 0..1
    BY RequestAt
  <2>2. h.writes \in 0..1
    BY DEF ProxyRequests
  <2> QED BY <1>1, <2>1, <2>2 DEF WriteOK
<1> QED BY <1>1, <1>2, <1>3

\* A smaller set of requests is in the hands of the workers.
LEMMA FewerInHand ==
    ASSUME InHand' \subseteq InHand PROVE Cardinality(InHand') <= Cardinality(InHand)
  BY InHandIsFinite, FS_Subset

\* A step of the loop that moves a request between the places where it is in
\* nobody's hands, or only notices that its client has gone.
LEMMA QuietKeeps ==
    ASSUME IngressInv, NEW r \in Requests, NEW h \in ProxyRequests, Stage(h), req' = [req EXCEPT ![r] = h],
           h.writes > req[r].writes => ~req[r].aborted, h.outcome = req[r].outcome, loop = Nobody,
           \/ h.pc = req[r].pc
           \/ req[r].pc \in {"new", "body", "deferred"} /\ h.pc \in {"body", "done"},
           h.pc = "upstream" => h.active = req[r].active /\ h.id = req[r].id,
           sock' \in [Sockets -> WsEntries], RegistryNamesOpenSockets',
           UNCHANGED <<apiKeys, issued, rows, tasks, loop>>
    PROVE  IngressInv' /\ WriteOK
<1>1. /\ req' \in [Requests -> ProxyRequests] /\ StagesOK' /\ WriteOK
      /\ \A p \in Requests : req'[p] = IF p = r THEN h ELSE req[p]
  BY OneRequestMoves
<1>2. IngressTyped'
  BY <1>1 DEF IngressInv, IngressTyped, KeysTypeOK
<1>3. LoopHolder' /\ EnforcedModelIsAllowed'
  BY DEF IngressInv, LoopHolder, EnforcedModelIsAllowed, Exists
<1>4. QueueOK'
  <2>1. \A i \in 1..Len(tasks) : tasks[i] \in Requests
    BY DEF IngressInv, IngressTyped
  <2> QED BY <1>1, <2>1 DEF IngressInv, QueueOK
<1>5. ReservationsOwned'
  BY <1>1 DEF IngressInv, ReservationsOwned
<1>6. ReservationMatchesOutcome'
  BY <1>1 DEF IngressInv, ReservationsOwned, ReservationMatchesOutcome
<1>7. ExecutorBounded'
  <2>1. InHand' \subseteq InHand
    BY <1>1 DEF InHand
  <2>2. Cardinality(InHand') \in Nat
    BY <2>1, InHandIsFinite, FS_Subset, FS_CardinalityType
  <2>3. Len(tasks) \in Nat
    BY DEF IngressInv, IngressTyped
  <2> QED BY <2>1, <2>2, <2>3, FewerInHand, InHandIsFinite, IngressAssumption DEF IngressInv, ExecutorBounded
<1> QED BY <1>1, <1>2, <1>3, <1>4, <1>5, <1>6, <1>7 DEF IngressInv

\* A request enters the executor's queue.
LEMMA EnqueueTaskKeeps ==
    ASSUME IngressInv, NEW r \in Requests, NEW h \in ProxyRequests, Stage(h), req' = [req EXCEPT ![r] = h],
           h.writes = req[r].writes, h.outcome = req[r].outcome, loop = Nobody,
           req[r].pc \in {"new", "body"}, h.pc = "queued",
           Len(tasks) + Cardinality(InHand) < kMaxInFlightTasks, tasks' = Append(tasks, r),
           UNCHANGED <<apiKeys, issued, rows, sock, loop>>
    PROVE  IngressInv' /\ WriteOK
<1>0. ~(h.writes > req[r].writes)
  BY RequestAt
<1>1. /\ req' \in [Requests -> ProxyRequests] /\ StagesOK' /\ WriteOK
      /\ \A p \in Requests : req'[p] = IF p = r THEN h ELSE req[p]
  BY <1>0, OneRequestMoves
<1>2. tasks \in Seq(Requests) /\ \A i \in 1..Len(tasks) : tasks[i] \in Requests
  BY DEF IngressInv, IngressTyped
<1>3. /\ tasks' \in Seq(Requests) /\ Len(tasks) \in Nat /\ Len(tasks') = Len(tasks) + 1
      /\ tasks'[Len(tasks) + 1] = r /\ \A i \in 1..Len(tasks) : tasks'[i] = tasks[i]
  BY <1>2
<1>4. IngressTyped'
  BY <1>1, <1>3 DEF IngressInv, IngressTyped, KeysTypeOK
<1>5. LoopHolder' /\ EnforcedModelIsAllowed' /\ RegistryNamesOpenSockets'
  BY DEF IngressInv, LoopHolder, EnforcedModelIsAllowed, Exists, RegistryNamesOpenSockets
<1>6. QueueOK'
  <2>1. \A i \in 1..Len(tasks) : req[tasks[i]].pc = "queued" /\ tasks[i] # r
    BY DEF IngressInv, QueueOK
  <2>2. \A i \in 1..Len(tasks') : i \in 1..Len(tasks) \/ i = Len(tasks) + 1
    BY <1>3
  <2>3. \A i \in 1..Len(tasks') : req'[tasks'[i]].pc = "queued"
    BY <1>1, <1>2, <1>3, <2>1, <2>2
  <2>4. \A i, j \in 1..Len(tasks') : i # j => tasks'[i] # tasks'[j]
    BY <1>3, <2>1, <2>2 DEF IngressInv, QueueOK
  <2> QED BY <2>3, <2>4 DEF QueueOK
<1>7. ReservationsOwned'
  BY <1>1 DEF IngressInv, ReservationsOwned
<1>8. ReservationMatchesOutcome'
  BY <1>1 DEF IngressInv, ReservationsOwned, ReservationMatchesOutcome
<1>9. ExecutorBounded'
  <2>1. InHand' = InHand
    BY <1>1 DEF InHand
  <2> QED BY <1>3, <2>1, InHandIsFinite, IngressAssumption DEF ExecutorBounded
<1> QED BY <1>1, <1>4, <1>5, <1>6, <1>7, <1>8, <1>9 DEF IngressInv

\* A worker takes the first task.
LEMMA WorkerTakesKeeps == ASSUME IngressInv, WorkerTakesTask PROVE IngressInv' /\ WriteOK
<1>1. /\ tasks \in Seq(Requests) /\ tasks # <<>> /\ tasks' = Tail(tasks)
      /\ req' = [req EXCEPT ![Head(tasks)].pc = "taken"] /\ UNCHANGED <<apiKeys, issued, sock, rows, loop>>
  BY DEF WorkerTakesTask, IngressInv, IngressTyped
<1>2. PICK r \in Requests : r = Head(tasks) /\ r = tasks[1] /\ req[r].pc = "queued"
  <2>1. Head(tasks) = tasks[1] /\ 1 \in 1..Len(tasks) /\ tasks[1] \in Requests
    BY <1>1
  <2> QED BY <2>1 DEF IngressInv, QueueOK
<1>3. PICK h : h = [req[r] EXCEPT !.pc = "taken"]
  OBVIOUS
<1>4. /\ h \in ProxyRequests /\ h.pc = "taken" /\ h.writes = req[r].writes /\ h.logs = req[r].logs
      /\ h.outcome = req[r].outcome /\ h.aborted = req[r].aborted /\ h.kind = req[r].kind /\ h.id = req[r].id
  BY <1>3, RequestAt DEF ProxyRequests, Places
<1>5. Stage(h) /\ ~(h.writes > req[r].writes)
  BY <1>2, <1>4, RequestAt DEF Stage
<1>6. req' = [req EXCEPT ![r] = h]
  BY <1>1, <1>2, <1>3 DEF IngressInv, IngressTyped
<1>7. /\ req' \in [Requests -> ProxyRequests] /\ StagesOK' /\ WriteOK
      /\ \A p \in Requests : req'[p] = IF p = r THEN h ELSE req[p]
  BY <1>4, <1>5, <1>6, OneRequestMoves
<1>8. /\ tasks' \in Seq(Requests) /\ Len(tasks) \in Nat \ {0} /\ Len(tasks') = Len(tasks) - 1
      /\ \A i \in 1..Len(tasks') : tasks'[i] = tasks[i + 1] /\ i + 1 \in 1..Len(tasks)
  BY <1>1
<1>9. IngressTyped'
  BY <1>1, <1>7, <1>8 DEF IngressInv, IngressTyped, KeysTypeOK
<1>10. LoopHolder'
  BY <1>1, <1>2, <1>7, RequestAt DEF IngressInv, LoopHolder
<1>11. EnforcedModelIsAllowed' /\ RegistryNamesOpenSockets'
  BY <1>1 DEF IngressInv, EnforcedModelIsAllowed, Exists, RegistryNamesOpenSockets
<1>12. QueueOK'
  <2>1. \A i \in 1..Len(tasks') : tasks'[i] # r /\ tasks'[i] \in Requests /\ req[tasks'[i]].pc = "queued"
    <3>1. \A i \in 1..Len(tasks') : tasks[i + 1] # tasks[1] /\ tasks[i + 1] \in Requests
                                    /\ req[tasks[i + 1]].pc = "queued"
      <4>1. 1 \in 1..Len(tasks)
        BY <1>8
      <4>2. \A i \in 1..Len(tasks') : i + 1 # 1
        BY <1>8
      <4> QED BY <1>1, <1>8, <4>1, <4>2 DEF IngressInv, QueueOK
    <3> QED BY <1>2, <1>8, <3>1
  <2>2. \A i, j \in 1..Len(tasks') : i # j => tasks'[i] # tasks'[j]
    <3>1. \A i, j \in 1..Len(tasks') : i # j => i + 1 # j + 1
      BY <1>8
    <3> QED BY <1>8, <3>1 DEF IngressInv, QueueOK
  <2> QED BY <1>7, <2>1, <2>2 DEF QueueOK
<1>13. ReservationsOwned'
  BY <1>1, <1>4, <1>7 DEF IngressInv, ReservationsOwned
<1>14. ReservationMatchesOutcome'
  BY <1>1, <1>4, <1>7 DEF IngressInv, ReservationsOwned, ReservationMatchesOutcome
<1>15. ExecutorBounded'
  <2>1. InHand' \subseteq InHand \cup {r}
    BY <1>1, <1>7 DEF InHand
  <2>2. r \notin InHand
    BY <1>2 DEF InHand
  <2>3. IsFiniteSet(InHand \cup {r}) /\ Cardinality(InHand \cup {r}) = Cardinality(InHand) + 1
    BY <2>2, InHandIsFinite, FS_AddElement
  <2>4. Cardinality(InHand') <= Cardinality(InHand) + 1 /\ IsFiniteSet(InHand')
    BY <2>1, <2>3, FS_Subset
  <2>5. Cardinality(InHand') \in Nat
    BY <2>4, FS_CardinalityType
  <2> QED BY <1>8, <2>4, <2>5, InHandIsFinite, IngressAssumption DEF IngressInv, ExecutorBounded
<1> QED BY <1>7, <1>9, <1>10, <1>11, <1>12, <1>13, <1>14, <1>15 DEF IngressInv

\* The usage is reserved, by a worker or by the handler that keeps the loop.
LEMMA ReserveKeeps ==
    ASSUME IngressInv, NEW r \in Requests, Reserve(r), UNCHANGED <<apiKeys, issued, sock, tasks>>,
           \/ req[r].pc = "taken" /\ loop' = loop
           \/ req[r].pc = "body" /\ loop = Nobody /\ loop' = r
    PROVE  IngressInv' /\ WriteOK
<1> USE IngressAssumption
<1>1. PICK q \in ProxyRequests : q = req[r] /\ Stage(q) /\ q.id \in Requests /\ q.pc \in {"taken", "body"}
  BY RequestAt DEF Stage
<1>2. PICK act \in BOOLEAN : act = Reserves(r)
  <2>1. Reserves(r) \in BOOLEAN
    BY DEF Reserves
  <2> QED BY <2>1
<1>3. PICK h : h = [q EXCEPT !.active = act, !.pc = "upstream"]
  OBVIOUS
<1>4. /\ h \in ProxyRequests /\ h.pc = "upstream" /\ h.writes = q.writes /\ h.logs = q.logs
      /\ h.outcome = q.outcome /\ h.aborted = q.aborted /\ h.kind = q.kind /\ h.id = q.id /\ h.active = act
  BY <1>1, <1>2, <1>3 DEF ProxyRequests, Places
<1>5. Stage(h) /\ ~(h.writes > req[r].writes)
  BY <1>1, <1>4, RequestAt DEF Stage
<1>6. req' = [req EXCEPT ![r] = h]
  BY <1>1, <1>2, <1>3 DEF Reserve, IngressInv, IngressTyped
<1>7. /\ req' \in [Requests -> ProxyRequests] /\ StagesOK' /\ WriteOK
      /\ \A p \in Requests : req'[p] = IF p = r THEN h ELSE req[p]
  BY <1>4, <1>5, <1>6, OneRequestMoves
<1>8. PICK n : n = [status |-> "reserved", owner |-> r]
  OBVIOUS
<1>9. n \in Reservations /\ n.status = "reserved" /\ n.owner = r
  BY <1>8 DEF Reservations
<1>10. /\ rows' \in [Requests -> Reservations]
       /\ \A i \in Requests : rows'[i] = IF act /\ i = q.id THEN n ELSE rows[i]
       /\ act => rows[q.id].status = "none"
  <2>1. rows' = IF act THEN [rows EXCEPT ![q.id] = n] ELSE rows
    BY <1>1, <1>2, <1>8 DEF Reserve
  <2>2. act => rows[q.id].status = "none"
    BY <1>1, <1>2 DEF Reserves
  <2> QED BY <1>1, <1>9, <2>1, <2>2 DEF IngressInv, IngressTyped
<1>11. IngressTyped'
  BY <1>7, <1>10 DEF IngressInv, IngressTyped, KeysTypeOK
<1>12. LoopHolder'
  BY <1>1, <1>4, <1>7, RequestAt DEF IngressInv, LoopHolder, Stage
<1>13. EnforcedModelIsAllowed' /\ RegistryNamesOpenSockets'
  BY DEF IngressInv, EnforcedModelIsAllowed, Exists, RegistryNamesOpenSockets
<1>14. QueueOK'
  <2>1. \A i \in 1..Len(tasks) : tasks[i] \in Requests /\ tasks[i] # r
    BY <1>1 DEF IngressInv, IngressTyped, QueueOK
  <2> QED BY <1>7, <2>1 DEF IngressInv, QueueOK
<1>15. ReservationsOwned'
  <2>1. \A i \in Requests : rows'[i].status \in {"settled", "released"} => rows'[i].owner \in Requests
    BY <1>9, <1>10 DEF IngressInv, ReservationsOwned
  <2>2. ASSUME NEW p \in Requests, req'[p].pc = "upstream", req'[p].active
        PROVE  rows'[req'[p].id].status = "reserved" /\ rows'[req'[p].id].owner = p
    <3>1. CASE p = r
      BY <1>1, <1>4, <1>7, <1>9, <1>10, <2>2, <3>1
    <3>2. CASE p # r
      <4>1. req'[p] = req[p] /\ req[p].id \in Requests
        BY <1>7, <2>2, <3>2, RequestAt DEF Stage
      <4>2. rows[req[p].id].status = "reserved" /\ rows[req[p].id].owner = p
        BY <2>2, <4>1 DEF IngressInv, ReservationsOwned
      <4> QED BY <1>10, <4>1, <4>2
    <3> QED BY <3>1, <3>2
  <2> QED BY <2>1, <2>2 DEF ReservationsOwned
<1>16. ReservationMatchesOutcome'
  <2>1. \A p \in Requests : req'[p].outcome = req[p].outcome
    BY <1>1, <1>4, <1>7
  <2> QED BY <1>9, <1>10, <2>1 DEF IngressInv, ReservationsOwned, ReservationMatchesOutcome
<1>17. ExecutorBounded'
  <2>1. InHand' \subseteq InHand
    BY <1>1, <1>4, <1>7 DEF InHand, IngressInv, LoopHolder
  <2>2. Cardinality(InHand') \in Nat
    BY <2>1, InHandIsFinite, FS_Subset, FS_CardinalityType
  <2>3. Len(tasks) \in Nat
    BY DEF IngressInv, IngressTyped
  <2> QED BY <2>1, <2>2, <2>3, FewerInHand, InHandIsFinite DEF IngressInv, ExecutorBounded
<1> QED BY <1>7, <1>11, <1>12, <1>13, <1>14, <1>15, <1>16, <1>17 DEF IngressInv

\* The upstream has answered: the reservation is settled as the request ended.
LEMMA SettleKeeps ==
    ASSUME IngressInv, NEW r \in Requests, NEW ok \in BOOLEAN, Settle(r, ok), req[r].pc = "upstream",
           NEW h \in ProxyRequests, Stage(h), req' = [req EXCEPT ![r] = h], h.pc \in {"deferred", "done"},
           h.writes > req[r].writes => ~req[r].aborted, h.outcome = IF ok THEN "ok" ELSE "failed",
           UNCHANGED <<apiKeys, issued, sock, tasks>>,
           (loop = r /\ loop' = Nobody) \/ (loop # r /\ loop' = loop)
    PROVE  IngressInv' /\ WriteOK
<1> USE IngressAssumption
<1>1. PICK q \in ProxyRequests : q = req[r] /\ Stage(q) /\ q.id \in Requests /\ q.outcome = "none"
  BY RequestAt DEF Stage
<1>2. /\ req' \in [Requests -> ProxyRequests] /\ StagesOK' /\ WriteOK
      /\ \A p \in Requests : req'[p] = IF p = r THEN h ELSE req[p]
  BY OneRequestMoves
<1>3. PICK st \in {"settled", "released"} : st = IF ok THEN "settled" ELSE "released"
  OBVIOUS
<1>4. q.active => rows[q.id].status = "reserved" /\ rows[q.id].owner = r
  BY <1>1 DEF IngressInv, ReservationsOwned
<1>5. PICK n : n = [rows[q.id] EXCEPT !.status = st]
  OBVIOUS
<1>6. n \in Reservations /\ n.status = st /\ n.owner = rows[q.id].owner
  BY <1>1, <1>3, <1>5 DEF IngressInv, IngressTyped, Reservations
<1>7. /\ rows' \in [Requests -> Reservations]
      /\ \A i \in Requests : rows'[i] = IF q.active /\ i = q.id THEN n ELSE rows[i]
  <2>1. rows' = IF q.active THEN [rows EXCEPT ![q.id] = n] ELSE rows
    <3>1. CASE q.active
      BY <1>1, <1>3, <1>4, <1>5, <3>1 DEF Settle, IngressInv, IngressTyped
    <3>2. CASE ~q.active
      BY <1>1, <3>2 DEF Settle
    <3> QED BY <3>1, <3>2
  <2> QED BY <1>1, <1>6, <2>1 DEF IngressInv, IngressTyped
<1>8. IngressTyped'
  BY <1>2, <1>7 DEF IngressInv, IngressTyped, KeysTypeOK
<1>9. LoopHolder'
  BY <1>2, RequestAt DEF IngressInv, LoopHolder
<1>10. EnforcedModelIsAllowed' /\ RegistryNamesOpenSockets'
  BY DEF IngressInv, EnforcedModelIsAllowed, Exists, RegistryNamesOpenSockets
<1>11. QueueOK'
  <2>1. \A i \in 1..Len(tasks) : tasks[i] \in Requests /\ tasks[i] # r
    BY <1>1 DEF IngressInv, IngressTyped, QueueOK
  <2> QED BY <1>2, <2>1 DEF IngressInv, QueueOK
<1>12. ReservationsOwned'
  <2>1. \A i \in Requests : rows'[i].status \in {"settled", "released"} => rows'[i].owner \in Requests
    BY <1>4, <1>6, <1>7 DEF IngressInv, ReservationsOwned
  <2>2. ASSUME NEW p \in Requests, req'[p].pc = "upstream", req'[p].active
        PROVE  rows'[req'[p].id].status = "reserved" /\ rows'[req'[p].id].owner = p
    <3>1. p # r
      BY <1>2, <2>2
    <3>2. req'[p] = req[p] /\ req[p].id \in Requests
      BY <1>2, <2>2, <3>1, RequestAt DEF Stage
    <3>3. rows[req[p].id].status = "reserved" /\ rows[req[p].id].owner = p
      BY <2>2, <3>2 DEF IngressInv, ReservationsOwned
    <3> QED BY <1>4, <1>7, <3>1, <3>2, <3>3
  <2> QED BY <2>1, <2>2 DEF ReservationsOwned
<1>13. ReservationMatchesOutcome'
  <2> SUFFICES ASSUME NEW i \in Requests
               PROVE  /\ rows'[i].status = "settled" => req'[rows'[i].owner].outcome = "ok"
                      /\ rows'[i].status = "released" => req'[rows'[i].owner].outcome = "failed"
    BY DEF ReservationMatchesOutcome
  <2>1. CASE q.active /\ i = q.id
    BY <1>2, <1>3, <1>4, <1>6, <1>7, <2>1
  <2>2. CASE ~(q.active /\ i = q.id)
    <3>1. rows'[i] = rows[i]
      BY <1>7, <2>2
    <3>2. rows[i].status \in {"settled", "released"} => rows[i].owner \in Requests /\ rows[i].owner # r
      BY <1>1 DEF IngressInv, ReservationsOwned, ReservationMatchesOutcome
    <3> QED BY <1>2, <3>1, <3>2 DEF IngressInv, ReservationMatchesOutcome
  <2> QED BY <2>1, <2>2
<1>14. ExecutorBounded'
  <2>1. InHand' \subseteq InHand
    BY <1>2 DEF InHand
  <2>2. Cardinality(InHand') \in Nat
    BY <2>1, InHandIsFinite, FS_Subset, FS_CardinalityType
  <2>3. Len(tasks) \in Nat
    BY DEF IngressInv, IngressTyped
  <2> QED BY <2>1, <2>2, <2>3, FewerInHand, InHandIsFinite DEF IngressInv, ExecutorBounded
<1> QED BY <1>2, <1>8, <1>9, <1>10, <1>11, <1>12, <1>13, <1>14 DEF IngressInv

-----------------------------------------------------------------------------
\* The policy of a key is one of the policies, whatever the settings say.
LEMMA ResolvedPolicy ==
    ASSUME KeysTypeOK, NEW auth \in BOOLEAN, NEW secret
    PROVE  ResolveApiKeyModelPolicy(auth, secret) \in Policies
<1>1. CASE ~(auth /\ ValidateProxyApiKey(auth, secret))
  BY <1>1, FreshProxyRequest DEF ResolveApiKeyModelPolicy
<1>2. CASE auth /\ ValidateProxyApiKey(auth, secret)
  <2>1. KeyOf(secret) # {}
    BY <1>2 DEF ValidateProxyApiKey
  <2>2. PICK k : k = CHOOSE l \in KeyOf(secret) : TRUE
    OBVIOUS
  <2>3. k \in KeyIds
    BY <2>1, <2>2 DEF KeyOf
  <2>4. apiKeys[k].allowed \in SUBSET Models /\ apiKeys[k].enforced \in Optional(Models)
    BY <2>3 DEF KeysTypeOK
  <2>5. ResolveApiKeyModelPolicy(auth, secret)
          = [key |-> k, allowed |-> apiKeys[k].allowed, enforced |-> apiKeys[k].enforced]
    BY <1>2, <2>2 DEF ResolveApiKeyModelPolicy
  <2> QED BY <2>3, <2>4, <2>5 DEF Policies
<1> QED BY <1>1, <1>2

\* What a request becomes when it is answered and over without an upstream.
LEMMA AnsweredAtOnce ==
    ASSUME NEW q \in ProxyRequests, Stage(q), q.writes = 0, q.logs = 0, q.outcome = "none", ~q.aborted
    PROVE  /\ Answered(q) \in ProxyRequests /\ Stage(Answered(q)) /\ Answered(q).pc = "done"
           /\ Answered(q).outcome = "none"
           /\ Answered(Logged(q)) \in ProxyRequests /\ Stage(Answered(Logged(q)))
           /\ Answered(Logged(q)).pc = "done" /\ Answered(Logged(q)).outcome = "none"
<1>1. PICK a : a = Answered(q)
  OBVIOUS
<1>2. a \in ProxyRequests /\ a.pc = "done" /\ a.aborted = q.aborted /\ a.outcome = q.outcome /\ a.logs = q.logs
  BY <1>1, AnsweredRequest
<1>3. Stage(a)
  BY <1>2 DEF Stage
<1>4. PICK l \in ProxyRequests : l = Logged(q) /\ l.writes = 0 /\ l.aborted = q.aborted /\ l.outcome = q.outcome
  BY LoggedRequest
<1>5. PICK b : b = Answered(l)
  OBVIOUS
<1>6. b \in ProxyRequests /\ b.pc = "done" /\ b.aborted = l.aborted /\ b.outcome = l.outcome
  BY <1>4, <1>5, AnsweredRequest
<1>7. Stage(b)
  BY <1>4, <1>6 DEF Stage
<1> QED BY <1>1, <1>2, <1>3, <1>4, <1>5, <1>6, <1>7

\* The connections stay as they are.
LEMMA SocketsStay ==
    ASSUME IngressInv, sock' = sock PROVE sock' \in [Sockets -> WsEntries] /\ RegistryNamesOpenSockets'
  BY DEF IngressInv, IngressTyped, RegistryNamesOpenSockets

\* A connection is replaced by one whose entry is there exactly while it is open.
LEMMA SocketMoves ==
    ASSUME IngressInv, NEW s \in Sockets, NEW c \in WsEntries, c.entry = "open" <=> c.open,
           sock' = [sock EXCEPT ![s] = c]
    PROVE  sock' \in [Sockets -> WsEntries] /\ RegistryNamesOpenSockets'
<1>1. /\ sock' \in [Sockets -> WsEntries]
      /\ \A t \in Sockets : sock'[t] = IF t = s THEN c ELSE sock[t]
  BY DEF IngressInv, IngressTyped
<1> QED BY <1>1 DEF IngressInv, RegistryNamesOpenSockets

\* A connection is taken from the registry.
LEMMA SocketCloses ==
    ASSUME IngressInv, NEW s \in Sockets,
           sock' = [sock EXCEPT ![s] = Unregistered(@)] \/ sock' = [sock EXCEPT ![s] = UnregisteredByCallback(@)]
    PROVE  sock' \in [Sockets -> WsEntries] /\ RegistryNamesOpenSockets'
<1>1. PICK c \in WsEntries : c = sock[s]
  BY DEF IngressInv, IngressTyped
<1>2. PICK a : a = Unregistered(c)
  OBVIOUS
<1>3. PICK b : b = UnregisteredByCallback(c)
  OBVIOUS
<1>4. a \in WsEntries /\ a.entry = "absent" /\ a.open = FALSE
  BY <1>1, <1>2 DEF Unregistered, WsEntries
<1>5. b \in WsEntries /\ b.entry = "stale" /\ b.open = FALSE
  BY <1>1, <1>3 DEF UnregisteredByCallback, WsEntries
<1>6. sock' = [sock EXCEPT ![s] = a] \/ sock' = [sock EXCEPT ![s] = b]
  BY <1>1, <1>2, <1>3
<1> QED BY <1>4, <1>5, <1>6, SocketMoves

-----------------------------------------------------------------------------
\* A request arrives: it is refused, answered, or waits for its body.
LEMMA RequestArrivesKeeps ==
    ASSUME IngressInv, NEW r \in Requests, NEW kind \in Kinds, NEW id \in RequestIds, NEW set \in SettingsRead,
           NEW secret, RequestArrives(r, kind, id, set, secret)
    PROVE  IngressInv' /\ WriteOK
<1>1. PICK p \in Policies : p = ResolveApiKeyModelPolicy(set.auth, secret)
  <2>1. set.auth \in BOOLEAN
    BY DEF SettingsRead
  <2> QED BY <2>1, ResolvedPolicy DEF IngressInv, IngressTyped
<1>2. PICK o \in ProxyRequests : o = req[r] /\ Stage(o) /\ o.pc = "new"
  BY RequestAt DEF RequestArrives
<1>3. o.writes = 0 /\ o.logs = 0 /\ o.outcome = "none" /\ ~o.aborted
  BY <1>2 DEF Stage
<1>4. PICK a : a = [o EXCEPT !.kind = kind, !.id = id]
  OBVIOUS
<1>5. /\ a \in ProxyRequests /\ a.pc = "new" /\ a.writes = 0 /\ a.logs = 0 /\ a.outcome = "none"
      /\ a.aborted = o.aborted /\ a.id = id
  BY <1>2, <1>3, <1>4 DEF ProxyRequests, RequestIds
<1>6. PICK q : q = [a EXCEPT !.policy = p]
  OBVIOUS
<1>7. /\ q \in ProxyRequests /\ q.pc = "new" /\ q.writes = 0 /\ q.logs = 0 /\ q.outcome = "none"
      /\ q.aborted = a.aborted /\ q.id = id
  BY <1>5, <1>6 DEF ProxyRequests
<1>8. q = [req[r] EXCEPT !.kind = kind, !.id = id, !.policy = ResolveApiKeyModelPolicy(set.auth, secret)]
  BY <1>1, <1>2, <1>4, <1>6 DEF ProxyRequests
<1>9. PICK w : w = [q EXCEPT !.pc = "body"]
  OBVIOUS
<1>10. /\ w \in ProxyRequests /\ w.pc = "body" /\ w.writes = 0 /\ w.logs = 0 /\ w.outcome = "none"
       /\ w.aborted = q.aborted /\ w.id = id
  BY <1>7, <1>9 DEF ProxyRequests, Places
<1>11. Stage(q) /\ Stage(w)
  BY <1>3, <1>5, <1>7, <1>10 DEF Stage, RequestIds
<1>12. \E h \in {Answered(q), Answered(Logged(q)), w} : req' = [req EXCEPT ![r] = h]
  BY <1>8, <1>9 DEF RequestArrives
<1>13. PICK h \in ProxyRequests : /\ Stage(h) /\ h.pc \in {"body", "done"} /\ h.outcome = "none"
                                 /\ req' = [req EXCEPT ![r] = h]
  <2>1. ~q.aborted
    BY <1>3, <1>5, <1>7
  <2>2. CASE req' = [req EXCEPT ![r] = w]
    BY <1>10, <1>11, <2>2
  <2>3. CASE req' = [req EXCEPT ![r] = Answered(q)] \/ req' = [req EXCEPT ![r] = Answered(Logged(q))]
    <3>1. /\ Answered(q) \in ProxyRequests /\ Stage(Answered(q)) /\ Answered(q).pc = "done"
          /\ Answered(q).outcome = "none"
          /\ Answered(Logged(q)) \in ProxyRequests /\ Stage(Answered(Logged(q)))
          /\ Answered(Logged(q)).pc = "done" /\ Answered(Logged(q)).outcome = "none"
      BY <1>7, <1>11, <2>1, AnsweredAtOnce
    <3> QED BY <2>3, <3>1
  <2> QED BY <1>12, <2>2, <2>3
<1>14. loop = Nobody /\ UNCHANGED <<apiKeys, issued, sock, rows, tasks, loop>>
  BY DEF RequestArrives
<1> QED BY <1>2, <1>3, <1>13, <1>14, SocketsStay, QuietKeeps

\* The client of a request is noticed to have gone.
LEMMA ClientAbortsKeeps ==
    ASSUME IngressInv, NEW r \in Requests, ClientAborts(r) PROVE IngressInv' /\ WriteOK
<1>1. PICK o \in ProxyRequests : o = req[r] /\ Stage(o) /\ o.kind \in Kinds /\ o.pc \notin {"new", "done"}
  BY RequestAt DEF ClientAborts
<1>2. PICK q : q = [o EXCEPT !.aborted = TRUE]
  OBVIOUS
<1>3. /\ q \in ProxyRequests /\ q.pc = o.pc /\ q.writes = o.writes /\ q.logs = o.logs /\ q.outcome = o.outcome
      /\ q.id = o.id /\ q.active = o.active /\ q.kind = o.kind
  BY <1>1, <1>2 DEF ProxyRequests
<1>4. PICK d : d = Done(q)
  OBVIOUS
<1>5. /\ d \in ProxyRequests /\ d.pc = "done" /\ d.outcome = q.outcome /\ d.writes = q.writes /\ d.logs = q.logs
      /\ d.kind = IF q.kind = "ws" THEN "ws" ELSE "none"
  BY <1>3, <1>4, DoneRequest
<1>6. o.kind # "ws"
  BY <1>1 DEF Kinds
<1>7. Stage(d)
  BY <1>1, <1>3, <1>5, <1>6 DEF Stage
<1>8. q.pc # "body" => Stage(q)
  BY <1>1, <1>3, <1>6 DEF Stage
<1>9. req' = [req EXCEPT ![r] = IF q.pc = "body" THEN d ELSE q]
  BY <1>1, <1>2, <1>4 DEF ClientAborts
<1>10. /\ loop = Nobody /\ UNCHANGED <<apiKeys, issued, sock, rows, tasks, loop>>
       /\ sock' \in [Sockets -> WsEntries] /\ RegistryNamesOpenSockets' /\ req[r].writes \in 0..1
  BY SocketsStay, RequestAt DEF ClientAborts
<1>11. CASE q.pc = "body"
  <2>1. req' = [req EXCEPT ![r] = d]
    BY <1>9, <1>11
  <2>2. ~(d.writes > req[r].writes) /\ d.outcome = req[r].outcome /\ req[r].pc = "body"
    BY <1>1, <1>3, <1>5, <1>10, <1>11
  <2> QED BY <1>5, <1>7, <1>10, <2>1, <2>2, QuietKeeps
<1>12. CASE q.pc # "body"
  <2>1. req' = [req EXCEPT ![r] = q]
    BY <1>9, <1>12
  <2>2. /\ ~(q.writes > req[r].writes) /\ q.outcome = req[r].outcome /\ q.pc = req[r].pc
        /\ q.active = req[r].active /\ q.id = req[r].id
    BY <1>1, <1>3, <1>10
  <2> QED BY <1>3, <1>8, <1>10, <1>12, <2>1, <2>2, QuietKeeps
<1> QED BY <1>11, <1>12

\* The body is refused, or the policy of the key refuses the model.
LEMMA RefusalKeeps ==
    ASSUME IngressInv, NEW r \in Requests, loop = Nobody, req[r].pc = "body",
           req' = [req EXCEPT ![r] = Answered(@)] \/ req' = [req EXCEPT ![r] = Answered(Logged(@))],
           UNCHANGED <<apiKeys, issued, sock, rows, tasks, loop>>
    PROVE  IngressInv' /\ WriteOK
<1>1. PICK q \in ProxyRequests : q = req[r] /\ Stage(q) /\ q.pc = "body"
  BY RequestAt
<1>2. q.writes = 0 /\ q.logs = 0 /\ q.outcome = "none" /\ ~q.aborted
  BY <1>1 DEF Stage
<1>3. PICK h \in ProxyRequests : Stage(h) /\ h.pc = "done" /\ h.outcome = "none" /\ req' = [req EXCEPT ![r] = h]
  BY <1>1, <1>2, AnsweredAtOnce
<1> QED BY <1>1, <1>2, <1>3, SocketsStay, QuietKeeps

\* The body of /responses: the request is queued, or answered 503.
LEMMA ResponsesBodyKeeps ==
    ASSUME IngressInv, NEW r \in Requests, NEW model, NEW accepts \in BOOLEAN, ResponsesBody(r, model, accepts)
    PROVE  IngressInv' /\ WriteOK
<1>1. PICK q \in ProxyRequests : q = req[r] /\ Stage(q) /\ q.pc = "body"
  BY RequestAt DEF ResponsesBody
<1>2. loop = Nobody /\ UNCHANGED <<apiKeys, issued, sock, rows, loop>>
  BY DEF ResponsesBody
<1>3. CASE MayEnqueueTask(accepts)
  <2>1. PICK h : h = [q EXCEPT !.pc = "queued"]
    OBVIOUS
  <2>2. /\ h \in ProxyRequests /\ h.pc = "queued" /\ h.writes = q.writes /\ h.logs = q.logs
        /\ h.outcome = q.outcome /\ h.id = q.id /\ h.aborted = q.aborted
    BY <1>1, <2>1 DEF ProxyRequests, Places
  <2>3. Stage(h)
    BY <1>1, <2>2 DEF Stage
  <2>4. req' = [req EXCEPT ![r] = h] /\ tasks' = Append(tasks, r)
    BY <1>1, <1>3, <2>1 DEF ResponsesBody, IngressInv, IngressTyped
  <2>5. Len(tasks) + Cardinality(InHand) < kMaxInFlightTasks
    BY <1>3 DEF MayEnqueueTask
  <2> QED BY <1>1, <1>2, <2>2, <2>3, <2>4, <2>5, EnqueueTaskKeeps
<1>4. CASE ~MayEnqueueTask(accepts)
  <2>1. req' = [req EXCEPT ![r] = Answered(Logged(@))] /\ tasks' = tasks
    BY <1>4 DEF ResponsesBody
  <2> QED BY <1>1, <1>2, <2>1, RefusalKeeps
<1> QED BY <1>3, <1>4

\* The upstream's answer to a handler that kept the loop.
LEMMA SyncFinishKeeps ==
    ASSUME IngressInv, NEW r \in Requests, NEW ok \in BOOLEAN, SyncFinish(r, ok)
    PROVE  IngressInv' /\ WriteOK
<1>1. PICK q \in ProxyRequests : q = req[r] /\ Stage(q) /\ q.pc = "upstream" /\ ~q.aborted
  <2>1. loop = r /\ req[r].pc = "upstream" /\ loop # Nobody
    BY IngressAssumption DEF SyncFinish
  <2> QED BY <2>1, RequestAt DEF IngressInv, LoopHolder
<1>2. q.writes = 0 /\ q.logs = 0
  BY <1>1 DEF Stage
<1>3. PICK res \in {"ok", "failed"} : res = IF ok THEN "ok" ELSE "failed"
  OBVIOUS
<1>4. PICK a : a = [q EXCEPT !.outcome = res]
  OBVIOUS
<1>5. a \in ProxyRequests /\ a.outcome = res /\ a.writes = 0 /\ a.logs = 0 /\ a.aborted = q.aborted
  BY <1>1, <1>2, <1>3, <1>4 DEF ProxyRequests
<1>6. PICK l \in ProxyRequests :
        l = Logged(a) /\ l.outcome = res /\ l.writes = 0 /\ l.logs = 1 /\ l.aborted = q.aborted
  BY <1>5, LoggedRequest
<1>7. PICK h : h = Answered(l)
  OBVIOUS
<1>8. h \in ProxyRequests /\ h.pc = "done" /\ h.outcome = res /\ h.logs = 1 /\ h.aborted = q.aborted
  BY <1>6, <1>7, AnsweredRequest
<1>9. Stage(h)
  BY <1>1, <1>8 DEF Stage
<1>10. req' = [req EXCEPT ![r] = h]
  <2>1. h = Answered(Logged([req[r] EXCEPT !.outcome = IF ok THEN "ok" ELSE "failed"]))
    BY <1>1, <1>3, <1>4, <1>6, <1>7
  <2> QED BY <2>1 DEF SyncFinish
<1>11. /\ Settle(r, ok) /\ UNCHANGED <<apiKeys, issued, sock, tasks>> /\ req[r].pc = "upstream"
       /\ loop = r /\ loop' = Nobody
  BY DEF SyncFinish
<1>12. h.outcome = IF ok THEN "ok" ELSE "failed"
  BY <1>3, <1>8
<1>13. h.writes > req[r].writes => ~req[r].aborted
  BY <1>1
<1>14. h.pc \in {"deferred", "done"}
  BY <1>8
<1>15. (loop = r /\ loop' = Nobody) \/ (loop # r /\ loop' = loop)
  BY <1>11
<1> QED BY <1>8, <1>9, <1>10, <1>11, <1>12, <1>13, <1>14, <1>15, SettleKeeps

\* The upstream's answer to a worker, which leaves the answer to the loop.
LEMMA WorkerFinishesKeeps ==
    ASSUME IngressInv, NEW r \in Requests, NEW ok \in BOOLEAN, WorkerFinishes(r, ok)
    PROVE  IngressInv' /\ WriteOK
<1>1. PICK q \in ProxyRequests : q = req[r] /\ Stage(q) /\ q.pc = "upstream"
  BY RequestAt DEF WorkerFinishes
<1>2. q.writes = 0 /\ q.logs = 0
  BY <1>1 DEF Stage
<1>3. PICK res \in {"ok", "failed"} : res = IF ok THEN "ok" ELSE "failed"
  OBVIOUS
<1>4. PICK l \in ProxyRequests :
        l = Logged(q) /\ l.writes = 0 /\ l.logs = 1 /\ l.aborted = q.aborted /\ l.kind = q.kind
  BY <1>1, <1>2, LoggedRequest
<1>5. PICK h : h = [l EXCEPT !.pc = "deferred", !.outcome = res]
  OBVIOUS
<1>6. /\ h \in ProxyRequests /\ h.pc = "deferred" /\ h.outcome = res /\ h.writes = 0 /\ h.logs = 1
      /\ h.aborted = q.aborted /\ h.kind = q.kind
  <2>1. PICK d : d = [l EXCEPT !.pc = "deferred"]
    OBVIOUS
  <2>2. /\ d \in ProxyRequests /\ d.pc = "deferred" /\ d.writes = l.writes /\ d.logs = l.logs
        /\ d.aborted = l.aborted /\ d.kind = l.kind
    BY <2>1 DEF ProxyRequests, Places
  <2>3. PICK e : e = [d EXCEPT !.outcome = res]
    OBVIOUS
  <2>4. /\ e \in ProxyRequests /\ e.pc = "deferred" /\ e.outcome = res /\ e.writes = l.writes
        /\ e.logs = l.logs /\ e.aborted = l.aborted /\ e.kind = l.kind
    BY <1>3, <2>2, <2>3 DEF ProxyRequests
  <2>5. e = h
    BY <1>5, <2>1, <2>3 DEF ProxyRequests
  <2> QED BY <1>4, <2>4, <2>5
<1>7. Stage(h)
  BY <1>1, <1>6 DEF Stage
<1>8. req' = [req EXCEPT ![r] = h]
  <2>1. h = [Logged(req[r]) EXCEPT !.pc = "deferred", !.outcome = IF ok THEN "ok" ELSE "failed"]
    BY <1>1, <1>3, <1>4, <1>5
  <2> QED BY <2>1 DEF WorkerFinishes
<1>9. /\ Settle(r, ok) /\ loop # r /\ loop' = loop /\ UNCHANGED <<apiKeys, issued, sock, tasks>>
      /\ req[r].pc = "upstream" /\ ~(h.writes > req[r].writes)
  BY <1>1, <1>2, <1>6 DEF WorkerFinishes
<1> QED BY <1>3, <1>6, <1>7, <1>8, <1>9, SettleKeeps

\* The callback that answers a deferred request, unless its client has gone.
LEMMA DeferredAnswerKeeps ==
    ASSUME IngressInv, NEW r \in Requests, loop = Nobody, req[r].pc = "deferred", NEW gone \in BOOLEAN,
           ~gone => ~req[r].aborted,
           req' = [req EXCEPT ![r] = IF gone THEN Done(@) ELSE Answered(@)],
           sock' \in [Sockets -> WsEntries], RegistryNamesOpenSockets',
           UNCHANGED <<apiKeys, issued, rows, tasks, loop>>
    PROVE  IngressInv' /\ WriteOK
<1>1. PICK q \in ProxyRequests : q = req[r] /\ Stage(q) /\ q.pc = "deferred" /\ q.writes = 0
  BY RequestAt DEF Stage
<1>2. PICK d : d = Done(q)
  OBVIOUS
<1>3. /\ d \in ProxyRequests /\ d.pc = "done" /\ d.aborted = q.aborted /\ d.outcome = q.outcome
      /\ d.writes = q.writes /\ d.logs = q.logs /\ d.kind = IF q.kind = "ws" THEN "ws" ELSE "none"
  BY <1>2, DoneRequest
<1>4. PICK a : a = Answered(q)
  OBVIOUS
<1>5. /\ a \in ProxyRequests /\ a.pc = "done" /\ a.aborted = q.aborted /\ a.outcome = q.outcome
      /\ a.logs = q.logs /\ a.kind = IF q.kind = "ws" THEN "ws" ELSE "none"
  BY <1>1, <1>4, AnsweredRequest
<1>6. Stage(d) /\ Stage(a)
  BY <1>1, <1>3, <1>5 DEF Stage
<1>7. CASE gone
  <2>1. req' = [req EXCEPT ![r] = d] /\ ~(d.writes > req[r].writes)
    BY <1>1, <1>2, <1>3, <1>7
  <2> QED BY <1>1, <1>3, <1>6, <2>1, QuietKeeps
<1>8. CASE ~gone
  <2>1. req' = [req EXCEPT ![r] = a] /\ ~req[r].aborted
    BY <1>1, <1>4, <1>8
  <2> QED BY <1>1, <1>5, <1>6, <2>1, QuietKeeps
<1> QED BY <1>7, <1>8

\* The answer of /responses.
LEMMA DeferredWriteKeeps ==
    ASSUME IngressInv, NEW r \in Requests, DeferredWrite(r) PROVE IngressInv' /\ WriteOK
<1>1. PICK gone \in BOOLEAN : gone = req[r].aborted
  BY RequestAt DEF ProxyRequests
<1>2. req' = [req EXCEPT ![r] = IF gone THEN Done(@) ELSE Answered(@)]
  BY <1>1 DEF DeferredWrite
<1>3. loop = Nobody /\ req[r].pc = "deferred" /\ UNCHANGED <<apiKeys, issued, sock, rows, tasks, loop>>
  BY DEF DeferredWrite
<1> QED BY <1>1, <1>2, <1>3, SocketsStay, DeferredAnswerKeeps

\* The answer to a message of a connection.
LEMMA WsDeferredKeeps ==
    ASSUME IngressInv, NEW r \in Requests, WsDeferred(r) PROVE IngressInv' /\ WriteOK
<1>1. PICK s : s = req[r].socket
  OBVIOUS
<1>2. PICK gone \in BOOLEAN : gone = (sock[s].entry # "open")
  OBVIOUS
<1>3. req' = [req EXCEPT ![r] = IF gone THEN Done(@) ELSE Answered(@)]
  BY <1>1, <1>2 DEF WsDeferred
<1>4. sock' \in [Sockets -> WsEntries] /\ RegistryNamesOpenSockets'
  <2>1. sock' = sock \/ sock' = [sock EXCEPT ![s] = UnregisteredByCallback(@)]
    BY <1>1 DEF WsDeferred
  <2>2. CASE s \in Sockets
    BY <2>1, <2>2, SocketsStay, SocketCloses
  <2>3. CASE s \notin Sockets
    <3>1. sock' = sock
      BY <2>1, <2>3 DEF IngressInv, IngressTyped
    <3> QED BY <3>1, SocketsStay
  <2> QED BY <2>2, <2>3
<1>5. ~req[r].aborted
  BY RequestAt DEF WsDeferred, Stage
<1>6. loop = Nobody /\ req[r].pc = "deferred" /\ UNCHANGED <<apiKeys, issued, rows, tasks, loop>>
  BY DEF WsDeferred
<1> QED BY <1>3, <1>4, <1>5, <1>6, DeferredAnswerKeeps

\* A message of a connection: it is queued, or answered and the connection ended.
LEMMA WsMessageKeeps ==
    ASSUME IngressInv, NEW r \in Requests, NEW s \in Sockets, NEW enabled \in BOOLEAN, NEW model,
           NEW accepts \in BOOLEAN, WsMessage(r, s, enabled, model, accepts)
    PROVE  IngressInv' /\ WriteOK
<1>1. PICK o \in ProxyRequests : o = req[r] /\ Stage(o) /\ o.pc = "new"
  BY RequestAt DEF WsMessage
<1>2. o.writes = 0 /\ o.logs = 0 /\ o.outcome = "none" /\ ~o.aborted
  BY <1>1 DEF Stage
<1>3. PICK p \in Policies : p = sock[s].policy
  BY DEF IngressInv, IngressTyped, WsEntries
<1>4. PICK a : a = [o EXCEPT !.kind = "ws", !.id = r]
  OBVIOUS
<1>5. /\ a \in ProxyRequests /\ a.pc = "new" /\ a.writes = 0 /\ a.logs = 0 /\ a.outcome = "none"
      /\ a.aborted = o.aborted /\ a.id = r
  BY <1>1, <1>2, <1>4 DEF ProxyRequests
<1>6. PICK q : q = [a EXCEPT !.policy = p, !.socket = s]
  OBVIOUS
<1>7. /\ q \in ProxyRequests /\ q.pc = "new" /\ q.writes = 0 /\ q.logs = 0 /\ q.outcome = "none"
      /\ q.aborted = a.aborted /\ q.id = r
  BY <1>5, <1>6 DEF ProxyRequests
<1>8. q = [req[r] EXCEPT !.kind = "ws", !.id = r, !.policy = sock[s].policy, !.socket = s]
  BY <1>1, <1>3, <1>4, <1>6 DEF ProxyRequests
<1>9. ~q.aborted /\ Stage(q)
  BY <1>2, <1>5, <1>7 DEF Stage
<1>10. loop = Nobody /\ UNCHANGED <<apiKeys, issued, rows, loop>>
  BY DEF WsMessage
<1>11. CASE enabled /\ EnforceApiKeyRequestPolicy(sock[s].policy, model) /\ MayEnqueueTask(accepts)
  <2>1. PICK h : h = [q EXCEPT !.pc = "queued"]
    OBVIOUS
  <2>2. /\ h \in ProxyRequests /\ h.pc = "queued" /\ h.writes = 0 /\ h.logs = 0 /\ h.outcome = "none"
        /\ h.aborted = q.aborted /\ h.id = r
    BY <1>7, <2>1 DEF ProxyRequests, Places
  <2>3. Stage(h)
    BY <1>9, <2>2 DEF Stage
  <2>4. req' = [req EXCEPT ![r] = h] /\ tasks' = Append(tasks, r) /\ sock' = sock
    BY <1>8, <1>11, <2>1 DEF WsMessage
  <2>5. Len(tasks) + Cardinality(InHand) < kMaxInFlightTasks
    BY <1>11 DEF MayEnqueueTask
  <2> QED BY <1>1, <1>2, <1>10, <2>2, <2>3, <2>4, <2>5, EnqueueTaskKeeps
<1>12. CASE ~(enabled /\ EnforceApiKeyRequestPolicy(sock[s].policy, model) /\ MayEnqueueTask(accepts))
  <2>1. /\ req' = [req EXCEPT ![r] = Answered(Logged(q))] /\ tasks' = tasks
        /\ sock' = [sock EXCEPT ![s] = Unregistered(@)]
    BY <1>8, <1>12 DEF WsMessage
  <2>2. PICK h \in ProxyRequests : /\ Stage(h) /\ h.pc = "done" /\ h.outcome = "none"
                                   /\ req' = [req EXCEPT ![r] = h]
    BY <1>7, <1>9, <2>1, AnsweredAtOnce
  <2> QED BY <1>1, <1>2, <1>10, <2>1, <2>2, SocketCloses, QuietKeeps
<1> QED BY <1>11, <1>12

\* Only a connection changes, or only the key table.
LEMMA NoRequestMoves ==
    ASSUME IngressInv, UNCHANGED <<req, rows, tasks, loop>>, KeysTypeOK', EnforcedModelIsAllowed',
           sock' \in [Sockets -> WsEntries], RegistryNamesOpenSockets'
    PROVE  IngressInv' /\ WriteOK
<1>1. IngressTyped'
  BY DEF IngressInv, IngressTyped
<1>2. /\ StagesOK' /\ LoopHolder' /\ QueueOK' /\ ReservationsOwned' /\ ReservationMatchesOutcome'
      /\ ExecutorBounded'
  BY DEF IngressInv, StagesOK, LoopHolder, QueueOK, ReservationsOwned, ReservationMatchesOutcome,
         ExecutorBounded, InHand
<1>3. WriteOK
  BY RequestAt DEF WriteOK
<1> QED BY <1>1, <1>2, <1>3 DEF IngressInv

\* A connection opens or closes.
LEMMA ConnectionKeeps ==
    ASSUME IngressInv, NEW s \in Sockets,
           WsClose(s) \/ \E set \in SettingsRead, secret \in 0..issued : WsUpgrade(s, set, secret)
    PROVE  IngressInv' /\ WriteOK
<1>1. UNCHANGED <<apiKeys, issued, req, rows, tasks, loop>>
  BY DEF WsClose, WsUpgrade
<1>2. KeysTypeOK' /\ EnforcedModelIsAllowed'
  BY <1>1 DEF IngressInv, IngressTyped, KeysTypeOK, EnforcedModelIsAllowed, Exists
<1>3. CASE WsClose(s)
  BY <1>1, <1>2, <1>3, SocketCloses, NoRequestMoves DEF WsClose
<1>4. ASSUME NEW set \in SettingsRead, NEW secret \in 0..issued, WsUpgrade(s, set, secret)
      PROVE  IngressInv' /\ WriteOK
  <2>1. PICK p \in Policies : p = ResolveApiKeyModelPolicy(set.auth, secret)
    <3>1. set.auth \in BOOLEAN
      BY DEF SettingsRead
    <3> QED BY <3>1, ResolvedPolicy DEF IngressInv, IngressTyped
  <2>2. PICK c : c = [entry |-> "open", open |-> TRUE, policy |-> p]
    OBVIOUS
  <2>3. c \in WsEntries /\ c.entry = "open" /\ c.open = TRUE
    BY <2>1, <2>2 DEF WsEntries
  <2>4. sock' = [sock EXCEPT ![s] = c]
    BY <1>4, <2>1, <2>2 DEF WsUpgrade, RegisterWsConnection
  <2> QED BY <1>1, <1>2, <2>3, <2>4, SocketMoves, NoRequestMoves
<1> QED BY <1>3, <1>4

\* The dashboard changes the key table.
LEMMA KeyAdministrationKeeps ==
    ASSUME IngressInv, KeyAdministration PROVE IngressInv' /\ WriteOK
<1>1. PICK k \in KeyIds : \/ \E allowed \in SUBSET Models, enforced \in Optional(Models) :
                                CreateApiKey(k, allowed, enforced)
                          \/ DeleteApiKey(k)
  <2>1. NoModel \in Optional(Models) /\ ({{}} \cup {{m} : m \in Models}) \subseteq SUBSET Models
    BY DEF Optional
  <2> QED BY <2>1 DEF KeyAdministration
<1>2. KeysTypeOK' /\ EnforcedModelIsAllowed'
  BY <1>1, KeysKeep DEF IngressInv, IngressTyped
<1>3. UNCHANGED <<req, sock, rows, tasks, loop>>
  BY DEF KeyAdministration
<1> QED BY <1>2, <1>3, SocketsStay, NoRequestMoves

-----------------------------------------------------------------------------
\* Every step of the routes, and every step that leaves them alone.
LEMMA IngressNextKeeps ==
    ASSUME IngressInv, IngressNext \/ UNCHANGED ingressVars PROVE IngressInv' /\ WriteOK
<1>1. CASE KeyAdministration
  BY <1>1, KeyAdministrationKeeps
<1>2. CASE WorkerTakesTask
  BY <1>2, WorkerTakesKeeps
<1>3. CASE \E s \in Sockets :
             WsClose(s) \/ \E set \in SettingsRead, secret \in 0..issued : WsUpgrade(s, set, secret)
  BY <1>3, ConnectionKeeps
<1>4. ASSUME NEW r \in Requests, NEW kind \in Kinds, NEW id \in RequestIds, NEW set \in SettingsRead,
             NEW secret \in 0..issued, RequestArrives(r, kind, id, set, secret)
      PROVE  IngressInv' /\ WriteOK
  BY <1>4, RequestArrivesKeeps
<1>5. ASSUME NEW r \in Requests, ClientAborts(r) \/ BodyRefused(r) \/ TaskStep(r) \/ LoopStep(r)
      PROVE  IngressInv' /\ WriteOK
  <2>1. CASE ClientAborts(r)
    BY <2>1, ClientAbortsKeeps
  <2>2. CASE BodyRefused(r)
    BY <2>2, RefusalKeeps DEF BodyRefused
  <2>3. CASE WorkerStarts(r)
    BY <2>3, ReserveKeeps DEF WorkerStarts
  <2>4. CASE \E ok \in BOOLEAN : WorkerFinishes(r, ok)
    BY <2>4, WorkerFinishesKeeps
  <2>5. CASE DeferredWrite(r)
    BY <2>5, DeferredWriteKeeps
  <2>6. CASE WsDeferred(r)
    BY <2>6, WsDeferredKeeps
  <2>7. CASE \E ok \in BOOLEAN : SyncFinish(r, ok)
    BY <2>7, SyncFinishKeeps
  <2> QED BY <1>5, <2>1, <2>2, <2>3, <2>4, <2>5, <2>6, <2>7 DEF TaskStep, LoopStep
<1>6. ASSUME NEW r \in Requests, NEW model \in Optional(Models),
             \/ PolicyDenies(r, model) \/ CompactBody(r, model)
             \/ \E accepts \in BOOLEAN : ResponsesBody(r, model, accepts)
             \/ MemoriesBody(r, model) \/ TranscribeBody(r, model) \/ ChatCompletionsBody(r, model)
      PROVE  IngressInv' /\ WriteOK
  <2>1. CASE PolicyDenies(r, model)
    BY <2>1, RefusalKeeps DEF PolicyDenies
  <2>2. CASE \E accepts \in BOOLEAN : ResponsesBody(r, model, accepts)
    BY <2>2, ResponsesBodyKeeps
  <2>3. ASSUME NEW kind, SyncBody(r, kind, model) PROVE IngressInv' /\ WriteOK
    BY <2>3, ReserveKeeps DEF SyncBody
  <2> QED BY <1>6, <2>1, <2>2, <2>3 DEF CompactBody, MemoriesBody, TranscribeBody, ChatCompletionsBody
<1>7. ASSUME NEW r \in Requests, NEW s \in Sockets, NEW enabled \in BOOLEAN, NEW model \in Optional(Models),
             NEW accepts \in BOOLEAN, WsMessage(r, s, enabled, model, accepts)
      PROVE  IngressInv' /\ WriteOK
  BY <1>7, WsMessageKeeps
<1>8. CASE UNCHANGED ingressVars
  <2>1. UNCHANGED <<apiKeys, issued, req, sock, rows, tasks, loop>>
    BY <1>8 DEF ingressVars
  <2>2. KeysTypeOK' /\ EnforcedModelIsAllowed'
    BY <2>1 DEF IngressInv, IngressTyped, KeysTypeOK, EnforcedModelIsAllowed, Exists
  <2> QED BY <2>1, <2>2, SocketsStay, NoRequestMoves
<1> QED BY <1>1, <1>2, <1>3, <1>4, <1>5, <1>6, <1>7, <1>8 DEF IngressNext

\* The invariant says what IngressSafety says.
LEMMA IngressInvIsSafe == IngressInv => IngressSafety
<1> SUFFICES ASSUME IngressInv PROVE IngressSafety
  OBVIOUS
<1>1. \A r \in Requests : /\ req[r].pc \in Places /\ req[r].writes \in 0..1 /\ req[r].logs \in 0..1
                          /\ req[r].outcome # "none" => req[r].logs = 1
  BY RequestAt DEF ProxyRequests, Stage
<1>2. \A s \in Sockets : sock[s].entry \in {"absent", "open", "stale"} /\ sock[s].open \in BOOLEAN
  BY DEF IngressInv, IngressTyped, WsEntries
<1>3. \A i \in Requests : rows[i].status \in {"none", "reserved", "settled", "released"}
  BY DEF IngressInv, IngressTyped, Reservations
<1>4. IngressTypeOK
  BY <1>1, <1>2, <1>3 DEF IngressTypeOK, IngressInv, IngressTyped, ExecutorBounded, Places
<1> QED BY <1>1, <1>4 DEF IngressInv, IngressSafety, UpstreamUseIsLogged

\* For any number of requests, sockets, keys and workers: a reservation ends as
\* its own request ended even when requests share an id, whatever the upstream
\* was asked for is logged once, the registry has a pointer exactly for the open
\* connections, the executor is never over its limit, and a key enforces only a
\* model that it allows.
THEOREM IngressIsSafe == IngressSpec => []IngressSafety
<1>1. IngressInv /\ [IngressNext]_ingressVars => IngressInv'
  BY IngressNextKeeps
<1> QED BY <1>1, IngressInitHolds, IngressInvIsSafe, PTL DEF IngressSpec

\* No handler, worker or deferred callback writes to a response whose client has
\* gone, and none answers a request twice.
THEOREM WritesOnce == IngressSpec => WritesOnceToLiveClient
<1>1. IngressInv /\ [IngressNext]_ingressVars => IngressInv'
  BY IngressNextKeeps
<1>2. IngressInv /\ [IngressNext]_ingressVars
        => [\A r \in Requests : req'[r].writes > req[r].writes => ~req[r].aborted /\ req[r].writes = 0]_ingressVars
  BY IngressNextKeeps DEF WriteOK
<1> QED BY <1>1, <1>2, IngressInitHolds, PTL DEF IngressSpec, WritesOnceToLiveClient

\* The key table under every operation of the dashboard: after any creations and
\* partial updates a key enforces only a model that it allows.
THEOREM KeysAreSound == KeysSpec => [](KeysTypeOK /\ EnforcedModelIsAllowed)
<1>1. KeysInit => KeysTypeOK /\ EnforcedModelIsAllowed
  BY KeysAssumption DEF KeysInit, KeysTypeOK, NoRow, Optional, EnforcedModelIsAllowed, Exists
<1>2. KeysTypeOK /\ EnforcedModelIsAllowed /\ [KeysNext]_keyVars => KeysTypeOK' /\ EnforcedModelIsAllowed'
  <2>1. ASSUME KeysTypeOK, EnforcedModelIsAllowed, KeysNext PROVE KeysTypeOK' /\ EnforcedModelIsAllowed'
    BY <2>1, KeysKeep DEF KeysNext
  <2>2. ASSUME KeysTypeOK, EnforcedModelIsAllowed, UNCHANGED keyVars
        PROVE  KeysTypeOK' /\ EnforcedModelIsAllowed'
    BY <2>2 DEF keyVars, KeysTypeOK, EnforcedModelIsAllowed, Exists
  <2> QED BY <2>1, <2>2
<1> QED BY <1>1, <1>2, PTL DEF KeysSpec

-----------------------------------------------------------------------------
(* Usage refreshes *)

Trackers == [pending : 0..Threshold, last : 0..MaxNow, in_flight : BOOLEAN]
LoggingThreads == [pc : {"idle", "counting", "due"}, account : LAccounts \cup {NoOne}, now : 0..MaxNow]
RefreshTasks == [pc : {"none", "queued", "again", "fetched", "cached"},
                 account : LAccounts \cup {NoOne}, got : 0..MaxAnswers]
Visits == [pc : {"none", "fetched"}, got : 0..MaxAnswers]

UsageTyped ==
    /\ lClock \in 1..MaxNow
    /\ tracker \in [LAccounts -> Trackers]
    /\ logging \in [LThreads -> LoggingThreads]
    /\ lTask \in [LTasks -> RefreshTasks]
    /\ visit \in [LAccounts -> Visits]
    /\ answers \in [LAccounts -> 0..MaxAnswers] /\ usageCache \in [LAccounts -> 0..MaxAnswers]
    /\ asked \in [LAccounts -> 0..Threshold] /\ begun \in [LAccounts -> SUBSET (1..MaxNow)]

\* Whoever is at work has an account and a time.
AtWork ==
    /\ \A w \in LThreads : logging[w].pc # "idle" => logging[w].account \in LAccounts /\ logging[w].now >= 1
    /\ \A j \in LTasks : lTask[j].pc # "none" => lTask[j].account \in LAccounts

\* The threads about to enqueue a refresh of the account, and its tasks.
DueThreads(a) == {w \in LThreads : logging[w].pc = "due" /\ logging[w].account = a}
TasksOf(a) == {j \in LTasks : lTask[j].pc # "none" /\ lTask[j].account = a}

\* The one refresh of an account is with a thread or with a task.
OneRefresh ==
    \A a \in LAccounts :
        /\ ~tracker[a].in_flight => DueThreads(a) = {} /\ TasksOf(a) = {}
        /\ tracker[a].in_flight =>
             \/ TasksOf(a) = {} /\ \E w \in LThreads : DueThreads(a) = {w}
             \/ DueThreads(a) = {} /\ \E j \in LTasks : TasksOf(a) = {j}

\* The tracker remembers the last of the refreshes.
LastIsLatest == \A a \in LAccounts : \A t \in begun[a] : t <= tracker[a].last

\* The cache and the answers on their way are ones the upstream has given,
\* and two are on their way at once only if their account is in crossed.
AnswersAreGiven ==
    \A a \in LAccounts :
        /\ usageCache[a] <= answers[a] /\ visit[a].got <= answers[a]
        /\ \A j \in LTasks : lTask[j].account = a => lTask[j].got <= answers[a]
        /\ a \notin crossed /\ visit[a].pc = "fetched" =>
             \A j \in LTasks : ~(lTask[j].pc = "fetched" /\ lTask[j].account = a)

UsageInv ==
    /\ UsageTyped /\ AtWork /\ OneRefresh /\ RefreshesAreSpaced /\ LastIsLatest
    /\ NoRequestIsForgotten /\ AnswersAreGiven /\ OnlyVisitsAgeTheCache

\* The library's Min and Max of two numbers.
LEMMA MinMaxOfTwo ==
    ASSUME NEW m \in Nat, NEW n \in Nat
    PROVE  /\ Min({m, n}) = IF m <= n THEN m ELSE n
           /\ Max({m, n}) = IF m <= n THEN n ELSE m
  BY DEF Min, Max

\* The threads of an account are finitely many.
LEMMA CountingIsFinite ==
    ASSUME NEW a PROVE IsFiniteSet(Counting(a)) /\ Cardinality(Counting(a)) \in Nat
<1>1. IsFiniteSet(Counting(a))
  BY FS_Subset, UsageRefreshAssumption DEF Counting
<1> QED BY <1>1, FS_CardinalityType

\* At the start nothing is counted, on its way or cached.
LEMMA UsageInitHolds == UsageInit => UsageInv
<1> SUFFICES ASSUME UsageInit PROVE UsageInv
  OBVIOUS
<1> USE UsageRefreshAssumption
<1>1. PICK t : t = [pending |-> 0, last |-> 0, in_flight |-> FALSE]
  OBVIOUS
<1>2. t \in Trackers /\ t.pending = 0 /\ t.last = 0 /\ t.in_flight = FALSE
  BY <1>1 DEF Trackers
<1>3. Resting \in LoggingThreads /\ Resting.pc = "idle"
  BY DEF Resting, LoggingThreads
<1>4. NoRefresh \in RefreshTasks /\ NoRefresh.pc = "none"
  BY DEF NoRefresh, RefreshTasks
<1>5. PICK v : v = [pc |-> "none", got |-> 0]
  OBVIOUS
<1>6. v \in Visits /\ v.pc = "none" /\ v.got = 0
  BY <1>5 DEF Visits
<1>7. /\ lClock = 1 /\ tracker = [a \in LAccounts |-> t] /\ logging = [w \in LThreads |-> Resting]
      /\ lTask = [j \in LTasks |-> NoRefresh] /\ visit = [a \in LAccounts |-> v]
      /\ answers = [a \in LAccounts |-> 0] /\ usageCache = [a \in LAccounts |-> 0]
      /\ asked = [a \in LAccounts |-> 0] /\ begun = [a \in LAccounts |-> {}]
  BY <1>1, <1>5 DEF UsageInit
<1>8. UsageTyped
  BY <1>2, <1>3, <1>4, <1>6, <1>7 DEF UsageTyped
<1>9. AtWork /\ OneRefresh
  BY <1>2, <1>3, <1>4, <1>7 DEF AtWork, OneRefresh, DueThreads, TasksOf
<1>10. RefreshesAreSpaced /\ LastIsLatest
  BY <1>7 DEF RefreshesAreSpaced, LastIsLatest
<1>11. NoRequestIsForgotten
  BY <1>2, <1>7, CountingIsFinite DEF NoRequestIsForgotten
<1>12. AnswersAreGiven /\ OnlyVisitsAgeTheCache
  <2>1. NoRefresh.account = NoOne
    BY DEF NoRefresh
  <2> QED BY <1>4, <1>6, <1>7, <2>1 DEF AnswersAreGiven, OnlyVisitsAgeTheCache
<1> QED BY <1>8, <1>9, <1>10, <1>11, <1>12 DEF UsageInv

\* One more or one fewer thread counts.
LEMMA CountingGrows ==
    ASSUME NEW a, NEW w \in LThreads, w \notin Counting(a), Counting(a)' = Counting(a) \cup {w}
    PROVE  Cardinality(Counting(a)') = Cardinality(Counting(a)) + 1
  BY CountingIsFinite, FS_AddElement

\* One more or one fewer thread counts.
LEMMA CountingShrinks ==
    ASSUME NEW a, NEW w \in LThreads, w \in Counting(a)
    PROVE  Cardinality(Counting(a) \ {w}) = Cardinality(Counting(a)) - 1
  BY CountingIsFinite, FS_RemoveElement

\* A request is logged: it is asked for, and a thread is about to count it.
LEMMA PersistKeeps ==
    ASSUME UsageInv, NEW w \in LThreads, NEW b, NEW status, NEW route,
           PersistRequestLog(w, b, status, route), b \in LAccounts \cup {NoOne}
    PROVE  UsageInv'
<1> USE UsageRefreshAssumption
<1>1. b \in LAccounts /\ logging[w].pc = "idle" /\ asked[b] \in 0..Threshold /\ lClock \in 1..MaxNow
  BY DEF PersistRequestLog, ShouldCount, UsageInv, UsageTyped
<1>2. PICK x : x = [pc |-> "counting", account |-> b, now |-> lClock]
  OBVIOUS
<1>3. x \in LoggingThreads /\ x.pc = "counting" /\ x.account = b /\ x.now >= 1
  BY <1>1, <1>2 DEF LoggingThreads
<1>4. PICK n \in 0..Threshold : n = Min({asked[b] + 1, Threshold}) /\ n <= asked[b] + 1
  BY <1>1, MinMaxOfTwo
<1>5. /\ logging' = [logging EXCEPT ![w] = x] /\ asked' = [asked EXCEPT ![b] = n]
      /\ UNCHANGED <<lClock, tracker, lTask, begun, visit, answers, usageCache, crossed>>
  BY <1>2, <1>4 DEF PersistRequestLog, UsageInv, UsageTyped
<1>6. /\ logging' \in [LThreads -> LoggingThreads] /\ asked' \in [LAccounts -> 0..Threshold]
      /\ \A v \in LThreads : logging'[v] = IF v = w THEN x ELSE logging[v]
      /\ \A a \in LAccounts : asked'[a] = IF a = b THEN n ELSE asked[a]
  BY <1>3, <1>4, <1>5 DEF UsageInv, UsageTyped
<1>7. UsageTyped' /\ AtWork'
  BY <1>1, <1>3, <1>5, <1>6 DEF UsageInv, UsageTyped, AtWork
<1>8. \A a \in LAccounts : DueThreads(a)' = DueThreads(a) /\ TasksOf(a)' = TasksOf(a)
  BY <1>1, <1>3, <1>5, <1>6 DEF DueThreads, TasksOf
<1>9. OneRefresh'
  BY <1>5, <1>8 DEF UsageInv, OneRefresh
<1>10. RefreshesAreSpaced' /\ LastIsLatest' /\ AnswersAreGiven' /\ OnlyVisitsAgeTheCache'
  BY <1>5 DEF UsageInv, RefreshesAreSpaced, LastIsLatest, AnswersAreGiven, OnlyVisitsAgeTheCache
<1>11. NoRequestIsForgotten'
  <2> SUFFICES ASSUME NEW a \in LAccounts
               PROVE  tracker[a].pending + Cardinality(Counting(a)') >= asked'[a]
    BY <1>5 DEF NoRequestIsForgotten
  <2>1. /\ tracker[a].pending \in 0..Threshold /\ asked[a] \in 0..Threshold
        /\ tracker[a].pending + Cardinality(Counting(a)) >= asked[a] /\ Cardinality(Counting(a)) \in Nat
    BY CountingIsFinite DEF UsageInv, UsageTyped, Trackers, NoRequestIsForgotten
  <2>2. CASE a = b
    <3>1. w \notin Counting(a) /\ Counting(a)' = Counting(a) \cup {w}
      BY <1>1, <1>3, <1>6, <2>2 DEF Counting
    <3>2. Cardinality(Counting(a)') = Cardinality(Counting(a)) + 1
      BY <3>1, CountingGrows
    <3>3. asked'[a] = n /\ n <= asked[a] + 1 /\ n \in Nat
      BY <1>4, <1>6, <2>2
    <3>4. PICK c \in Nat : c = Cardinality(Counting(a)) /\ Cardinality(Counting(a)') = c + 1
      BY <2>1, <3>2
    <3>5. PICK p \in Nat : p = tracker[a].pending
      BY <2>1
    <3>6. PICK k \in Nat : k = asked[a]
      BY <2>1
    <3>7. p + c >= k /\ n <= k + 1
      BY <2>1, <3>3, <3>4, <3>5, <3>6
    <3>8. p + (c + 1) >= n
      BY <3>3, <3>7
    <3> QED BY <3>3, <3>4, <3>5, <3>8
  <2>3. CASE a # b
    <3>1. Counting(a)' = Counting(a)
      BY <1>1, <1>3, <1>6, <2>3 DEF Counting
    <3> QED BY <1>6, <2>1, <2>3, <3>1
  <2> QED BY <2>2, <2>3
<1> QED BY <1>7, <1>9, <1>10, <1>11 DEF UsageInv

\* mark_usage_refresh_due: the request is counted, and a refresh begins or not.
LEMMA MarkKeeps == ASSUME UsageInv, NEW w \in LThreads, MarkUsageRefreshDue(w) PROVE UsageInv'
<1> USE UsageRefreshAssumption
<1>1. PICK b \in LAccounts : b = logging[w].account
  BY DEF MarkUsageRefreshDue, UsageInv, AtWork
<1>2. PICK now \in 1..MaxNow : now = logging[w].now
  BY DEF MarkUsageRefreshDue, UsageInv, AtWork, UsageTyped, LoggingThreads
<1>3. PICK old \in Trackers : old = tracker[b]
  BY DEF UsageInv, UsageTyped
<1>4. PICK p \in 0..Threshold : p = Min({old.pending + 1, Threshold}) /\ (p = old.pending + 1 \/ p = Threshold)
  BY MinMaxOfTwo DEF Trackers
<1>5. PICK t : t = Counted(old)
  OBVIOUS
<1>6. t \in Trackers /\ t.pending = p /\ t.last = old.last /\ t.in_flight = old.in_flight
  <2>1. t = [old EXCEPT !.pending = p]
    BY <1>4, <1>5 DEF Counted
  <2> QED BY <2>1 DEF Trackers
<1>7. logging[w].pc = "counting" /\ w \in Counting(b)
  BY <1>1 DEF MarkUsageRefreshDue, Counting
<1>8. PICK k \in Nat : k = Cardinality(Counting(b) \ {w}) /\ k + 1 = Cardinality(Counting(b))
  <2>1. IsFiniteSet(Counting(b) \ {w})
    BY CountingIsFinite, FS_Subset
  <2>2. Cardinality(Counting(b) \ {w}) \in Nat
    BY <2>1, FS_CardinalityType
  <2> QED BY <1>7, <2>2, CountingIsFinite, CountingShrinks
<1>9. \A a \in LAccounts :
        /\ tracker[a].pending \in 0..Threshold /\ asked[a] \in 0..Threshold
        /\ tracker[a].pending + Cardinality(Counting(a)) >= asked[a] /\ Cardinality(Counting(a)) \in Nat
  BY CountingIsFinite DEF UsageInv, UsageTyped, Trackers, NoRequestIsForgotten
<1>10. CASE Due(t, now)
  <2>1. PICK u : u = [pending |-> 0, last |-> now, in_flight |-> TRUE]
    OBVIOUS
  <2>2. u \in Trackers /\ u.pending = 0 /\ u.last = now /\ u.in_flight
    BY <2>1 DEF Trackers
  <2>3. PICK x : x = [logging[w] EXCEPT !.pc = "due"]
    OBVIOUS
  <2>4. x \in LoggingThreads /\ x.pc = "due" /\ x.account = b /\ x.now = now
    <3>1. logging[w] \in LoggingThreads
      BY DEF UsageInv, UsageTyped
    <3> QED BY <1>1, <1>2, <2>3, <3>1 DEF LoggingThreads
  <2>5. PICK n \in 0..Threshold : n = Min({Threshold, k}) /\ n <= k
    <3>1. Threshold \in Nat /\ Min({Threshold, k}) = IF Threshold <= k THEN Threshold ELSE k
      BY MinMaxOfTwo
    <3> QED BY <3>1
  <2>6. /\ tracker' = [tracker EXCEPT ![b] = u] /\ logging' = [logging EXCEPT ![w] = x]
        /\ begun' = [begun EXCEPT ![b] = begun[b] \cup {now}] /\ asked' = [asked EXCEPT ![b] = n]
        /\ UNCHANGED <<lClock, lTask, visit, answers, usageCache, crossed>>
    BY <1>1, <1>2, <1>3, <1>5, <1>8, <1>10, <2>1, <2>3, <2>5 DEF MarkUsageRefreshDue, UsageInv, UsageTyped
  <2>7. /\ logging' \in [LThreads -> LoggingThreads] /\ asked' \in [LAccounts -> 0..Threshold]
        /\ tracker' \in [LAccounts -> Trackers] /\ begun' \in [LAccounts -> SUBSET (1..MaxNow)]
        /\ \A v \in LThreads : logging'[v] = IF v = w THEN x ELSE logging[v]
        /\ \A a \in LAccounts : asked'[a] = IF a = b THEN n ELSE asked[a]
        /\ \A a \in LAccounts : tracker'[a] = IF a = b THEN u ELSE tracker[a]
        /\ \A a \in LAccounts : begun'[a] = IF a = b THEN begun[b] \cup {now} ELSE begun[a]
    BY <2>2, <2>4, <2>5, <2>6 DEF UsageInv, UsageTyped
  <2>8. UsageTyped' /\ AtWork'
    BY <2>4, <2>6, <2>7 DEF UsageInv, UsageTyped, AtWork
  <2>9. ~old.in_flight /\ (old.last = 0 \/ now - old.last >= MinInterval)
    <3>1. old.last \in 0..MaxNow
      BY DEF Trackers
    <3> QED BY <1>6, <1>10, <3>1 DEF Due
  <2>10. OneRefresh'
    <3>1. DueThreads(b)' = {w} /\ TasksOf(b)' = {}
      BY <1>3, <2>4, <2>6, <2>7, <2>9 DEF UsageInv, OneRefresh, DueThreads, TasksOf
    <3>2. \A a \in LAccounts \ {b} : DueThreads(a)' = DueThreads(a) /\ TasksOf(a)' = TasksOf(a)
      BY <1>7, <2>4, <2>6, <2>7 DEF DueThreads, TasksOf
    <3> QED BY <2>2, <2>7, <3>1, <3>2 DEF UsageInv, OneRefresh
  <2>11. LastIsLatest' /\ RefreshesAreSpaced'
    <3>1. \A s \in begun[b] : s \in 1..MaxNow /\ s <= old.last /\ now - s >= MinInterval
      <4>1. \A s \in begun[b] : s \in 1..MaxNow /\ s <= old.last
        BY <1>3 DEF UsageInv, UsageTyped, LastIsLatest
      <4>2. old.last \in 0..MaxNow
        BY DEF Trackers
      <4> QED BY <2>9, <4>1, <4>2
    <3>2. LastIsLatest'
      BY <2>2, <2>7, <3>1 DEF UsageInv, LastIsLatest
    <3>3. RefreshesAreSpaced'
      BY <2>7, <3>1 DEF UsageInv, RefreshesAreSpaced
    <3> QED BY <3>2, <3>3
  <2>12. NoRequestIsForgotten'
    <3>1. Counting(b)' = Counting(b) \ {w} /\ \A a \in LAccounts \ {b} : Counting(a)' = Counting(a)
      BY <1>1, <2>4, <2>7 DEF Counting
    <3>2. Cardinality(Counting(b)') = k /\ tracker'[b].pending = 0 /\ asked'[b] = n
      BY <1>8, <2>2, <2>7, <3>1
    <3>3. 0 + k >= n
      BY <2>5
    <3>4. \A a \in LAccounts \ {b} : tracker'[a].pending + Cardinality(Counting(a)') >= asked'[a]
      BY <1>9, <2>7, <3>1
    <3>5. tracker'[b].pending + Cardinality(Counting(b)') >= asked'[b]
      BY <3>2, <3>3
    <3> QED BY <3>4, <3>5 DEF NoRequestIsForgotten
  <2>13. AnswersAreGiven' /\ OnlyVisitsAgeTheCache'
    BY <2>6 DEF UsageInv, AnswersAreGiven, OnlyVisitsAgeTheCache
  <2> QED BY <2>8, <2>10, <2>11, <2>12, <2>13 DEF UsageInv
<1>11. CASE ~Due(t, now)
  <2>1. Resting \in LoggingThreads /\ Resting.pc = "idle"
    BY DEF Resting, LoggingThreads
  <2>2. /\ tracker' = [tracker EXCEPT ![b] = t] /\ logging' = [logging EXCEPT ![w] = Resting]
        /\ UNCHANGED <<lClock, lTask, visit, answers, usageCache, crossed, begun, asked>>
    BY <1>1, <1>2, <1>3, <1>5, <1>11 DEF MarkUsageRefreshDue
  <2>3. /\ logging' \in [LThreads -> LoggingThreads] /\ tracker' \in [LAccounts -> Trackers]
        /\ \A v \in LThreads : logging'[v] = IF v = w THEN Resting ELSE logging[v]
        /\ \A a \in LAccounts : tracker'[a] = IF a = b THEN t ELSE tracker[a]
    BY <1>6, <2>1, <2>2 DEF UsageInv, UsageTyped
  <2>4. UsageTyped' /\ AtWork'
    BY <2>1, <2>2, <2>3 DEF UsageInv, UsageTyped, AtWork
  <2>5. \A a \in LAccounts : DueThreads(a)' = DueThreads(a) /\ TasksOf(a)' = TasksOf(a)
                             /\ tracker'[a].in_flight = tracker[a].in_flight
    BY <1>3, <1>6, <1>7, <2>1, <2>2, <2>3 DEF DueThreads, TasksOf
  <2>6. OneRefresh'
    BY <2>5 DEF UsageInv, OneRefresh
  <2>7. RefreshesAreSpaced' /\ LastIsLatest'
    BY <1>3, <1>6, <2>2, <2>3 DEF UsageInv, RefreshesAreSpaced, LastIsLatest
  <2>8. AnswersAreGiven' /\ OnlyVisitsAgeTheCache'
    BY <2>2 DEF UsageInv, AnswersAreGiven, OnlyVisitsAgeTheCache
  <2>9. NoRequestIsForgotten'
    <3>1. Counting(b)' = Counting(b) \ {w} /\ \A a \in LAccounts \ {b} : Counting(a)' = Counting(a)
      BY <1>1, <2>1, <2>3 DEF Counting
    <3>2. old.pending + k + 1 >= asked[b] /\ old.pending \in 0..Threshold
      BY <1>3, <1>8, <1>9
    <3>3. Cardinality(Counting(b)') = k /\ tracker'[b].pending = p /\ asked'[b] = asked[b]
      BY <1>6, <1>8, <2>2, <2>3, <3>1
    <3>4. p + k >= asked[b]
      BY <1>4, <1>9, <3>2
    <3>5. \A a \in LAccounts \ {b} : tracker'[a].pending + Cardinality(Counting(a)') >= asked'[a]
      BY <1>9, <2>2, <2>3, <3>1
    <3>6. tracker'[b].pending + Cardinality(Counting(b)') >= asked'[b]
      BY <3>3, <3>4
    <3> QED BY <3>5, <3>6 DEF NoRequestIsForgotten
  <2> QED BY <2>4, <2>6, <2>7, <2>8, <2>9 DEF UsageInv
<1> QED BY <1>10, <1>11

\* complete_usage_refresh: in_flight is cleared, and no request is taken back.
LEMMA CompletedTracker ==
    ASSUME NEW t \in Trackers, NEW success \in BOOLEAN
    PROVE  /\ Completed(t, success) \in Trackers /\ Completed(t, success).last = t.last
           /\ Completed(t, success).in_flight = FALSE
           /\ Completed(t, success).pending >= t.pending
<1>1. PICK p : p = IF success THEN t.pending ELSE Max({t.pending, Threshold - 1})
  OBVIOUS
<1>2. p \in 0..Threshold /\ p >= t.pending
  <2>1. t.pending \in 0..Threshold /\ t.pending \in Nat /\ Threshold - 1 \in Nat
    BY UsageRefreshAssumption DEF Trackers
  <2>2. Max({t.pending, Threshold - 1}) \in 0..Threshold /\ Max({t.pending, Threshold - 1}) >= t.pending
    <3>1. Max({t.pending, Threshold - 1}) = IF t.pending <= Threshold - 1 THEN Threshold - 1 ELSE t.pending
      BY <2>1, MinMaxOfTwo
    <3>2. t.pending <= Threshold /\ Threshold \in Nat
      BY <2>1, UsageRefreshAssumption
    <3> QED BY <2>1, <3>1, <3>2
  <2> QED BY <1>1, <2>1, <2>2
<1>3. Completed(t, success) = [t EXCEPT !.in_flight = FALSE, !.pending = p]
  BY <1>1 DEF Completed, Trackers
<1> QED BY <1>2, <1>3 DEF Trackers

\* The executor takes the refresh, or refuses it and in_flight is cleared.
LEMMA EnqueueKeeps ==
    ASSUME UsageInv, NEW w \in LThreads, NEW accepted \in BOOLEAN, EnqueueRefresh(w, accepted)
    PROVE  UsageInv'
<1> USE UsageRefreshAssumption
<1>1. PICK b \in LAccounts : b = logging[w].account
  BY DEF EnqueueRefresh, UsageInv, AtWork
<1>2. Resting \in LoggingThreads /\ Resting.pc = "idle"
  BY DEF Resting, LoggingThreads
<1>3. /\ logging[w].pc = "due" /\ logging' = [logging EXCEPT ![w] = Resting]
      /\ UNCHANGED <<lClock, asked, begun, visit, answers, usageCache, crossed>>
  BY DEF EnqueueRefresh
<1>4. /\ logging' \in [LThreads -> LoggingThreads]
      /\ \A v \in LThreads : logging'[v] = IF v = w THEN Resting ELSE logging[v]
  BY <1>2, <1>3 DEF UsageInv, UsageTyped
<1>5. w \in DueThreads(b) /\ tracker[b] \in Trackers
  BY <1>1, <1>3 DEF DueThreads, UsageInv, UsageTyped
<1>6. tracker[b].in_flight /\ TasksOf(b) = {} /\ DueThreads(b) = {w}
  BY <1>5 DEF UsageInv, OneRefresh, Trackers
<1>7. /\ DueThreads(b)' = {} /\ \A a \in LAccounts \ {b} : DueThreads(a)' = DueThreads(a)
      /\ \A a \in LAccounts : Counting(a)' = Counting(a)
  BY <1>1, <1>2, <1>3, <1>4, <1>6 DEF DueThreads, Counting
<1>8. CASE accepted
  <2>1. PICK x : x = [pc |-> "queued", account |-> b, got |-> 0]
    OBVIOUS
  <2>2. x \in RefreshTasks /\ x.pc = "queued" /\ x.account = b /\ x.got = 0
    BY <2>1 DEF RefreshTasks
  <2>3. PICK j \in LTasks : lTask[j].pc = "none" /\ lTask' = [lTask EXCEPT ![j] = x] /\ tracker' = tracker
    BY <1>1, <1>8, <2>1 DEF EnqueueRefresh
  <2>4. /\ lTask' \in [LTasks -> RefreshTasks]
        /\ \A i \in LTasks : lTask'[i] = IF i = j THEN x ELSE lTask[i]
    BY <2>2, <2>3 DEF UsageInv, UsageTyped
  <2>5. UsageTyped' /\ AtWork'
    BY <1>2, <1>3, <1>4, <2>2, <2>3, <2>4 DEF UsageInv, UsageTyped, AtWork
  <2>6. TasksOf(b)' = {j} /\ \A a \in LAccounts \ {b} : TasksOf(a)' = TasksOf(a)
    BY <1>6, <2>2, <2>3, <2>4 DEF TasksOf
  <2>7. OneRefresh'
    BY <1>6, <1>7, <2>3, <2>6 DEF UsageInv, OneRefresh
  <2>8. RefreshesAreSpaced' /\ LastIsLatest' /\ NoRequestIsForgotten'
    BY <1>3, <1>7, <2>3 DEF UsageInv, RefreshesAreSpaced, LastIsLatest, NoRequestIsForgotten
  <2>9. AnswersAreGiven' /\ OnlyVisitsAgeTheCache'
    <3>1. answers[b] \in 0..MaxAnswers
      BY DEF UsageInv, UsageTyped
    <3> QED BY <1>3, <2>2, <2>4, <3>1 DEF UsageInv, AnswersAreGiven, OnlyVisitsAgeTheCache
  <2> QED BY <2>5, <2>7, <2>8, <2>9 DEF UsageInv
<1>9. CASE ~accepted
  <2>1. PICK t : t = Completed(tracker[b], FALSE)
    OBVIOUS
  <2>2. /\ t \in Trackers /\ t.last = tracker[b].last /\ t.in_flight = FALSE
        /\ t.pending >= tracker[b].pending
    BY <1>5, <2>1, CompletedTracker
  <2>3. tracker' = [tracker EXCEPT ![b] = t] /\ lTask' = lTask
    BY <1>1, <1>9, <2>1 DEF EnqueueRefresh
  <2>4. /\ tracker' \in [LAccounts -> Trackers]
        /\ \A a \in LAccounts : tracker'[a] = IF a = b THEN t ELSE tracker[a]
    BY <2>2, <2>3 DEF UsageInv, UsageTyped
  <2>5. UsageTyped' /\ AtWork'
    BY <1>2, <1>3, <1>4, <2>3, <2>4 DEF UsageInv, UsageTyped, AtWork
  <2>6. \A a \in LAccounts : TasksOf(a)' = TasksOf(a)
    BY <2>3 DEF TasksOf
  <2>7. OneRefresh'
    BY <1>6, <1>7, <2>2, <2>4, <2>6 DEF UsageInv, OneRefresh
  <2>8. RefreshesAreSpaced' /\ LastIsLatest'
    BY <1>3, <2>2, <2>4 DEF UsageInv, RefreshesAreSpaced, LastIsLatest
  <2>9. NoRequestIsForgotten'
    <3>1. \A a \in LAccounts : tracker[a].pending \in Nat /\ tracker'[a].pending \in Nat
            /\ asked[a] \in Nat /\ tracker'[a].pending >= tracker[a].pending
      BY <2>2, <2>4 DEF UsageInv, UsageTyped, Trackers
    <3> QED BY <1>3, <1>7, <3>1, CountingIsFinite DEF UsageInv, NoRequestIsForgotten
  <2>10. AnswersAreGiven' /\ OnlyVisitsAgeTheCache'
    BY <1>3, <2>3 DEF UsageInv, AnswersAreGiven, OnlyVisitsAgeTheCache
  <2> QED BY <2>5, <2>7, <2>8, <2>9, <2>10 DEF UsageInv
<1> QED BY <1>8, <1>9

\* At most one task is about an account.
LEMMA OneTaskEach ==
    ASSUME UsageInv, NEW a \in LAccounts, NEW i \in TasksOf(a), NEW j \in TasksOf(a)
    PROVE  i = j
  BY DEF UsageInv, OneRefresh, UsageTyped, Trackers

\* The upstream's answer, and what a fetch has of it.
LEMMA AnswerGiven ==
    ASSUME UsageInv, NEW a \in LAccounts, NEW ok \in BOOLEAN, UpstreamAnswers(a, ok)
    PROVE  /\ answers' \in [LAccounts -> 0..MaxAnswers] /\ Got(a, ok) \in 0..MaxAnswers
           /\ Got(a, ok) <= answers'[a] /\ (Got(a, ok) # 0 => Got(a, ok) > usageCache[a])
           /\ \A b \in LAccounts : answers[b] <= answers'[b]
<1>1. \A b \in LAccounts : answers[b] \in 0..MaxAnswers /\ usageCache[b] \in 0..MaxAnswers /\ usageCache[b] <= answers[b]
  BY DEF UsageInv, UsageTyped, AnswersAreGiven
<1>2. CASE ok
  BY <1>1, <1>2, UsageRefreshAssumption DEF UpstreamAnswers, Got, UsageInv, UsageTyped
<1>3. CASE ~ok
  BY <1>1, <1>3, UsageRefreshAssumption DEF UpstreamAnswers, Got, UsageInv, UsageTyped
<1> QED BY <1>2, <1>3

\* A task asks the upstream; a failed first attempt may be repeated.
LEMMA TaskFetchesKeeps ==
    ASSUME UsageInv, NEW j \in LTasks, NEW ok \in BOOLEAN, TaskFetches(j, ok) PROVE UsageInv'
<1>1. PICK b \in LAccounts : b = lTask[j].account
  BY DEF TaskFetches, UsageInv, AtWork
<1>2. /\ lTask[j].pc \in {"queued", "again"} /\ UpstreamAnswers(b, ok)
      /\ UNCHANGED <<lClock, tracker, logging, asked, begun, visit, usageCache>>
      /\ crossed' = IF visit[b].pc = "fetched" THEN crossed \cup {b} ELSE crossed
  BY <1>1 DEF TaskFetches
<1>3. PICK got \in 0..MaxAnswers : got = Got(b, ok) /\ got <= answers'[b] /\ (got # 0 => got > usageCache[b])
  BY <1>2, AnswerGiven
<1>4. PICK x \in RefreshTasks : /\ lTask' = [lTask EXCEPT ![j] = x] /\ x.account = b
                                /\ \/ x.pc = "fetched" /\ x.got = got
                                   \/ x.pc = "again" /\ x.got = lTask[j].got
  <2>1. lTask[j] \in RefreshTasks
    BY DEF UsageInv, UsageTyped
  <2>2. CASE lTask' = [lTask EXCEPT ![j].pc = "fetched", ![j].got = Got(b, ok)]
    <3>1. PICK x : x = [lTask[j] EXCEPT !.pc = "fetched", !.got = got]
      OBVIOUS
    <3>2. x \in RefreshTasks /\ x.account = b /\ x.pc = "fetched" /\ x.got = got
      BY <1>1, <2>1, <3>1 DEF RefreshTasks
    <3>3. lTask' = [lTask EXCEPT ![j] = x]
      BY <1>3, <2>2, <3>1 DEF UsageInv, UsageTyped
    <3> QED BY <3>2, <3>3
  <2>3. CASE lTask' = [lTask EXCEPT ![j].pc = "again"]
    <3>1. PICK x : x = [lTask[j] EXCEPT !.pc = "again"]
      OBVIOUS
    <3>2. x \in RefreshTasks /\ x.account = b /\ x.pc = "again" /\ x.got = lTask[j].got
      BY <1>1, <2>1, <3>1 DEF RefreshTasks
    <3>3. lTask' = [lTask EXCEPT ![j] = x]
      BY <2>3, <3>1 DEF UsageInv, UsageTyped
    <3> QED BY <3>2, <3>3
  <2> QED BY <1>1, <2>2, <2>3 DEF TaskFetches
<1>5. /\ lTask' \in [LTasks -> RefreshTasks]
      /\ \A i \in LTasks : lTask'[i] = IF i = j THEN x ELSE lTask[i]
  BY <1>4 DEF UsageInv, UsageTyped
<1>6. UsageTyped' /\ AtWork'
  BY <1>2, <1>4, <1>5, AnswerGiven DEF UsageInv, UsageTyped, AtWork
<1>7. \A a \in LAccounts : DueThreads(a)' = DueThreads(a) /\ TasksOf(a)' = TasksOf(a)
                           /\ Counting(a)' = Counting(a)
  BY <1>1, <1>2, <1>4, <1>5 DEF DueThreads, TasksOf, Counting
<1>8. OneRefresh' /\ NoRequestIsForgotten'
  BY <1>2, <1>7 DEF UsageInv, OneRefresh, NoRequestIsForgotten
<1>9. RefreshesAreSpaced' /\ LastIsLatest'
  BY <1>2 DEF UsageInv, RefreshesAreSpaced, LastIsLatest
<1>10. \A a \in LAccounts : /\ answers[a] <= answers'[a] /\ answers[a] \in Nat /\ answers'[a] \in Nat
                            /\ usageCache[a] \in Nat /\ visit[a].got \in Nat
  BY <1>2, AnswerGiven, UsageRefreshAssumption DEF UsageInv, UsageTyped, Visits
<1>11. AnswersAreGiven'
  <2>1. ASSUME NEW a \in LAccounts, NEW i \in LTasks, lTask'[i].account = a
        PROVE  lTask'[i].got <= answers'[a]
    <3>1. lTask[i].account = a /\ lTask[i].got \in Nat /\ lTask[i].got <= answers[a]
      <4>1. lTask[i].account = a /\ lTask[i] \in RefreshTasks
        BY <1>1, <1>4, <1>5, <2>1 DEF UsageInv, UsageTyped
      <4> QED BY <4>1, UsageRefreshAssumption DEF UsageInv, AnswersAreGiven, RefreshTasks
    <3> QED BY <1>1, <1>3, <1>4, <1>5, <1>10, <3>1
  <2>2. \A a \in LAccounts : usageCache[a] <= answers'[a] /\ visit[a].got <= answers'[a]
    BY <1>10 DEF UsageInv, AnswersAreGiven
  <2>3. ASSUME NEW a \in LAccounts, a \notin crossed', visit[a].pc = "fetched"
        PROVE  \A i \in LTasks : ~(lTask'[i].pc = "fetched" /\ lTask'[i].account = a)
    BY <1>2, <1>4, <1>5, <2>3 DEF UsageInv, AnswersAreGiven
  <2> QED BY <1>2, <2>1, <2>2, <2>3 DEF AnswersAreGiven
<1>12. OnlyVisitsAgeTheCache'
  BY <1>2, <1>3, <1>4, <1>5 DEF UsageInv, OnlyVisitsAgeTheCache
<1> QED BY <1>6, <1>8, <1>9, <1>11, <1>12 DEF UsageInv

\* A task caches its answer: no other fetch of the account was on its way.
LEMMA TaskCachesKeeps == ASSUME UsageInv, NEW j \in LTasks, TaskCaches(j) PROVE UsageInv'
<1>1. PICK q \in RefreshTasks : q = lTask[j] /\ q.pc = "fetched" /\ q.account \in LAccounts
  BY DEF TaskCaches, UsageInv, UsageTyped, AtWork
<1>2. PICK x : x = [q EXCEPT !.pc = "cached"]
  OBVIOUS
<1>3. x \in RefreshTasks /\ x.pc = "cached" /\ x.account = q.account
  BY <1>1, <1>2 DEF RefreshTasks
<1>4. /\ lTask' = [lTask EXCEPT ![j] = x] /\ usageCache' = Cached(q.account, q.got)
      /\ UNCHANGED <<lClock, tracker, logging, asked, begun, visit, answers, crossed>>
  BY <1>1, <1>2 DEF TaskCaches, UsageInv, UsageTyped
<1>5. /\ lTask' \in [LTasks -> RefreshTasks]
      /\ \A i \in LTasks : lTask'[i] = IF i = j THEN x ELSE lTask[i]
  BY <1>3, <1>4 DEF UsageInv, UsageTyped
<1>6. /\ usageCache' \in [LAccounts -> 0..MaxAnswers] /\ q.got \in 0..MaxAnswers
      /\ \A a \in LAccounts : usageCache'[a] = IF a = q.account /\ q.got # 0 THEN q.got ELSE usageCache[a]
  BY <1>1, <1>4 DEF Cached, RefreshTasks, UsageInv, UsageTyped
<1>7. UsageTyped' /\ AtWork'
  BY <1>1, <1>3, <1>4, <1>5, <1>6 DEF UsageInv, UsageTyped, AtWork
<1>8. \A a \in LAccounts : DueThreads(a)' = DueThreads(a) /\ TasksOf(a)' = TasksOf(a)
                           /\ Counting(a)' = Counting(a)
  BY <1>1, <1>3, <1>4, <1>5 DEF DueThreads, TasksOf, Counting
<1>9. OneRefresh' /\ NoRequestIsForgotten'
  BY <1>4, <1>8 DEF UsageInv, OneRefresh, NoRequestIsForgotten
<1>10. RefreshesAreSpaced' /\ LastIsLatest'
  BY <1>4 DEF UsageInv, RefreshesAreSpaced, LastIsLatest
<1>11. q.got <= answers[q.account] /\ x.got = q.got
  BY <1>1, <1>2 DEF UsageInv, AnswersAreGiven, RefreshTasks
<1>12. AnswersAreGiven'
  BY <1>1, <1>3, <1>4, <1>5, <1>6, <1>11 DEF UsageInv, AnswersAreGiven
<1>13. OnlyVisitsAgeTheCache'
  <2> SUFFICES ASSUME NEW a \in LAccounts \ crossed, NEW i \in LTasks, lTask'[i].pc = "fetched",
                      lTask'[i].account = a, lTask'[i].got # 0
               PROVE  usageCache'[a] < lTask'[i].got
    BY <1>4 DEF OnlyVisitsAgeTheCache
  <2>1. i # j /\ lTask'[i] = lTask[i]
    BY <1>3, <1>5
  <2>2. a # q.account
    BY <1>1, <2>1, OneTaskEach DEF TasksOf
  <2> QED BY <1>6, <2>1, <2>2 DEF UsageInv, OnlyVisitsAgeTheCache
<1> QED BY <1>7, <1>9, <1>10, <1>12, <1>13 DEF UsageInv

\* The refresh is over: the tracker lets the next one begin.
LEMMA TaskCompletesKeeps ==
    ASSUME UsageInv, NEW j \in LTasks, NEW success \in BOOLEAN, TaskCompletes(j, success)
    PROVE  UsageInv'
<1>1. PICK b \in LAccounts : b = lTask[j].account
  BY DEF TaskCompletes, UsageInv, AtWork
<1>2. NoRefresh \in RefreshTasks /\ NoRefresh.pc = "none" /\ NoRefresh.account = NoOne
  BY UsageRefreshAssumption DEF NoRefresh, RefreshTasks
<1>3. /\ lTask[j].pc = "cached" /\ lTask' = [lTask EXCEPT ![j] = NoRefresh]
      /\ UNCHANGED <<lClock, logging, asked, begun, visit, answers, usageCache, crossed>>
  BY DEF TaskCompletes
<1>4. /\ lTask' \in [LTasks -> RefreshTasks]
      /\ \A i \in LTasks : lTask'[i] = IF i = j THEN NoRefresh ELSE lTask[i]
  BY <1>2, <1>3 DEF UsageInv, UsageTyped
<1>5. j \in TasksOf(b) /\ tracker[b] \in Trackers
  BY <1>1, <1>3 DEF TasksOf, UsageInv, UsageTyped
<1>6. DueThreads(b) = {} /\ TasksOf(b) = {j}
  BY <1>5 DEF UsageInv, OneRefresh, Trackers
<1>7. PICK t : t = Completed(tracker[b], success)
  OBVIOUS
<1>8. /\ t \in Trackers /\ t.last = tracker[b].last /\ t.in_flight = FALSE
      /\ t.pending >= tracker[b].pending
  BY <1>5, <1>7, CompletedTracker
<1>9. tracker' = [tracker EXCEPT ![b] = t]
  BY <1>1, <1>7 DEF TaskCompletes
<1>10. /\ tracker' \in [LAccounts -> Trackers]
       /\ \A a \in LAccounts : tracker'[a] = IF a = b THEN t ELSE tracker[a]
  BY <1>8, <1>9 DEF UsageInv, UsageTyped
<1>11. UsageTyped' /\ AtWork'
  BY <1>2, <1>3, <1>4, <1>10 DEF UsageInv, UsageTyped, AtWork
<1>12. /\ TasksOf(b)' = {} /\ \A a \in LAccounts \ {b} : TasksOf(a)' = TasksOf(a)
       /\ \A a \in LAccounts : DueThreads(a)' = DueThreads(a) /\ Counting(a)' = Counting(a)
  BY <1>1, <1>2, <1>3, <1>4, <1>6 DEF DueThreads, Counting, TasksOf
<1>13. OneRefresh'
  BY <1>6, <1>8, <1>10, <1>12 DEF UsageInv, OneRefresh
<1>14. RefreshesAreSpaced' /\ LastIsLatest'
  BY <1>3, <1>8, <1>10 DEF UsageInv, RefreshesAreSpaced, LastIsLatest
<1>15. NoRequestIsForgotten'
  <2>1. \A a \in LAccounts : tracker[a].pending \in Nat /\ tracker'[a].pending \in Nat
          /\ asked[a] \in Nat /\ tracker'[a].pending >= tracker[a].pending
    BY <1>8, <1>10 DEF UsageInv, UsageTyped, Trackers
  <2> QED BY <1>3, <1>12, <2>1, CountingIsFinite DEF UsageInv, NoRequestIsForgotten
<1>16. AnswersAreGiven' /\ OnlyVisitsAgeTheCache'
  BY <1>2, <1>3, <1>4, UsageRefreshAssumption DEF UsageInv, AnswersAreGiven, OnlyVisitsAgeTheCache
<1> QED BY <1>11, <1>13, <1>14, <1>15, <1>16 DEF UsageInv

\* A fetch that does not go through the tracker: it may cross the account's refresh.
LEMMA VisitsKeep ==
    ASSUME UsageInv, NEW b \in LAccounts,
           VisitCaches(b) \/ \E ok \in BOOLEAN : VisitFetches(b, ok)
    PROVE  UsageInv'
<1>1. UNCHANGED trackerVars
  BY DEF VisitCaches, VisitFetches
<1>2. AtWork' /\ RefreshesAreSpaced' /\ LastIsLatest'
  BY <1>1 DEF trackerVars, UsageInv, AtWork, RefreshesAreSpaced, LastIsLatest
<1>3. OneRefresh' /\ NoRequestIsForgotten'
  BY <1>1 DEF trackerVars, UsageInv, OneRefresh, NoRequestIsForgotten, DueThreads, TasksOf, Counting
<1>4. CASE VisitCaches(b)
  <2>1. PICK v : v = [pc |-> "none", got |-> 0]
    OBVIOUS
  <2>2. v \in Visits /\ v.pc = "none" /\ v.got = 0
    BY <2>1, UsageRefreshAssumption DEF Visits
  <2>3. PICK got \in 0..MaxAnswers : got = visit[b].got /\ got <= answers[b]
    BY DEF UsageInv, UsageTyped, Visits, AnswersAreGiven
  <2>4. /\ visit' = [visit EXCEPT ![b] = v] /\ UNCHANGED <<answers, crossed>> /\ visit[b].pc = "fetched"
        /\ usageCache' = Cached(b, got)
    BY <1>4, <2>1, <2>3 DEF VisitCaches
  <2>5. /\ visit' \in [LAccounts -> Visits] /\ usageCache' \in [LAccounts -> 0..MaxAnswers]
        /\ \A a \in LAccounts : visit'[a] = IF a = b THEN v ELSE visit[a]
        /\ \A a \in LAccounts : usageCache'[a] = IF a = b /\ got # 0 THEN got ELSE usageCache[a]
    <3>1. visit \in [LAccounts -> Visits] /\ usageCache \in [LAccounts -> 0..MaxAnswers]
      BY DEF UsageInv, UsageTyped
    <3>2. /\ usageCache' \in [LAccounts -> 0..MaxAnswers]
          /\ \A a \in LAccounts : usageCache'[a] = IF a = b /\ got # 0 THEN got ELSE usageCache[a]
      BY <2>4, <3>1 DEF Cached
    <3> QED BY <2>2, <2>4, <3>1, <3>2
  <2>6. UsageTyped'
    BY <1>1, <2>4, <2>5 DEF trackerVars, UsageInv, UsageTyped
  <2>7. AnswersAreGiven'
    <3>1. answers[b] \in 0..MaxAnswers
      BY DEF UsageInv, UsageTyped
    <3>2. \A a \in LAccounts : usageCache'[a] <= answers[a] /\ visit'[a].got <= answers[a]
      BY <2>2, <2>3, <2>5, <3>1 DEF UsageInv, AnswersAreGiven
    <3>3. \A a \in LAccounts : visit'[a].pc = "fetched" => visit[a].pc = "fetched"
      BY <2>2, <2>5
    <3>4. lTask' = lTask
      BY <1>1 DEF trackerVars
    <3> QED BY <2>4, <3>2, <3>3, <3>4 DEF UsageInv, AnswersAreGiven
  <2>8. OnlyVisitsAgeTheCache'
    <3>1. lTask' = lTask
      BY <1>1 DEF trackerVars
    <3>2. ASSUME NEW a \in LAccounts \ crossed, NEW i \in LTasks, lTask[i].pc = "fetched",
                 lTask[i].account = a, lTask[i].got # 0
          PROVE  usageCache'[a] < lTask[i].got
      <4>1. a # b
        BY <2>4, <3>2 DEF UsageInv, AnswersAreGiven
      <4> QED BY <2>5, <3>2, <4>1 DEF UsageInv, OnlyVisitsAgeTheCache
    <3> QED BY <2>4, <3>1, <3>2 DEF OnlyVisitsAgeTheCache
  <2> QED BY <1>2, <1>3, <2>6, <2>7, <2>8 DEF UsageInv
<1>5. ASSUME NEW ok \in BOOLEAN, VisitFetches(b, ok)
      PROVE  UsageInv'
  <2>1. UpstreamAnswers(b, ok) /\ usageCache' = usageCache
        /\ crossed' = IF \E j \in LTasks : lTask[j].pc = "fetched" /\ lTask[j].account = b
                      THEN crossed \cup {b} ELSE crossed
    BY <1>5 DEF VisitFetches
  <2>2. PICK got \in 0..MaxAnswers : got = Got(b, ok) /\ got <= answers'[b]
    BY <2>1, AnswerGiven
  <2>3. PICK v : v = [pc |-> "fetched", got |-> got]
    OBVIOUS
  <2>4. v \in Visits /\ v.pc = "fetched" /\ v.got = got
    BY <2>3 DEF Visits
  <2>5. /\ visit' \in [LAccounts -> Visits]
        /\ \A a \in LAccounts : visit'[a] = IF a = b THEN v ELSE visit[a]
    BY <1>5, <2>2, <2>3, <2>4 DEF VisitFetches, UsageInv, UsageTyped
  <2>6. UsageTyped'
    BY <1>1, <2>1, <2>5, AnswerGiven DEF trackerVars, UsageInv, UsageTyped
  <2>7. \A a \in LAccounts : /\ answers[a] <= answers'[a] /\ answers[a] \in Nat /\ answers'[a] \in Nat
                             /\ usageCache[a] \in Nat /\ visit[a].got \in Nat
    BY <2>1, AnswerGiven, UsageRefreshAssumption DEF UsageInv, UsageTyped, Visits
  <2>8. AnswersAreGiven'
    <3>1. \A a \in LAccounts : usageCache[a] <= answers'[a] /\ visit'[a].got <= answers'[a]
      BY <2>2, <2>4, <2>5, <2>7 DEF UsageInv, AnswersAreGiven
    <3>2. ASSUME NEW a \in LAccounts, NEW i \in LTasks, lTask[i].account = a
          PROVE  lTask[i].got <= answers'[a]
      <4>1. lTask[i].got <= answers[a] /\ lTask[i] \in RefreshTasks
        BY <3>2 DEF UsageInv, AnswersAreGiven, UsageTyped
      <4>2. lTask[i].got \in Nat
        BY <4>1, UsageRefreshAssumption DEF RefreshTasks
      <4> QED BY <2>7, <4>1, <4>2
    <3>3. ASSUME NEW a \in LAccounts, a \notin crossed', visit'[a].pc = "fetched"
          PROVE  \A i \in LTasks : ~(lTask[i].pc = "fetched" /\ lTask[i].account = a)
      BY <2>1, <2>5, <3>3 DEF UsageInv, AnswersAreGiven
    <3>4. lTask' = lTask
      BY <1>1 DEF trackerVars
    <3> QED BY <2>1, <3>1, <3>2, <3>3, <3>4 DEF AnswersAreGiven
  <2>9. OnlyVisitsAgeTheCache'
    BY <1>1, <2>1 DEF trackerVars, UsageInv, OnlyVisitsAgeTheCache
  <2> QED BY <1>2, <1>3, <2>6, <2>8, <2>9 DEF UsageInv
<1> QED BY <1>4, <1>5

\* Every step of the refreshes keeps the invariant.
LEMMA UsageNextKeeps == UsageInv /\ [UsageNext]_usageVars => UsageInv'
<1> SUFFICES ASSUME UsageInv, [UsageNext]_usageVars PROVE UsageInv'
  OBVIOUS
<1>1. CASE Tick \/ UNCHANGED usageVars
  <2>1. /\ UNCHANGED <<tracker, logging, lTask, asked, begun, visit, answers, usageCache, crossed>>
        /\ lClock' \in 1..MaxNow
    BY <1>1, UsageRefreshAssumption DEF Tick, usageVars, trackerVars, UsageInv, UsageTyped
  <2> QED BY <2>1 DEF UsageInv, UsageTyped, AtWork, OneRefresh, DueThreads, TasksOf, RefreshesAreSpaced,
          LastIsLatest, NoRequestIsForgotten, Counting, AnswersAreGiven, OnlyVisitsAgeTheCache
<1>2. ASSUME NEW w \in LThreads, NEW routed \in LAccounts \cup {NoOne}, NEW inAnswer \in LAccounts \cup {NoOne},
             NEW inRequest \in LAccounts \cup {NoOne}, NEW status, NEW onResponses,
             PersistRequestLog(w, ResolveAccountId(routed, inAnswer, inRequest), status, onResponses)
      PROVE  UsageInv'
  <2>1. ResolveAccountId(routed, inAnswer, inRequest) \in LAccounts \cup {NoOne}
    BY DEF ResolveAccountId
  <2> QED BY <1>2, <2>1, PersistKeeps
<1> QED BY SMTT(60), <1>1, <1>2, MarkKeeps, EnqueueKeeps, TaskFetchesKeeps, TaskCachesKeeps, TaskCompletesKeeps,
        VisitsKeep DEF UsageNext

\* The invariant says what UsageSafety says.
LEMMA UsageInvIsSafe == UsageInv => UsageSafety
<1> SUFFICES ASSUME UsageInv PROVE UsageSafety
  OBVIOUS
<1>1. UsageTypeOK
  <2>1. \A w \in LThreads : logging[w] \in LoggingThreads
    BY DEF UsageInv, UsageTyped
  <2>2. \A j \in LTasks : lTask[j] \in RefreshTasks
    BY DEF UsageInv, UsageTyped
  <2> QED BY <2>1, <2>2 DEF UsageInv, UsageTyped, UsageTypeOK, Trackers, LoggingThreads, RefreshTasks
<1>2. InFlightHasOneRefresh
  <2> SUFFICES ASSUME NEW a \in LAccounts
               PROVE  Cardinality(DueThreads(a)) + Cardinality(TasksOf(a))
                        = IF tracker[a].in_flight THEN 1 ELSE 0
    BY DEF InFlightHasOneRefresh, DueThreads, TasksOf
  <2>1. Cardinality({}) = 0 /\ \A x : Cardinality({x}) = 1
    BY FS_EmptySet, FS_Singleton
  <2>2. CASE ~tracker[a].in_flight
    <3>1. DueThreads(a) = {} /\ TasksOf(a) = {}
      BY <2>2 DEF UsageInv, OneRefresh
    <3> QED BY <2>1, <2>2, <3>1
  <2>3. CASE tracker[a].in_flight
    <3>1. \/ TasksOf(a) = {} /\ \E w \in LThreads : DueThreads(a) = {w}
          \/ DueThreads(a) = {} /\ \E j \in LTasks : TasksOf(a) = {j}
      BY <2>3 DEF UsageInv, OneRefresh
    <3>2. \/ Cardinality(TasksOf(a)) = 0 /\ Cardinality(DueThreads(a)) = 1
          \/ Cardinality(DueThreads(a)) = 0 /\ Cardinality(TasksOf(a)) = 1
      BY <2>1, <3>1
    <3> QED BY <2>3, <3>2
  <2> QED BY <2>2, <2>3
<1> QED BY <1>1, <1>2 DEF UsageInv, UsageSafety

\* For any number of threads, tasks and accounts, any threshold and any interval:
\* in_flight is set exactly while one refresh is on its way, refreshes are spaced,
\* no request is forgotten, and only a fetch past the tracker ages the cache.
THEOREM UsageIsSafe == UsageSpec => []UsageSafety
  BY UsageInvIsSafe, UsageInitHolds, UsageNextKeeps, PTL DEF UsageSpec


-----------------------------------------------------------------------------
(* Account traffic *)

Totals == [up : 0..MaxBytes, down : 0..MaxBytes, at : 0..MaxTick]
Publications == [account : TAccounts, copy : Totals]
Copies == [account : TAccounts, copy : Totals, emit : BOOLEAN, told : BOOLEAN]

TrafficTyped ==
    /\ tNow \in Throttle..MaxTick
    /\ entry \in [TAccounts -> Totals] /\ desktop \in [TAccounts -> Totals]
    /\ lastEmit \in [TAccounts -> 0..MaxTick]
    /\ carry \in [TWorkers -> Copies \cup {Nothing}]
    /\ deferred \in Seq(Publications)
    /\ dash \in [open : BOOLEAN, shown : [TAccounts -> Totals \cup {Nothing}]]
    /\ \A a \in TAccounts : lastEmit[a] <= tNow

\* The worker w has a copy of the account a.
Carries(w, a) == carry[w] # Nothing /\ carry[w].account = a

\* A worker has yet to hand its copy of the account to the event loop.
Untold(a) == \E w \in TWorkers : Carries(w, a) /\ ~carry[w].told

\* The account's last publication in the queue.
IsLast(i, a) ==
    /\ i \in 1..Len(deferred) /\ deferred[i].account = a
    /\ \A j \in 1..Len(deferred) : j > i => deferred[j].account # a

\* Of an account that two workers never recorded at once, the copy that will
\* be shown last is the entry, wherever on its way to the displays it is.
NewestIsLast ==
    \A a \in TAccounts \ mixed :
        /\ \A v, w \in TWorkers : Carries(v, a) /\ Carries(w, a) => v = w
        /\ \A w \in TWorkers : Carries(w, a) => carry[w].copy = entry[a]
        /\ ~Untold(a) => \A i \in 1..Len(deferred) : IsLast(i, a) => deferred[i].copy = entry[a]
        /\ ~Untold(a) /\ (\A i \in 1..Len(deferred) : deferred[i].account # a) =>
             (dash.open /\ dash.shown[a] # Nothing => dash.shown[a] = entry[a])

\* The last event is from the time of traffic_last_emit_at, once it is emitted.
EventsFollowEmits ==
    /\ \A a \in TAccounts : entry[a].at - lastEmit[a] < Throttle
    /\ \A a \in TAccounts \ mixed :
         /\ \A w \in TWorkers : Carries(w, a) /\ carry[w].emit => entry[a].at = lastEmit[a]
         /\ (\A w \in TWorkers : Carries(w, a) => ~carry[w].emit) => desktop[a].at = lastEmit[a]

TrafficInv == TrafficTyped /\ NewestIsLast /\ EventsFollowEmits

\* No copy is the absence of one.
LEMMA CopiesAreSomething == Nothing \notin Copies
<1>1. Copies \subseteq [account : TAccounts, copy : [up : Nat, down : Nat, at : Nat],
                        emit : BOOLEAN, told : BOOLEAN]
  BY TrafficAssumption DEF Copies, Totals
<1> QED BY <1>1, TrafficAssumption

\* No bytes, no copy and no display at the start.
LEMMA TrafficInitHolds == TrafficInit => TrafficInv
<1> SUFFICES ASSUME TrafficInit PROVE TrafficInv
  OBVIOUS
<1> USE TrafficAssumption
<1>1. NoBytes \in Totals /\ NoBytes.at = 0
  BY DEF NoBytes, Totals
<1>2. Blank \in [TAccounts -> Totals \cup {Nothing}]
  BY DEF Blank
<1>3. TrafficTyped
  BY <1>1, <1>2 DEF TrafficInit, TrafficTyped
<1>4. NewestIsLast
  <2>1. 1..Len(deferred) = {} /\ dash.open = FALSE /\ \A a \in TAccounts, w \in TWorkers : ~Carries(w, a)
    BY DEF TrafficInit, Carries
  <2> QED BY <2>1 DEF NewestIsLast
<1>5. EventsFollowEmits
  BY <1>1 DEF TrafficInit, EventsFollowEmits, Carries
<1> QED BY <1>3, <1>4, <1>5 DEF TrafficInv

\* record_traffic: the copy is the entry, and whoever else carries one mixes
\* the account.
LEMMA RecordKeeps ==
    ASSUME TrafficInv, NEW w \in TWorkers, NEW a \in TAccounts, NEW egress \in BOOLEAN,
           RecordTraffic(w, a, egress)
    PROVE  TrafficInv'
<1> USE TrafficAssumption
<1>1. /\ entry[a] \in Totals /\ lastEmit[a] \in 0..MaxTick /\ tNow \in Throttle..MaxTick
      /\ carry[w] = Nothing /\ lastEmit[a] <= tNow /\ entry[a].up + entry[a].down < MaxBytes
  BY DEF TrafficInv, TrafficTyped, RecordTraffic
<1>2. PICK n : n = IF egress THEN [entry[a] EXCEPT !.up = @ + 1, !.at = tNow]
                             ELSE [entry[a] EXCEPT !.down = @ + 1, !.at = tNow]
  OBVIOUS
<1>3. n \in Totals /\ n.at = tNow
  <2>1. entry[a].up + 1 \in 0..MaxBytes /\ entry[a].down + 1 \in 0..MaxBytes /\ tNow \in 0..MaxTick
    BY <1>1 DEF Totals
  <2> QED BY <1>1, <1>2, <2>1 DEF Totals
<1>4. PICK emit \in BOOLEAN : emit = Emits(a)
  <2>1. Emits(a) \in BOOLEAN
    BY <1>1 DEF Emits
  <2> QED BY <2>1
<1>5. PICK l : l = LastEmitAfter(a)
  OBVIOUS
<1>6. l \in 0..MaxTick /\ l <= tNow /\ tNow - l < Throttle /\ (emit => l = tNow) /\ (~emit => l = lastEmit[a])
  <2>1. CASE Emits(a)
    BY <1>1, <1>4, <1>5, <2>1 DEF LastEmitAfter
  <2>2. CASE ~Emits(a)
    <3>1. tNow - lastEmit[a] < Throttle
      BY <1>1, <2>2 DEF Emits
    <3>2. l = lastEmit[a]
      BY <1>5, <2>2 DEF LastEmitAfter
    <3> QED BY <1>1, <1>4, <2>2, <3>1, <3>2
  <2> QED BY <2>1, <2>2
<1>7. PICK c : c = [account |-> a, copy |-> n, emit |-> emit, told |-> FALSE]
  OBVIOUS
<1>8. c \in Copies /\ c # Nothing /\ c.account = a /\ c.copy = n /\ c.emit = emit /\ c.told = FALSE
  <2>1. c \in Copies
    BY <1>3, <1>4, <1>7 DEF Copies
  <2>2. c.account = a /\ c.copy = n /\ c.emit = emit /\ c.told = FALSE
    BY <1>7
  <2> QED BY <2>1, <2>2, CopiesAreSomething
<1>9. /\ entry' = [entry EXCEPT ![a] = n] /\ lastEmit' = [lastEmit EXCEPT ![a] = l]
      /\ carry' = [carry EXCEPT ![w] = c] /\ UNCHANGED <<tNow, deferred, dash, desktop>>
      /\ mixed' = IF \E v \in TWorkers : Carries(v, a) THEN mixed \cup {a} ELSE mixed
  BY <1>2, <1>4, <1>5, <1>7 DEF RecordTraffic, Carries
<1>10. TrafficTyped'
  <2>1. entry' \in [TAccounts -> Totals] /\ lastEmit' \in [TAccounts -> 0..MaxTick]
        /\ carry' \in [TWorkers -> Copies \cup {Nothing}]
    BY <1>3, <1>6, <1>8, <1>9 DEF TrafficInv, TrafficTyped
  <2>2. \A b \in TAccounts : lastEmit'[b] <= tNow
    BY <1>6, <1>9 DEF TrafficInv, TrafficTyped
  <2> QED BY <1>9, <2>1, <2>2 DEF TrafficInv, TrafficTyped
<1>11. /\ \A b \in TAccounts : /\ entry'[b] = IF b = a THEN n ELSE entry[b]
                               /\ lastEmit'[b] = IF b = a THEN l ELSE lastEmit[b]
       /\ \A v \in TWorkers : carry'[v] = IF v = w THEN c ELSE carry[v]
  BY <1>9 DEF TrafficInv, TrafficTyped
<1>12. \A b \in TAccounts \ {a} : \A v \in TWorkers :
          (Carries(v, b)' <=> Carries(v, b)) /\ (Carries(v, b) => carry'[v] = carry[v])
  BY <1>1, <1>8, <1>11 DEF Carries
<1>13. Carries(w, a)' /\ Untold(a)'
  BY <1>8, <1>11 DEF Carries, Untold
<1>14. a \notin mixed' => \A v \in TWorkers : Carries(v, a)' => v = w
  BY <1>9, <1>11 DEF Carries
<1>15. mixed \subseteq mixed' /\ mixed' \subseteq mixed \cup {a}
  BY <1>9
<1>16. NewestIsLast'
  <2> SUFFICES ASSUME NEW b \in TAccounts \ mixed'
               PROVE  /\ \A u, v \in TWorkers : Carries(u, b)' /\ Carries(v, b)' => u = v
                      /\ \A v \in TWorkers : Carries(v, b)' => carry'[v].copy = entry'[b]
                      /\ ~Untold(b)' => \A i \in 1..Len(deferred) : IsLast(i, b) => deferred[i].copy = entry'[b]
                      /\ ~Untold(b)' /\ (\A i \in 1..Len(deferred) : deferred[i].account # b) =>
                           (dash.open /\ dash.shown[b] # Nothing => dash.shown[b] = entry'[b])
    BY <1>9 DEF NewestIsLast, IsLast
  <2>1. CASE b = a
    BY <1>8, <1>11, <1>13, <1>14, <2>1
  <2>2. CASE b # a
    <3>1. Untold(b)' <=> Untold(b)
      BY <1>12, <2>2 DEF Untold
    <3> QED BY <1>11, <1>12, <1>15, <2>2, <3>1 DEF TrafficInv, NewestIsLast
  <2> QED BY <2>1, <2>2
<1>17. EventsFollowEmits'
  <2>1. \A b \in TAccounts : entry'[b].at - lastEmit'[b] < Throttle
    BY <1>3, <1>6, <1>11 DEF TrafficInv, EventsFollowEmits
  <2>2. ASSUME NEW b \in TAccounts \ mixed'
        PROVE  /\ \A v \in TWorkers : Carries(v, b)' /\ carry'[v].emit => entry'[b].at = lastEmit'[b]
               /\ (\A v \in TWorkers : Carries(v, b)' => ~carry'[v].emit) => desktop'[b].at = lastEmit'[b]
    <3>1. CASE b # a
      BY <1>9, <1>11, <1>12, <1>15, <2>2, <3>1 DEF TrafficInv, EventsFollowEmits
    <3>2. CASE b = a
      <4>1. ~emit => desktop[a].at = lastEmit[a]
        <5>1. \A v \in TWorkers : ~Carries(v, a)
          BY <1>9, <2>2, <3>2
        <5> QED BY <1>15, <2>2, <3>2, <5>1 DEF TrafficInv, EventsFollowEmits
      <4> QED BY <1>3, <1>6, <1>8, <1>9, <1>11, <1>13, <1>14, <2>2, <3>2, <4>1
    <3> QED BY <3>1, <3>2
  <2> QED BY <2>1, <2>2 DEF EventsFollowEmits
<1> QED BY <1>10, <1>16, <1>17 DEF TrafficInv

\* The callback puts the worker's copy at the end of the queue.
LEMMA CallBackKeeps == ASSUME TrafficInv, NEW w \in TWorkers, CallBack(w) PROVE TrafficInv'
<1> USE TrafficAssumption
<1>1. PICK c \in Copies : c = carry[w] /\ c # Nothing /\ ~c.told
  BY DEF CallBack, TrafficInv, TrafficTyped
<1>2. PICK d : d = [c EXCEPT !.told = TRUE]
  OBVIOUS
<1>3. /\ d \in Copies /\ d # Nothing /\ d.told /\ d.account = c.account /\ d.copy = c.copy
      /\ d.emit = c.emit
  BY <1>1, <1>2, CopiesAreSomething DEF Copies
<1>4. PICK x : x = [account |-> c.account, copy |-> c.copy]
  OBVIOUS
<1>5. x \in Publications /\ x.account = c.account /\ x.copy = c.copy
  BY <1>1, <1>4 DEF Copies, Publications
<1>6. /\ deferred' = Append(deferred, x) /\ carry' = [carry EXCEPT ![w] = d]
      /\ UNCHANGED <<tNow, entry, lastEmit, dash, desktop, mixed>>
  BY <1>1, <1>2, <1>4 DEF CallBack, TrafficInv, TrafficTyped
<1>7. /\ carry' \in [TWorkers -> Copies \cup {Nothing}]
      /\ \A v \in TWorkers : carry'[v] = IF v = w THEN d ELSE carry[v]
      /\ deferred \in Seq(Publications)
  BY <1>3, <1>6 DEF TrafficInv, TrafficTyped
<1>8. /\ deferred' \in Seq(Publications)
      /\ Len(deferred') = Len(deferred) + 1 /\ deferred'[Len(deferred) + 1] = x
      /\ Len(deferred) \in Nat /\ \A i \in 1..Len(deferred) : deferred'[i] = deferred[i]
  BY <1>5, <1>6, <1>7
<1>9. TrafficTyped'
  BY <1>6, <1>7, <1>8 DEF TrafficInv, TrafficTyped
<1>10. \A b \in TAccounts, v \in TWorkers :
          /\ Carries(v, b)' <=> Carries(v, b)
          /\ Carries(v, b) => carry'[v].copy = carry[v].copy /\ carry'[v].emit = carry[v].emit
  BY <1>1, <1>3, <1>7 DEF Carries
<1>11. EventsFollowEmits'
  BY <1>6, <1>10 DEF TrafficInv, EventsFollowEmits
<1>12. NewestIsLast'
  <2> SUFFICES ASSUME NEW b \in TAccounts \ mixed
               PROVE  /\ \A u, v \in TWorkers : Carries(u, b)' /\ Carries(v, b)' => u = v
                      /\ \A v \in TWorkers : Carries(v, b)' => carry'[v].copy = entry[b]
                      /\ ~Untold(b)' => \A i \in 1..Len(deferred') : IsLast(i, b)' => deferred'[i].copy = entry[b]
                      /\ ~Untold(b)' /\ (\A i \in 1..Len(deferred') : deferred'[i].account # b) =>
                           (dash.open /\ dash.shown[b] # Nothing => dash.shown[b] = entry[b])
    BY <1>6 DEF NewestIsLast
  <2>1. /\ \A u, v \in TWorkers : Carries(u, b)' /\ Carries(v, b)' => u = v
        /\ \A v \in TWorkers : Carries(v, b)' => carry'[v].copy = entry[b]
    BY <1>10 DEF TrafficInv, NewestIsLast
  <2>2. CASE c.account = b
    <3>1. x.copy = entry[b] /\ deferred'[Len(deferred')].account = b
      <4>1. Carries(w, b)
        BY <1>1, <2>2 DEF Carries
      <4> QED BY <1>1, <1>5, <1>8, <2>2, <4>1 DEF TrafficInv, NewestIsLast
    <3>2. \A i \in 1..Len(deferred') : IsLast(i, b)' => i = Len(deferred) + 1
      BY <1>8, <3>1 DEF IsLast
    <3>3. Len(deferred') \in 1..Len(deferred')
      BY <1>8
    <3> QED BY <1>8, <2>1, <3>1, <3>2, <3>3
  <2>3. CASE c.account # b
    <3>1. Untold(b)' <=> Untold(b)
      BY <1>1, <1>3, <1>7, <2>3 DEF Untold, Carries
    <3>2. \A i \in 1..Len(deferred') : IsLast(i, b)' => i \in 1..Len(deferred) /\ IsLast(i, b)
      BY <1>5, <1>8, <2>3 DEF IsLast
    <3>3. 1..Len(deferred) \subseteq 1..Len(deferred')
      BY <1>8
    <3> QED BY <1>8, <2>1, <3>1, <3>2, <3>3 DEF TrafficInv, NewestIsLast
  <2> QED BY <2>2, <2>3
<1> QED BY <1>9, <1>11, <1>12 DEF TrafficInv

\* The event is emitted or throttled, and the worker has no copy any more.
LEMMA EmitKeeps == ASSUME TrafficInv, NEW w \in TWorkers, EmitEvent(w) PROVE TrafficInv'
<1>1. PICK c \in Copies : c = carry[w] /\ c # Nothing /\ c.told
  BY DEF EmitEvent, TrafficInv, TrafficTyped
<1>2. c.account \in TAccounts /\ c.copy \in Totals /\ c.emit \in BOOLEAN
  BY <1>1 DEF Copies
<1>3. /\ desktop' = IF c.emit THEN [desktop EXCEPT ![c.account] = c.copy] ELSE desktop
      /\ carry' = [carry EXCEPT ![w] = Nothing]
      /\ UNCHANGED <<tNow, entry, lastEmit, deferred, dash, mixed>>
  BY <1>1 DEF EmitEvent
<1>4. /\ desktop' \in [TAccounts -> Totals] /\ carry' \in [TWorkers -> Copies \cup {Nothing}]
      /\ \A v \in TWorkers : carry'[v] = IF v = w THEN Nothing ELSE carry[v]
      /\ \A b \in TAccounts : desktop'[b] = IF c.emit /\ b = c.account THEN c.copy ELSE desktop[b]
  BY <1>2, <1>3 DEF TrafficInv, TrafficTyped
<1>5. TrafficTyped'
  BY <1>3, <1>4 DEF TrafficInv, TrafficTyped
<1>6. \A b \in TAccounts, v \in TWorkers :
        /\ Carries(v, b)' <=> Carries(v, b) /\ v # w
        /\ Carries(v, b)' => carry'[v] = carry[v]
  BY <1>4 DEF Carries
<1>7. \A b \in TAccounts : Untold(b)' <=> Untold(b)
  BY <1>1, <1>4 DEF Untold, Carries
<1>8. NewestIsLast'
  BY <1>3, <1>6, <1>7 DEF TrafficInv, NewestIsLast, IsLast
<1>9. EventsFollowEmits'
  <2>1. ASSUME NEW b \in TAccounts \ mixed
        PROVE  /\ \A v \in TWorkers : Carries(v, b)' /\ carry'[v].emit => entry[b].at = lastEmit[b]
               /\ (\A v \in TWorkers : Carries(v, b)' => ~carry'[v].emit) => desktop'[b].at = lastEmit[b]
    <3>1. CASE b # c.account
      BY <1>1, <1>4, <1>6, <3>1 DEF TrafficInv, EventsFollowEmits, Carries
    <3>2. CASE b = c.account
      <4>1. Carries(w, b) /\ \A v \in TWorkers : Carries(v, b) => v = w
        BY <1>1, <3>2 DEF TrafficInv, NewestIsLast, Carries
      <4>2. c.copy = entry[b]
        BY <1>1, <4>1 DEF TrafficInv, NewestIsLast
      <4>3. c.emit => entry[b].at = lastEmit[b]
        BY <1>1, <4>1 DEF TrafficInv, EventsFollowEmits
      <4>4. ~c.emit => desktop[b].at = lastEmit[b]
        BY <1>1, <4>1 DEF TrafficInv, EventsFollowEmits
      <4> QED BY <1>2, <1>4, <1>6, <3>2, <4>1, <4>2, <4>3, <4>4
    <3> QED BY <3>1, <3>2
  <2> QED BY <1>3, <2>1 DEF TrafficInv, EventsFollowEmits
<1> QED BY <1>5, <1>8, <1>9 DEF TrafficInv

\* A step of the dashboard's connection alone: what it shows afterwards is
\* nothing, what it showed, or the entry.
LEMMA DisplayKeeps ==
    ASSUME TrafficInv, UNCHANGED <<tNow, entry, lastEmit, carry, deferred, desktop, mixed>>,
           dash' \in [open : BOOLEAN, shown : [TAccounts -> Totals \cup {Nothing}]],
           \A a \in TAccounts : \/ dash'.shown[a] \in {Nothing, entry[a]}
                                \/ dash.open /\ dash'.shown[a] = dash.shown[a]
    PROVE  TrafficInv'
<1>1. TrafficTyped' /\ EventsFollowEmits'
  BY DEF TrafficInv, TrafficTyped, EventsFollowEmits, Carries
<1>2. \A b \in TAccounts : /\ Untold(b)' <=> Untold(b)
                           /\ \A v \in TWorkers : Carries(v, b)' <=> Carries(v, b)
  BY DEF Carries, Untold
<1>3. NewestIsLast'
  <2> SUFFICES ASSUME NEW b \in TAccounts \ mixed, ~Untold(b), dash'.shown[b] # Nothing,
                      \A i \in 1..Len(deferred) : deferred[i].account # b
               PROVE  dash'.shown[b] = entry[b]
    BY <1>2 DEF TrafficInv, NewestIsLast, IsLast
  <2> QED BY DEF TrafficInv, NewestIsLast
<1> QED BY <1>1, <1>3 DEF TrafficInv

\* Connecting, asking for a snapshot and closing.
LEMMA SocketKeeps ==
    ASSUME TrafficInv, (\E ok \in BOOLEAN : OpenTrafficSocket(ok)) \/ AskForSnapshot \/ CloseTrafficSocket
    PROVE  TrafficInv'
<1>1. /\ dash \in [open : BOOLEAN, shown : [TAccounts -> Totals \cup {Nothing}]]
      /\ entry \in [TAccounts -> Totals]
      /\ UNCHANGED <<tNow, entry, lastEmit, carry, deferred, desktop, mixed>>
  BY DEF TrafficInv, TrafficTyped, OpenTrafficSocket, AskForSnapshot, CloseTrafficSocket
<1>2. Blank \in [TAccounts -> {Nothing}] /\ dash.shown \in [TAccounts -> Totals \cup {Nothing}]
  BY <1>1 DEF Blank
<1>3. ASSUME NEW t \in [TAccounts -> Totals \cup {Nothing}]
      PROVE  /\ Snapshot(t) \in [TAccounts -> Totals \cup {Nothing}]
             /\ \A a \in TAccounts : Snapshot(t)[a] = entry[a] \/ Snapshot(t)[a] = t[a]
  BY <1>1 DEF Snapshot
<1>4. CASE \/ dash' = [open |-> TRUE, shown |-> Blank] \/ dash' = [open |-> FALSE, shown |-> Blank]
           \/ dash' = [open |-> TRUE, shown |-> Snapshot(Blank)]
  <2>1. Blank \in [TAccounts -> Totals \cup {Nothing}]
    BY <1>2
  <2>2. Snapshot(Blank) \in [TAccounts -> Totals \cup {Nothing}]
        /\ \A a \in TAccounts : Snapshot(Blank)[a] \in {Nothing, entry[a]}
    BY <1>2, <1>3, <2>1
  <2>3. /\ dash' \in [open : BOOLEAN, shown : [TAccounts -> Totals \cup {Nothing}]]
        /\ dash'.shown = Blank \/ dash'.shown = Snapshot(Blank)
    <3>1. CASE dash' = [open |-> TRUE, shown |-> Snapshot(Blank)]
      BY <2>2, <3>1
    <3>2. CASE dash' = [open |-> TRUE, shown |-> Blank]
      BY <2>1, <3>2
    <3>3. CASE dash' = [open |-> FALSE, shown |-> Blank]
      BY <2>1, <3>3
    <3> QED BY <1>4, <3>1, <3>2, <3>3
  <2>4. \A a \in TAccounts : dash'.shown[a] \in {Nothing, entry[a]}
    BY <1>2, <2>2, <2>3
  <2> QED BY <1>1, <2>3, <2>4, DisplayKeeps
<1>5. CASE AskForSnapshot
  <2>1. PICK s : s = Snapshot(dash.shown)
    OBVIOUS
  <2>2. dash' = [dash EXCEPT !.shown = s] /\ dash.open
    BY <1>5, <2>1 DEF AskForSnapshot
  <2>3. s \in [TAccounts -> Totals \cup {Nothing}]
        /\ \A a \in TAccounts : s[a] = entry[a] \/ s[a] = dash.shown[a]
    BY <1>2, <1>3, <2>1
  <2>4. dash' \in [open : BOOLEAN, shown : [TAccounts -> Totals \cup {Nothing}]] /\ dash'.shown = s
    BY <1>1, <2>2, <2>3
  <2> QED BY <1>1, <2>2, <2>3, <2>4, DisplayKeeps
<1> QED BY <1>4, <1>5 DEF OpenTrafficSocket, CloseTrafficSocket

\* publish_traffic_update: the first of the queue is shown.
LEMMA PublishKeeps == ASSUME TrafficInv, PublishTrafficUpdate PROVE TrafficInv'
<1>1. PICK x \in Publications : x = Head(deferred) /\ x = deferred[1]
  <2>1. deferred \in Seq(Publications) /\ deferred # <<>>
    BY DEF PublishTrafficUpdate, TrafficInv, TrafficTyped
  <2>2. Head(deferred) = deferred[1] /\ 1 \in 1..Len(deferred)
    BY <2>1
  <2>3. deferred[1] \in Publications
    BY <2>1, <2>2
  <2> QED BY <2>2, <2>3
<1>2. x.account \in TAccounts /\ x.copy \in Totals
  BY <1>1 DEF Publications
<1>3. /\ deferred \in Seq(Publications) /\ deferred # <<>>
      /\ deferred' = Tail(deferred) /\ UNCHANGED <<tNow, entry, lastEmit, carry, desktop, mixed>>
      /\ dash \in [open : BOOLEAN, shown : [TAccounts -> Totals \cup {Nothing}]]
  BY DEF PublishTrafficUpdate, TrafficInv, TrafficTyped
<1>4. /\ deferred' \in Seq(Publications) /\ Len(deferred) \in Nat \ {0}
      /\ Len(deferred') = Len(deferred) - 1
      /\ \A i \in 1..Len(deferred') : deferred'[i] = deferred[i + 1]
  BY <1>3
<1>5. /\ dash' \in [open : BOOLEAN, shown : [TAccounts -> Totals \cup {Nothing}]]
      /\ dash'.open = dash.open
      /\ dash.open => \A b \in TAccounts :
           dash'.shown[b] = IF b = x.account THEN x.copy ELSE dash.shown[b]
  <2>1. PICK s : s = [dash.shown EXCEPT ![x.account] = x.copy]
    OBVIOUS
  <2>2. s \in [TAccounts -> Totals \cup {Nothing}]
        /\ \A b \in TAccounts : s[b] = IF b = x.account THEN x.copy ELSE dash.shown[b]
    BY <1>2, <1>3, <2>1
  <2>3. dash' = IF dash.open THEN [dash EXCEPT !.shown = s] ELSE dash
    BY <1>1, <1>3, <2>1 DEF PublishTrafficUpdate
  <2> QED BY <1>3, <2>2, <2>3
<1>6. TrafficTyped' /\ EventsFollowEmits'
  BY <1>3, <1>4, <1>5 DEF TrafficInv, TrafficTyped, EventsFollowEmits, Carries
<1>7. \A b \in TAccounts : /\ Untold(b)' <=> Untold(b)
                           /\ \A v \in TWorkers : Carries(v, b)' <=> Carries(v, b)
  BY <1>3 DEF Carries, Untold
<1>8. ASSUME NEW b \in TAccounts, NEW i \in 1..Len(deferred'), IsLast(i, b)'
      PROVE  i + 1 \in 1..Len(deferred) /\ IsLast(i + 1, b) /\ deferred'[i] = deferred[i + 1]
  <2>1. i + 1 \in 1..Len(deferred) /\ deferred'[i] = deferred[i + 1]
    BY <1>4
  <2>2. ASSUME NEW j \in 1..Len(deferred), j > i + 1
        PROVE  deferred[j].account # b
    <3>1. j - 1 \in 1..Len(deferred') /\ j - 1 > i /\ deferred'[j - 1] = deferred[j]
      BY <1>4, <2>2
    <3> QED BY <1>8, <3>1 DEF IsLast
  <2> QED BY <1>8, <2>1, <2>2 DEF IsLast
<1>9. ASSUME NEW b \in TAccounts, \A i \in 1..Len(deferred') : deferred'[i].account # b
      PROVE  \A j \in 1..Len(deferred) : j > 1 => deferred[j].account # b
  <2> SUFFICES ASSUME NEW j \in 1..Len(deferred), j > 1 PROVE deferred[j].account # b
    OBVIOUS
  <2>1. j - 1 \in 1..Len(deferred') /\ deferred'[j - 1] = deferred[j]
    BY <1>4
  <2> QED BY <1>9, <2>1
<1>10. NewestIsLast'
  <2> SUFFICES ASSUME NEW b \in TAccounts \ mixed, ~Untold(b)
               PROVE  /\ \A i \in 1..Len(deferred') : IsLast(i, b)' => deferred'[i].copy = entry[b]
                      /\ (\A i \in 1..Len(deferred') : deferred'[i].account # b) =>
                           (dash'.open /\ dash'.shown[b] # Nothing => dash'.shown[b] = entry[b])
    <3>1. \A b \in TAccounts \ mixed :
            /\ \A v, w \in TWorkers : Carries(v, b)' /\ Carries(w, b)' => v = w
            /\ \A w \in TWorkers : Carries(w, b)' => carry[w].copy = entry[b]
      BY <1>7 DEF TrafficInv, NewestIsLast
    <3> QED BY <1>3, <1>7, <3>1 DEF NewestIsLast
  <2>1. \A i \in 1..Len(deferred') : IsLast(i, b)' => deferred'[i].copy = entry[b]
    BY <1>8 DEF TrafficInv, NewestIsLast
  <2>2. ASSUME \A i \in 1..Len(deferred') : deferred'[i].account # b, dash'.open, dash'.shown[b] # Nothing
        PROVE  dash'.shown[b] = entry[b]
    <3>1. \A j \in 1..Len(deferred) : j > 1 => deferred[j].account # b
      BY <1>9, <2>2
    <3>2. 1 \in 1..Len(deferred)
      BY <1>4
    <3>3. CASE x.account = b
      <4>1. IsLast(1, b)
        BY <1>1, <3>1, <3>2, <3>3 DEF IsLast
      <4> QED BY <1>1, <1>5, <2>2, <3>2, <3>3, <4>1 DEF TrafficInv, NewestIsLast
    <3>4. CASE x.account # b
      <4>1. \A j \in 1..Len(deferred) : deferred[j].account # b
        BY <1>1, <1>4, <3>1, <3>4
      <4> QED BY <1>5, <2>2, <3>4, <4>1 DEF TrafficInv, NewestIsLast
    <3> QED BY <3>3, <3>4
  <2> QED BY <2>1, <2>2
<1> QED BY <1>6, <1>10 DEF TrafficInv

\* Every step of the counters and their displays keeps the invariant.
LEMMA TrafficNextKeeps == TrafficInv /\ [TrafficNext]_trafficVars => TrafficInv'
<1> SUFFICES ASSUME TrafficInv, [TrafficNext]_trafficVars PROVE TrafficInv'
  OBVIOUS
<1>1. CASE TimePasses \/ UNCHANGED trafficVars
  <2>1. /\ UNCHANGED <<entry, lastEmit, carry, deferred, dash, desktop, mixed>>
        /\ tNow' \in Throttle..MaxTick /\ tNow' >= tNow
    BY <1>1, TrafficAssumption DEF TimePasses, trafficVars, TrafficInv, TrafficTyped
  <2>2. \A a \in TAccounts : lastEmit[a] <= tNow'
    BY <2>1, TrafficAssumption DEF TrafficInv, TrafficTyped
  <2> QED BY <2>1, <2>2 DEF TrafficInv, TrafficTyped, NewestIsLast, EventsFollowEmits, Carries, Untold, IsLast
<1> QED BY <1>1, RecordKeeps, CallBackKeeps, EmitKeeps, PublishKeeps, SocketKeeps DEF TrafficNext

\* The invariant says what TrafficSafety says.
LEMMA TrafficInvIsSafe == TrafficInv => TrafficSafety
<1> SUFFICES ASSUME TrafficInv PROVE TrafficSafety
  OBVIOUS
<1>1. TrafficTypeOK
  <2>1. \A i \in 1..Len(deferred) : deferred[i].account \in TAccounts
    <3>1. \A i \in 1..Len(deferred) : deferred[i] \in Publications
      BY DEF TrafficInv, TrafficTyped
    <3> QED BY <3>1 DEF Publications
  <2> QED BY <2>1 DEF TrafficInv, TrafficTyped, TrafficTypeOK, Totals
<1>2. DashboardShowsTheTotals
  <2>1. \A a \in TAccounts : Still(a) => ~Untold(a)
    BY DEF Still, Untold, Carries
  <2> QED BY <2>1 DEF TrafficInv, NewestIsLast, DashboardShowsTheTotals, Still
<1>3. DesktopLagsByTheThrottle
  <2>1. ASSUME NEW a \in TAccounts \ mixed, Still(a)
        PROVE  desktop[a].at = lastEmit[a]
    <3>1. \A w \in TWorkers : ~Carries(w, a)
      BY <2>1 DEF Still, Carries
    <3> QED BY <3>1 DEF TrafficInv, EventsFollowEmits
  <2> QED BY <2>1 DEF TrafficInv, EventsFollowEmits, DesktopLagsByTheThrottle
<1> QED BY <1>1, <1>2, <1>3 DEF TrafficSafety

\* Whatever the order in which workers record, call back and emit, for any
\* number of workers and accounts: once nothing is on its way the dashboard
\* shows the totals and the desktop lags by less than the throttle, for every
\* account that two workers did not record at once.
THEOREM TrafficIsSafe == TrafficSpec => []TrafficSafety
  BY TrafficInvIsSafe, TrafficInitHolds, TrafficNextKeeps, PTL DEF TrafficSpec


-----------------------------------------------------------------------------

\* Both meters, however their steps interleave: a refresh is never stuck in
\* flight or begun twice, no request is forgotten, and the displays show the
\* recorded totals.
THEOREM MeteringIsSafe == MeteringSpec => []MeteringSafety
  BY UsageIsSafe, TrafficIsSafe, PTL DEF MeteringSpec, MeteringSafety

-----------------------------------------------------------------------------
(* The request filters *)

\* A nonempty set of natural numbers has a least element.
LEMMA LeastNumber ==
    ASSUME NEW T, T \subseteq Nat, T # {}
    PROVE  \E x \in T : \A y \in T : x <= y
<1>1. IsWellFoundedOn(OpToRel(<,Nat), Nat)
  BY NatLessThanWellFounded
<1>2. PICK x \in T : \A y \in T : ~ (<<y, x>> \in OpToRel(<,Nat))
  BY <1>1, WFMin
<1>3. \A y \in T : ~ (y < x)
  BY <1>2 DEF OpToRel
<1> QED BY <1>3

\* The recursive definition of ResolveFromChain, up to an entry of the chain.
IsWalk(f, chain, n) ==
    f = [i \in 1..n |-> IF i > 1 /\ IsTrustedProxySource(chain[i]) THEN f[i - 1] ELSE chain[i]]

HasWalk(chain, n) == \E f : IsWalk(f, chain, n)

\* The entry that the walk from the i-th backwards ends at.
EndsAt(chain, i, k, v) ==
    /\ k \in 1..i /\ chain[k] = v
    /\ \A j \in (k + 1)..i : chain[j] \in Trusted
    /\ chain[k] \in Trusted => k = 1

\* One step of the walk: past a trusted proxy, or the end.
LEMMA WalkAt ==
    ASSUME NEW chain, NEW n \in Nat, NEW f, IsWalk(f, chain, n), NEW i \in 1..n
    PROVE  f[i] = IF i > 1 /\ chain[i] \in Trusted THEN f[i - 1] ELSE chain[i]
  BY DEF IsWalk, IsTrustedProxySource

\* Every chain has its walk: the shortest one without would extend the walk of
\* the one before it.
LEMMA WalkExists ==
    ASSUME NEW chain, NEW m \in Nat
    PROVE  HasWalk(chain, m)
<1> DEFINE Bad == {n \in Nat : ~HasWalk(chain, n)}
<1> SUFFICES ASSUME m \in Bad PROVE FALSE
  OBVIOUS
<1>1. PICK n \in Bad : \A k \in Bad : n <= k
  <2>1. Bad \subseteq Nat /\ Bad # {}
    OBVIOUS
  <2> HIDE DEF Bad
  <2> QED BY <2>1, LeastNumber
<1>2. n # 0
  <2>1. ASSUME NEW f, f = [i \in 1..0 |-> chain[i]] PROVE IsWalk(f, chain, 0)
    <3>1. [i \in 1..0 |-> IF i > 1 /\ IsTrustedProxySource(chain[i]) THEN f[i - 1] ELSE chain[i]]
            = [i \in 1..0 |-> chain[i]]
      OBVIOUS
    <3> QED BY <2>1, <3>1 DEF IsWalk
  <2>2. HasWalk(chain, 0)
    BY <2>1 DEF HasWalk
  <2> QED BY <2>2
<1>3. n \in Nat /\ n - 1 \in Nat /\ n - 1 \notin Bad
  BY <1>1, <1>2
<1>4. PICK f : IsWalk(f, chain, n - 1)
  BY <1>3 DEF HasWalk
<1> HIDE DEF Bad
<1>5. PICK g : g = [i \in 1..n |-> IF i = n
                                   THEN IF n > 1 /\ IsTrustedProxySource(chain[n]) THEN f[n - 1] ELSE chain[n]
                                   ELSE f[i]]
  OBVIOUS
<1>6. \A i \in 1..(n - 1) :
        f[i] = IF i > 1 /\ IsTrustedProxySource(chain[i]) THEN f[i - 1] ELSE chain[i]
  BY <1>4 DEF IsWalk
<1>7. \A i \in 1..n : g[i] = IF i > 1 /\ IsTrustedProxySource(chain[i]) THEN g[i - 1] ELSE chain[i]
  <2>1. ASSUME NEW i \in 1..n PROVE g[i] = IF i > 1 /\ IsTrustedProxySource(chain[i]) THEN g[i - 1] ELSE chain[i]
    <3>1. CASE i = n
      BY <1>3, <1>5, <3>1
    <3>2. CASE i # n
      <4>1. i \in 1..(n - 1) /\ g[i] = f[i] /\ (i > 1 => g[i - 1] = f[i - 1])
        BY <1>3, <1>5, <3>2
      <4> QED BY <1>6, <4>1
    <3> QED BY <3>1, <3>2
  <2> QED BY <2>1
<1>8. IsWalk(g, chain, n)
  <2>1. g = [i \in 1..n |-> g[i]]
    BY <1>5
  <2> QED BY <1>7, <2>1 DEF IsWalk
<1> QED BY <1>1, <1>8 DEF HasWalk, Bad

\* A walk ends at an entry that every later one, a trusted proxy, vouches for.
LEMMA WalkEnds ==
    ASSUME NEW chain, NEW n \in Nat, NEW f, IsWalk(f, chain, n), NEW m \in 1..n
    PROVE  \E k : EndsAt(chain, m, k, f[m])
<1> DEFINE Ends(i) == \E k : EndsAt(chain, i, k, f[i])
           Bad == {i \in 1..n : ~Ends(i)}
<1> HIDE DEF Ends
<1> SUFFICES ASSUME m \in Bad PROVE FALSE
  BY DEF Ends
<1>1. PICK i \in Bad : \A k \in Bad : i <= k
  <2>1. Bad \subseteq Nat /\ Bad # {}
    OBVIOUS
  <2> HIDE DEF Bad
  <2> QED BY <2>1, LeastNumber
<1>2. i \in 1..n /\ f[i] = IF i > 1 /\ chain[i] \in Trusted THEN f[i - 1] ELSE chain[i]
  BY <1>1, WalkAt
<1>3. CASE i > 1 /\ chain[i] \in Trusted
  <2>1. i - 1 \in 1..n /\ i - 1 \notin Bad
    BY <1>1, <1>2, <1>3
  <2>2. PICK k : EndsAt(chain, i - 1, k, f[i - 1])
    BY <2>1 DEF Ends
  <2>3. EndsAt(chain, i, k, f[i])
    BY <1>2, <1>3, <2>1, <2>2 DEF EndsAt
  <2> QED BY <1>1, <2>3 DEF Ends
<1>4. CASE ~(i > 1 /\ chain[i] \in Trusted)
  <2>1. EndsAt(chain, i, i, f[i])
    BY <1>2, <1>4 DEF EndsAt
  <2> QED BY <1>1, <2>1 DEF Ends
<1> QED BY <1>3, <1>4

\* What the chain resolves to.
LEMMA ChainResolves ==
    ASSUME NEW socket, NEW hops, Len(Append(hops, socket)) \in Nat, Len(Append(hops, socket)) >= 1,
           ResolveFromChain(socket, hops) # NoAddress
    PROVE  /\ Well(hops)
           /\ \E k : EndsAt(Append(hops, socket), Len(Append(hops, socket)), k,
                            ResolveFromChain(socket, hops))
<1> DEFINE chain == Append(hops, socket)
           walk == CHOOSE f : IsWalk(f, chain, Len(chain))
<1>1. Well(hops) /\ ResolveFromChain(socket, hops) = walk[Len(chain)]
  <2>1. ResolveFromChain(socket, hops) =
          IF hops = <<>> \/ \E i \in 1..Len(hops) : hops[i] \notin Addresses
          THEN NoAddress ELSE walk[Len(chain)]
    BY DEF ResolveFromChain, IsWalk
  <2> HIDE DEF walk, chain
  <2>2. Well(hops) <=> ~(hops = <<>> \/ \E i \in 1..Len(hops) : hops[i] \notin Addresses)
    BY DEF Well
  <2>3. CASE Well(hops)
    BY <2>1, <2>2, <2>3
  <2>4. CASE ~Well(hops)
    BY <2>1, <2>2, <2>4
  <2> QED BY <2>3, <2>4
<1>2. IsWalk(walk, chain, Len(chain))
  <2>1. \E f : IsWalk(f, chain, Len(chain))
    BY WalkExists DEF HasWalk
  <2> HIDE DEF chain
  <2> QED BY <2>1
<1> HIDE DEF walk, chain
<1>3. Len(chain) \in 1..Len(chain) /\ Len(chain) \in Nat
  BY DEF chain
<1>4. \E k : EndsAt(chain, Len(chain), k, walk[Len(chain)])
  BY <1>2, <1>3, WalkEnds
<1> QED BY <1>1, <1>4 DEF chain

\* The recursive definition of DecompressRequestBody, down to the j-th encoding.
IsUndone(f, b, declared, j) ==
    f = [i \in j..(Len(declared) + 1) |->
            IF i > Len(declared) THEN b
            ELSE IF f[i + 1].status # "ok" THEN f[i + 1]
            ELSE DecompressOne(f[i + 1], declared[i])]

HasUndone(b, declared, j) == \E f : IsUndone(f, b, declared, j)

\* One step of the decompression: nothing behind an error, else one encoding.
LEMMA UndoneAt ==
    ASSUME NEW b, NEW declared, Len(declared) \in Nat, NEW j \in 1..(Len(declared) + 1),
           NEW f, IsUndone(f, b, declared, j)
    PROVE  /\ f[Len(declared) + 1] = b
           /\ \A i \in j..Len(declared) :
                f[i] = IF f[i + 1].status # "ok" THEN f[i + 1] ELSE DecompressOne(f[i + 1], declared[i])
  BY DEF IsUndone

\* Every list of encodings can be undone, from the last to the first, by the
\* same argument.
LEMMA UndoneExists ==
    ASSUME NEW b, NEW declared, Len(declared) \in Nat
    PROVE  HasUndone(b, declared, 1)
<1>1. PICK L \in Nat : L = Len(declared)
  OBVIOUS
<1> DEFINE Bad == {n \in 0..L : ~HasUndone(b, declared, L + 1 - n)}
<1> SUFFICES ASSUME ~HasUndone(b, declared, 1) PROVE FALSE
  OBVIOUS
<1>2. L \in Bad
  <2>1. L + 1 - L = 1 /\ L \in 0..L
    BY <1>1
  <2>2. ASSUME NEW j, j = 1 PROVE ~HasUndone(b, declared, j)
    BY <2>2
  <2>3. ~HasUndone(b, declared, L + 1 - L)
    BY <2>1, <2>2
  <2> QED BY <2>1, <2>3
<1>3. PICK n \in Bad : \A k \in Bad : n <= k
  <2>1. Bad \subseteq Nat
    OBVIOUS
  <2> HIDE DEF Bad
  <2> QED BY <1>2, <2>1, LeastNumber
<1>4. n \in 0..L /\ ~HasUndone(b, declared, L + 1 - n)
  BY <1>3
<1>5. n # 0
  <2> SUFFICES ASSUME n = 0 PROVE FALSE
    OBVIOUS
  <2>1. PICK f : f = [i \in (L + 1)..(L + 1) |-> b]
    OBVIOUS
  <2>2. \A i \in (L + 1)..(L + 1) : i > L
    BY <1>1
  <2>3. [i \in (L + 1)..(L + 1) |-> IF i > L THEN b
                                   ELSE IF f[i + 1].status # "ok" THEN f[i + 1]
                                   ELSE DecompressOne(f[i + 1], declared[i])] = f
    BY <2>1, <2>2
  <2>4. IsUndone(f, b, declared, L + 1)
    BY <1>1, <2>3 DEF IsUndone
  <2>5. L + 1 - n = L + 1
    BY <1>1
  <2> QED BY <1>4, <2>4, <2>5 DEF HasUndone
<1>6. PICK j \in 1..L : j = L + 1 - n
  BY <1>1, <1>4, <1>5
<1>7. HasUndone(b, declared, j + 1)
  <2>1. n - 1 \in 0..L /\ L + 1 - (n - 1) = j + 1
    BY <1>1, <1>4, <1>5, <1>6
  <2>2. n - 1 \notin Bad
    <3> HIDE DEF Bad
    <3> QED BY <1>3, <1>4
  <2> QED BY <2>1, <2>2
<1>8. PICK f : IsUndone(f, b, declared, j + 1)
  BY <1>7 DEF HasUndone
<1> HIDE DEF Bad
<1>9. PICK x : x = IF f[j + 1].status # "ok" THEN f[j + 1] ELSE DecompressOne(f[j + 1], declared[j])
  OBVIOUS
<1>10. PICK g : g = [i \in j..(L + 1) |-> IF i = j THEN x ELSE f[i]]
  OBVIOUS
<1>11. \A i \in (j + 1)..(L + 1) :
         f[i] = IF i > L THEN b ELSE IF f[i + 1].status # "ok" THEN f[i + 1]
                ELSE DecompressOne(f[i + 1], declared[i])
  BY <1>1, <1>8 DEF IsUndone
<1>12. ASSUME NEW i \in j..(L + 1)
       PROVE  g[i] = IF i > L THEN b ELSE IF g[i + 1].status # "ok" THEN g[i + 1]
                     ELSE DecompressOne(g[i + 1], declared[i])
  <2>1. CASE i = j
    <3>1. ~(i > L) /\ g[i] = x /\ g[i + 1] = f[i + 1]
      BY <1>1, <1>10, <2>1
    <3> QED BY <1>9, <2>1, <3>1
  <2>2. CASE i # j
    <3>1. i \in (j + 1)..(L + 1) /\ g[i] = f[i] /\ (i <= L => g[i + 1] = f[i + 1])
      BY <1>1, <1>10, <2>2
    <3>2. i > L \/ i <= L
      BY <1>1
    <3> QED BY <1>11, <3>1, <3>2
  <2> QED BY <2>1, <2>2
<1>13. IsUndone(g, b, declared, j)
  <2>1. g = [i \in j..(L + 1) |-> g[i]]
    BY <1>10
  <2> QED BY <1>1, <1>12, <2>1 DEF IsUndone
<1> QED BY <1>4, <1>6, <1>13 DEF HasUndone

\* A prefix of a prefix.
LEMMA Prefix ==
    ASSUME NEW S, NEW s \in Seq(S), NEW m \in Nat, m + 1 <= Len(s)
    PROVE  /\ Len(SubSeq(s, 1, m + 1)) = m + 1 /\ SubSeq(s, 1, m + 1)[m + 1] = s[m + 1]
           /\ SubSeq(SubSeq(s, 1, m + 1), 1, m) = SubSeq(s, 1, m)
<1>1. \A i \in 1..(m + 1) : s[i] \in S
  OBVIOUS
<1>2. PICK t : t = SubSeq(s, 1, m + 1)
  OBVIOUS
<1>3. t \in Seq(S) /\ Len(t) = m + 1 /\ \A i \in 1..(m + 1) : t[i] = s[i]
  <2>1. /\ SubSeq(s, 1, m + 1) \in Seq(S) /\ Len(SubSeq(s, 1, m + 1)) = IF 1 <= m + 1 THEN (m + 1) - 1 + 1 ELSE 0
        /\ \A i \in 1..((m + 1) - 1 + 1) : SubSeq(s, 1, m + 1)[i] = s[1 + i - 1]
    BY <1>1, SubSeqProperties
  <2> QED BY <1>2, <2>1
<1>4. PICK u : u = SubSeq(t, 1, m)
  OBVIOUS
<1>5. PICK v : v = SubSeq(s, 1, m)
  OBVIOUS
<1>6. u \in Seq(S) /\ Len(u) = m /\ \A i \in 1..m : u[i] = s[i]
  <2>1. \A i \in 1..m : t[i] \in S
    BY <1>1, <1>3
  <2>2. /\ SubSeq(t, 1, m) \in Seq(S) /\ Len(SubSeq(t, 1, m)) = IF 1 <= m THEN m - 1 + 1 ELSE 0
        /\ \A i \in 1..(m - 1 + 1) : SubSeq(t, 1, m)[i] = t[1 + i - 1]
    BY <2>1, SubSeqProperties
  <2> QED BY <1>3, <1>4, <2>2
<1>7. v \in Seq(S) /\ Len(v) = m /\ \A i \in 1..m : v[i] = s[i]
  <2>1. \A i \in 1..m : s[i] \in S
    BY <1>1
  <2>2. /\ SubSeq(s, 1, m) \in Seq(S) /\ Len(SubSeq(s, 1, m)) = IF 1 <= m THEN m - 1 + 1 ELSE 0
        /\ \A i \in 1..(m - 1 + 1) : SubSeq(s, 1, m)[i] = s[1 + i - 1]
    BY <2>1, SubSeqProperties
  <2> QED BY <1>5, <2>2
<1>8. u = v
  BY <1>6, <1>7, SeqEqual
<1> QED BY <1>2, <1>3, <1>4, <1>5, <1>8

\* The body when m of its layers are left.
BodyStage(layers, big, m) ==
    IF m >= big \/ m = Len(layers) THEN Bytes(SubSeq(layers, 1, m), big) ELSE Refused("too_large")

\* Undoing one more of them.
LEMMA OneLayer ==
    ASSUME NEW layers \in Seq({"gzip", "zstd"}), NEW big \in Nat, NEW m \in Nat, m + 1 <= Len(layers)
    PROVE  BodyStage(layers, big, m) =
             IF BodyStage(layers, big, m + 1).status # "ok" THEN BodyStage(layers, big, m + 1)
             ELSE DecompressOne(BodyStage(layers, big, m + 1), layers[m + 1])
<1>1. layers[m + 1] \in {"gzip", "zstd"} /\ m # Len(layers) /\ Len(layers) \in Nat
  OBVIOUS
<1>2. PICK t : t = SubSeq(layers, 1, m + 1)
  OBVIOUS
<1>3. Len(t) = m + 1 /\ t[m + 1] = layers[m + 1] /\ SubSeq(t, 1, m) = SubSeq(layers, 1, m)
  BY <1>2, Prefix
<1>4. CASE m + 1 >= big \/ m + 1 = Len(layers)
  <2>1. BodyStage(layers, big, m + 1) = Bytes(t, big)
    BY <1>2, <1>4 DEF BodyStage
  <2>2. Bytes(t, big).status = "ok" /\ Bytes(t, big).layers = t /\ Bytes(t, big).big = big
    BY DEF Bytes
  <2>3. DecompressOne(Bytes(t, big), layers[m + 1]) = InflateWithWindowBits(Bytes(t, big), layers[m + 1])
    BY <1>1 DEF DecompressOne
  <2>4. InflateWithWindowBits(Bytes(t, big), layers[m + 1]) =
          IF m < big THEN Refused("too_large") ELSE Bytes(SubSeq(layers, 1, m), big)
    <3> HIDE DEF Bytes
    <3>1. (m + 1) - 1 = m /\ m + 1 # 0
      OBVIOUS
    <3> QED BY <1>3, <2>2, <3>1 DEF InflateWithWindowBits
  <2>5. BodyStage(layers, big, m) = IF m < big THEN Refused("too_large") ELSE Bytes(SubSeq(layers, 1, m), big)
    BY <1>1 DEF BodyStage
  <2> QED BY <2>1, <2>2, <2>3, <2>4, <2>5
<1>5. CASE ~(m + 1 >= big \/ m + 1 = Len(layers))
  <2>1. BodyStage(layers, big, m + 1) = Refused("too_large")
    BY <1>5 DEF BodyStage
  <2>2. ~(m >= big)
    BY <1>5
  <2>3. BodyStage(layers, big, m) = Refused("too_large")
    BY <1>1, <2>2 DEF BodyStage
  <2>4. Refused("too_large").status # "ok"
    BY DEF Refused
  <2> QED BY <2>1, <2>3, <2>4
<1> QED BY <1>4, <1>5

\* The layers whose encodings are declared before the i-th are the first m.
Before(at, n, i, m) ==
    /\ m \in 0..n
    /\ \A k \in 1..m : at[k] < i
    /\ \A k \in (m + 1)..n : at[k] >= i

\* What is left of the body at the i-th encoding.
BodyAt(f, layers, big, at, i) ==
    \A m : Before(at, Len(layers), i, m) => f[i] = BodyStage(layers, big, m)

\* From one encoding to the one before it.
LEMMA BodyStep ==
    ASSUME NEW declared \in Seq(Encodings \cup {"identity"}), NEW layers \in Seq({"gzip", "zstd"}),
           NEW big \in Nat, NEW at \in [1..Len(layers) -> 1..Len(declared)], Names(declared, layers, at),
           NEW f, NEW i \in 1..Len(declared), BodyAt(f, layers, big, at, i + 1),
           f[i] = IF f[i + 1].status # "ok" THEN f[i + 1] ELSE DecompressOne(f[i + 1], declared[i])
    PROVE  BodyAt(f, layers, big, at, i)
<1> DEFINE n == Len(layers)
<1> SUFFICES ASSUME NEW m, Before(at, n, i, m) PROVE f[i] = BodyStage(layers, big, m)
  BY DEF BodyAt
<1>1. /\ m \in 0..n /\ m \in Nat /\ n \in Nat /\ i \in Nat /\ \A k \in 1..m : at[k] < i
      /\ \A k \in (m + 1)..n : at[k] >= i
  BY DEF Before
<1>2. \A k \in 1..n : at[k] \in Nat
  OBVIOUS
<1>3. CASE \E k \in 1..n : at[k] = i
  <2>1. PICK k \in 1..n : at[k] = i
    BY <1>3
  <2>2. k \in (m + 1)..n
    BY <1>1, <2>1
  <2>3. k = m + 1
    <3> SUFFICES ASSUME k # m + 1 PROVE FALSE
      OBVIOUS
    <3>1. m + 1 < k /\ m + 1 \in (m + 1)..n /\ m + 1 \in 1..n
      BY <1>1, <2>2
    <3>2. at[m + 1] < at[k]
      BY <3>1 DEF Names
    <3>3. at[m + 1] >= i /\ at[m + 1] \in Nat
      BY <1>1, <1>2, <3>1
    <3> QED BY <1>1, <2>1, <3>2, <3>3
  <2>4. m + 1 \in 1..n /\ m + 1 <= n /\ declared[i] = layers[m + 1]
    BY <1>1, <2>1, <2>3 DEF Names
  <2>5. Before(at, n, i + 1, m + 1)
    <3>1. ASSUME NEW l \in 1..(m + 1) PROVE at[l] < i + 1
      <4>1. l \in 1..m \/ l = m + 1
        BY <1>1
      <4>2. at[l] \in Nat
        BY <1>1, <1>2, <2>4
      <4> QED BY <1>1, <2>1, <2>3, <4>1, <4>2
    <3>2. ASSUME NEW l \in ((m + 1) + 1)..n PROVE at[l] >= i + 1
      <4>1. l \in 1..n /\ k < l
        BY <1>1, <2>3
      <4>2. at[k] < at[l] /\ at[l] \in Nat
        BY <1>2, <4>1 DEF Names
      <4> QED BY <1>1, <2>1, <4>2
    <3>3. m + 1 \in 0..n
      BY <1>1, <2>4
    <3> QED BY <3>1, <3>2, <3>3 DEF Before
  <2>6. f[i + 1] = BodyStage(layers, big, m + 1)
    BY <2>5 DEF BodyAt
  <2> QED BY <1>1, <2>4, <2>6, OneLayer
<1>4. CASE ~ \E k \in 1..n : at[k] = i
  <2>1. declared[i] = "identity"
    BY <1>4 DEF Names
  <2>2. Before(at, n, i + 1, m)
    <3>1. ASSUME NEW l \in 1..m PROVE at[l] < i + 1
      <4>1. l \in 1..n /\ at[l] < i /\ at[l] \in Nat
        BY <1>1, <1>2
      <4> QED BY <1>1, <4>1
    <3>2. ASSUME NEW l \in (m + 1)..n PROVE at[l] >= i + 1
      <4>1. l \in 1..n /\ at[l] >= i /\ at[l] \in Nat /\ at[l] # i
        BY <1>1, <1>2, <1>4
      <4> QED BY <1>1, <4>1
    <3> QED BY <1>1, <3>1, <3>2 DEF Before
  <2>3. f[i + 1] = BodyStage(layers, big, m)
    BY <2>2 DEF BodyAt
  <2>4. DecompressOne(f[i + 1], declared[i]) = f[i + 1]
    BY <2>1 DEF DecompressOne
  <2> QED BY <2>3, <2>4
<1> QED BY <1>3, <1>4

\* A body whose layers are declared is undone to its first stage.
LEMMA BodyUndone ==
    ASSUME NEW declared \in Seq(Encodings \cup {"identity"}), NEW layers \in Seq({"gzip", "zstd"}),
           NEW big \in Nat, NEW at \in [1..Len(layers) -> 1..Len(declared)], Names(declared, layers, at),
           NEW f, IsUndone(f, Bytes(layers, big), declared, 1)
    PROVE  f[1] = BodyStage(layers, big, 0)
<1>1. PICK L \in Nat : L = Len(declared)
  OBVIOUS
<1>2. PICK n \in Nat : n = Len(layers)
  OBVIOUS
<1>3. /\ f[L + 1] = Bytes(layers, big)
      /\ \A i \in 1..L :
           f[i] = IF f[i + 1].status # "ok" THEN f[i + 1] ELSE DecompressOne(f[i + 1], declared[i])
  <2>1. 1 \in 1..(Len(declared) + 1) /\ Len(declared) \in Nat
    OBVIOUS
  <2> QED BY <1>1, <2>1, UndoneAt
<1>4. BodyAt(f, layers, big, at, L + 1)
  <2> SUFFICES ASSUME NEW m, Before(at, n, L + 1, m) PROVE f[L + 1] = BodyStage(layers, big, m)
    BY <1>2 DEF BodyAt
  <2>1. m = n
    <3> SUFFICES ASSUME m # n PROVE FALSE
      OBVIOUS
    <3>1. m + 1 \in (m + 1)..n /\ m + 1 \in 1..n
      BY <1>2 DEF Before
    <3>2. at[m + 1] >= L + 1 /\ at[m + 1] \in 1..L
      BY <1>1, <1>2, <3>1 DEF Before
    <3> QED BY <1>1, <3>2
  <2>2. SubSeq(layers, 1, n) = layers
    BY <1>2, SubSeqFull
  <2> QED BY <1>2, <1>3, <2>1, <2>2 DEF BodyStage
<1> DEFINE Bad == {k \in 0..L : ~BodyAt(f, layers, big, at, L + 1 - k)}
<1>5. Bad = {}
  <2> SUFFICES ASSUME Bad # {} PROVE FALSE
    OBVIOUS
  <2>1. PICK k \in Bad : \A j \in Bad : k <= j
    <3>1. Bad \subseteq Nat
      OBVIOUS
    <3> HIDE DEF Bad
    <3> QED BY <3>1, LeastNumber
  <2>2. k \in 0..L /\ ~BodyAt(f, layers, big, at, L + 1 - k)
    BY <2>1
  <2>3. k # 0
    <3> SUFFICES ASSUME k = 0 PROVE FALSE
      OBVIOUS
    <3>1. L + 1 - k = L + 1
      BY <1>1
    <3> QED BY <1>4, <2>2, <3>1
  <2>4. PICK i \in 1..L : i = L + 1 - k
    BY <1>1, <2>2, <2>3
  <2>5. k - 1 \notin Bad
    <3> HIDE DEF Bad
    <3> QED BY <2>1, <2>2
  <2>6. k - 1 \in 0..L /\ L + 1 - (k - 1) = i + 1
    BY <1>1, <2>2, <2>3, <2>4
  <2>7. BodyAt(f, layers, big, at, i + 1)
    BY <2>5, <2>6
  <2>8. f[i] = IF f[i + 1].status # "ok" THEN f[i + 1] ELSE DecompressOne(f[i + 1], declared[i])
    BY <1>3
  <2>9. i \in 1..Len(declared)
    BY <1>1
  <2>10. BodyAt(f, layers, big, at, i)
    <3> HIDE DEF Bad
    <3> QED BY <2>7, <2>8, <2>9, BodyStep
  <2> QED BY <2>2, <2>4, <2>10
<1>6. BodyAt(f, layers, big, at, 1)
  <2>1. L \in 0..L /\ L + 1 - L = 1
    BY <1>1
  <2>2. BodyAt(f, layers, big, at, L + 1 - L)
    BY <1>5, <2>1
  <2> QED BY <2>1, <2>2
<1>7. Before(at, n, 1, 0)
  <2>1. \A k \in (0 + 1)..n : at[k] >= 1
    BY <1>2
  <2>2. \A k \in 1..0 : at[k] < 1
    OBVIOUS
  <2> QED BY <1>2, <2>1, <2>2 DEF Before
<1> QED BY <1>2, <1>6, <1>7 DEF BodyAt

\* Bounded sequences, and sequences over a larger set.
LEMMA UpToIsSeq ==
    ASSUME NEW S, NEW n \in Nat, NEW s \in UpTo(S, n)
    PROVE  s \in Seq(S)
<1>1. PICK k \in 0..n : s \in [1..k -> S]
  BY DEF UpTo
<1>2. k \in Nat
  OBVIOUS
<1> QED BY <1>1, <1>2, SeqDef

\* A sequence that was appended to is not empty.
LEMMA Appended ==
    ASSUME NEW S, NEW s \in Seq(S), NEW e
    PROVE  Len(Append(s, e)) \in Nat /\ Len(Append(s, e)) >= 1
<1>1. s \in Seq(S \cup {e})
  <2>1. PICK n \in Nat : s \in [1..n -> S]
    BY SeqDef
  <2>2. s \in [1..n -> S \cup {e}]
    BY <2>1
  <2> QED BY <2>2, SeqDef
<1>2. Len(Append(s, e)) = Len(s) + 1 /\ Len(s) \in Nat
  BY <1>1
<1> QED BY <1>2

\* The address a request is judged by.
LEMMA AddressIsVouchedFor ==
    ASSUME NEW socket, NEW trust, NEW S, NEW hops \in Seq(S),
           ResolveConnectionClientIp(socket, trust, hops) # socket
    PROVE  /\ trust /\ Well(hops)
           /\ \E k : EndsAt(Append(hops, socket), Len(Append(hops, socket)), k,
                            ResolveConnectionClientIp(socket, trust, hops))
<1>1. PICK r : r = ResolveFromChain(socket, hops)
  OBVIOUS
<1>2. /\ trust /\ r # NoAddress
      /\ ResolveConnectionClientIp(socket, trust, hops) = r
  BY <1>1 DEF ResolveConnectionClientIp
<1>3. Len(Append(hops, socket)) \in Nat /\ Len(Append(hops, socket)) >= 1
  BY Appended
<1>4. /\ Well(hops)
      /\ \E k : EndsAt(Append(hops, socket), Len(Append(hops, socket)), k, r)
  BY <1>1, <1>2, <1>3, ChainResolves
<1> QED BY <1>2, <1>4

\* The body a handler sees, of a request that declares its layers.
LEMMA BodyIsPlain ==
    ASSUME NEW declared \in Seq(Encodings \cup {"identity"}), NEW layers \in Seq(Encodings), NEW json,
           NEW big \in Nat, layers # <<>>, \A k \in 1..Len(layers) : layers[k] # "unsupported",
           NEW at \in [1..Len(layers) -> 1..Len(declared)], Names(declared, layers, at)
    PROVE  DecompressRequestBody(Bytes(layers, big), declared, json)
             = IF big > 0 THEN Refused("too_large") ELSE Bytes(<<>>, 0)
<1> DEFINE b == Bytes(layers, big)
           undone == CHOOSE f : IsUndone(f, b, declared, 1)
<1>1. layers \in Seq({"gzip", "zstd"}) /\ Len(layers) \in Nat /\ Len(layers) # 0
  <2>1. PICK n \in Nat : layers \in [1..n -> Encodings]
    BY SeqDef
  <2>2. Len(layers) = n
    BY <2>1
  <2>3. layers \in [1..n -> {"gzip", "zstd"}]
    BY <2>1, <2>2 DEF Encodings
  <2>4. layers \in Seq({"gzip", "zstd"})
    BY <2>3, SeqDef
  <2> QED BY <2>4
<1>2. IsUndone(undone, b, declared, 1)
  <2> HIDE DEF b
  <2>0. Len(declared) \in Nat
    OBVIOUS
  <2>1. \E f : IsUndone(f, b, declared, 1)
    BY <2>0, UndoneExists DEF HasUndone
  <2> QED BY <2>1
<1>3. DecompressRequestBody(b, declared, json) =
        IF undone[1].status = "ok" /\ \A i \in 1..Len(declared) : declared[i] = "identity"
        THEN SniffJsonBody(undone[1], json) ELSE undone[1]
  BY DEF DecompressRequestBody, IsUndone
<1> HIDE DEF undone, b
<1>4. undone[1] = BodyStage(layers, big, 0)
  BY <1>1, <1>2, BodyUndone DEF b
<1>5. ~ \A i \in 1..Len(declared) : declared[i] = "identity"
  <2>1. 1 \in 1..Len(layers)
    BY <1>1
  <2>2. at[1] \in 1..Len(declared) /\ declared[at[1]] = layers[1] /\ layers[1] # "identity"
    BY <2>1 DEF Names
  <2> QED BY <2>2
<1>6. BodyStage(layers, big, 0) = IF big > 0 THEN Refused("too_large") ELSE Bytes(<<>>, 0)
  <2>1. SubSeq(layers, 1, 0) = <<>>
    BY SubSeqEmpty
  <2>2. CASE big = 0
    <3>1. BodyStage(layers, big, 0) = Bytes(SubSeq(layers, 1, 0), big)
      BY <2>2 DEF BodyStage
    <3>2. BodyStage(layers, big, 0) = Bytes(<<>>, 0)
      BY <2>1, <2>2, <3>1, Zenon
    <3>3. ~(big > 0)
      BY <2>2
    <3> QED BY <3>2, <3>3
  <2>3. CASE big # 0
    BY <1>1, <2>3 DEF BodyStage
  <2> QED BY <2>2, <2>3
<1>7. DecompressRequestBody(b, declared, json) = undone[1]
  BY <1>3, <1>5
<1> QED BY <1>4, <1>6, <1>7 DEF b

\* A request that is drawn satisfies both.
LEMMA DrawnIsSound ==
    ASSUME NEW socket, NEW trust, NEW S, NEW forwarded \in Seq(S),
           NEW declared \in Seq(Encodings \cup {"identity"}), NEW json, NEW layers \in Seq(Encodings),
           NEW big \in Nat,
           probe' = Drawn(Request(socket, trust, forwarded, declared, json, layers, big)),
           allowlist' = allowlist
    PROVE  FiltersAreSound'
<1>1. PICK q : q = Request(socket, trust, forwarded, declared, json, layers, big)
  OBVIOUS
<1>2. PICK client : client = ResolveConnectionClientIp(socket, trust, forwarded)
  OBVIOUS
<1>3. /\ q.socket = socket /\ q.trust = trust /\ q.forwarded = forwarded /\ q.declared = declared
      /\ q.layers = layers /\ q.big = big /\ q.client = client
      /\ q.body = DecompressRequestBody(Bytes(layers, big), declared, json)
  BY <1>1, <1>2 DEF Request
<1>4. q.admitted = EvaluateFirewallRequest(TRUE, client)
  BY <1>1, <1>2 DEF Request
<1>5. q.admitted /\ allowlist # {} => client \in allowlist
  <2>1. EvaluateFirewallRequest(TRUE, client) => allowlist = {} \/ client \in allowlist
    BY DEF EvaluateFirewallRequest, IsFirewallIpAllowed
  <2> QED BY <1>4, <2>1
<1>6. probe'.q = q
  BY <1>1 DEF Drawn
<1>7. ClientIpIsVouchedFor'
  <2>1. ASSUME client # socket
        PROVE  trust /\ Well(forwarded) /\ VouchedFor(Append(forwarded, socket), client)
    <3>1. PICK chain : chain = Append(forwarded, socket)
      OBVIOUS
    <3>2. trust /\ Well(forwarded) /\ \E k : EndsAt(chain, Len(chain), k, client)
      BY <1>2, <2>1, <3>1, AddressIsVouchedFor
    <3>3. VouchedFor(chain, client)
      BY <3>2 DEF EndsAt, VouchedFor
    <3> QED BY <3>1, <3>2, <3>3
  <2> QED BY <1>3, <1>5, <1>6, <2>1 DEF ClientIpIsVouchedFor
<1>8. DeclaredBodyIsPlain'
  <2>1. ASSUME layers # <<>>, \A k \in 1..Len(layers) : layers[k] # "unsupported",
               NEW at \in [1..Len(layers) -> 1..Len(declared)], Names(declared, layers, at)
        PROVE  q.body = IF big > 0 THEN Refused("too_large") ELSE Bytes(<<>>, 0)
    BY <1>3, <2>1, BodyIsPlain
  <2> QED BY <1>3, <1>6, <2>1 DEF DeclaredBodyIsPlain
<1> QED BY <1>7, <1>8 DEF FiltersAreSound

\* For every set of trusted proxies, every chain and every body: the firewall
\* judges a request by an address that only trusted proxies vouch for, and a
\* body whose encodings are declared is undone completely or refused for its
\* size.
THEOREM FiltersSound == FilterSpec => []FiltersAreSound
<1>1. ASSUME probe = Unprobed PROVE FiltersAreSound
  <2>1. probe.drawn = FALSE
    BY <1>1 DEF Unprobed
  <2>2. ~probe.drawn
    BY <2>1
  <2> QED BY <2>2 DEF FiltersAreSound, ClientIpIsVouchedFor, DeclaredBodyIsPlain
<1>2. FilterInit => FiltersAreSound
  BY <1>1 DEF FilterInit
<1>3. ASSUME FiltersAreSound, [FilterNext]_filterVars PROVE FiltersAreSound'
  <2>0. MaxHops \in Nat /\ MaxLayers \in Nat
    BY FilterAssumption
  <2>1. CASE UNCHANGED filterVars
    BY <1>3, <2>1 DEF filterVars, FiltersAreSound, ClientIpIsVouchedFor, DeclaredBodyIsPlain
  <2>2. ASSUME probe = Unprobed, probe' = probe PROVE FiltersAreSound'
    <3>1. probe'.drawn = FALSE
      BY <2>2 DEF Unprobed
    <3>2. ~probe'.drawn
      BY <3>1
    <3> QED BY <3>2 DEF FiltersAreSound, ClientIpIsVouchedFor, DeclaredBodyIsPlain
  <2>3. CASE probe = Unprobed /\ \E ip \in Addresses : AddFirewallIp(ip) \/ DeleteFirewallIp(ip)
    BY <2>2, <2>3 DEF AddFirewallIp, DeleteFirewallIp
  <2>4. CASE ProbeForwarded
    <3>1. PICK socket \in Addresses, trust \in BOOLEAN,
               forwarded \in UpTo(Addresses \cup {"malformed"}, MaxHops) :
            probe' = Drawn(Request(socket, trust, forwarded, <<>>, FALSE, <<>>, 0))
      BY <2>4 DEF ProbeForwarded
    <3>2. allowlist' = allowlist
      BY <2>4 DEF ProbeForwarded
    <3>3. forwarded \in Seq(Addresses \cup {"malformed"})
      BY <2>0, UpToIsSeq
    <3>4. <<>> \in Seq(Encodings \cup {"identity"}) /\ <<>> \in Seq(Encodings) /\ 0 \in Nat
      OBVIOUS
    <3> QED BY <3>1, <3>2, <3>3, <3>4, DrawnIsSound
  <2>5. CASE ProbeBody
    <3>1. PICK declared \in UpTo(Encodings \cup {"identity"}, MaxLayers), json \in BOOLEAN,
               layers \in UpTo(Encodings, MaxLayers), big \in 0..MaxLayers :
            probe' = Drawn(Request(Someone, FALSE, <<>>, declared, json, layers, big))
      BY <2>5 DEF ProbeBody
    <3>2. allowlist' = allowlist
      BY <2>5 DEF ProbeBody
    <3>3. declared \in Seq(Encodings \cup {"identity"}) /\ layers \in Seq(Encodings) /\ big \in Nat
      BY <2>0, UpToIsSeq
    <3>4. <<>> \in Seq(Encodings)
      OBVIOUS
    <3> QED BY <3>1, <3>2, <3>3, <3>4, DrawnIsSound
  <2> QED BY <1>3, <2>1, <2>3, <2>4, <2>5 DEF FilterNext
<1> QED BY <1>2, <1>3, PTL DEF FilterSpec

=============================================================================
