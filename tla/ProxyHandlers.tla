--------------------------- MODULE ProxyHandlers ----------------------------
(***************************************************************************)
(* The proxy's handlers besides stream_responses_sse, which ProxyResponses *)
(* models with its stores: the WebSocket handler and the unary ones        *)
(* (compact, memories, transcribe, responses collected to JSON).  One      *)
(* handler runs while other requests retire accounts under it.             *)
(*                                                                         *)
(* An account is "usable" when the credential query returns it.  What the  *)
(* upstream answers is kept as its status, the error code found in it and  *)
(* what its payload is good for ("cut": a stream without a terminal event).*)
(***************************************************************************)
EXTENDS Naturals, Sequences, FiniteSets

CONSTANTS
    HAccounts,  \* accounts of the table
    HNone,      \* no account
    HPool,      \* the accounts of the active lock pool
    MaxEvents   \* bound: events of a stream collected to JSON

VARIABLES
    hRow,       \* "usable", "exhausted" or "deactivated", for each account
    hEx,        \* the handler
    hSpent,     \* the accounts whose upstream answered that they are exhausted
    hStream     \* a stream of events and what is collected from it

handlerVars == <<hRow, hEx, hSpent, hStream>>

kStreamRetryBudget == 2
kCompactRetryBudget == 1

Routed == {"json", "ws"}            \* handlers that route continuations
Kinds == Routed \union {"compact", "memories", "transcribe", "passthrough"}

Up(status, code, payload) == [status |-> status, code |-> code, payload |-> payload]

(* What the upstream may send back.  A payload is "good", JSON of another  *)
(* shape, not JSON, empty, or a stream that was cut.                       *)
UpAnswers ==
    {Up(200, "none", p) : p \in {"good", "other", "garbage", "empty", "cut"}} \union
    {Up(200, "stream_incomplete", "cut"), Up(200, "upstream_incomplete", "good"),
     Up(200, "rate_limit_exceeded", "good"), Up(200, "server_error", "good"),
     Up(401, "none", "empty"), Up(401, "deactivated", "empty"),
     Up(429, "none", "empty"), Up(403, "insufficient_quota", "empty"),
     Up(500, "none", "empty"), Up(503, "upstream_unavailable", "empty"),
     Up(400, "previous_response_not_found", "empty")}

NoAnswer == Up(0, "none", "empty")

-----------------------------------------------------------------------------
(* proxy_error_policy.cpp *)

(* resolved_upstream_error_code, extract_upstream_error_details *)
ResolvedCode(up) == IF up.code = "none" THEN "upstream_error" ELSE up.code

(* exhausted_account_status_from_upstream *)
ExhaustedAccountStatus(up) ==
    CASE up.code = "insufficient_quota" -> "quota_blocked"
      [] up.code = "rate_limit_exceeded" \/ up.status = 429 -> "rate_limited"
      [] OTHER -> "none"

IndicatesDeactivated(up) == up.status = 401 /\ up.code = "deactivated"

ShouldRetryStream(up) ==
    ExhaustedAccountStatus(up) = "none" /\ (up.status = 500 \/ up.code = "server_error")

ShouldRetryStreamWithIncomplete(up) ==
    ShouldRetryStream(up) \/ ResolvedCode(up) \in {"stream_incomplete", "upstream_incomplete"}

ShouldRetryCompact(up) ==
    ExhaustedAccountStatus(up) = "none" /\ up.status \in {401, 500, 502, 503, 504}

ShouldRetry(kind, up) ==
    CASE kind \in {"compact", "memories"} -> ShouldRetryCompact(up)
      [] kind = "json" -> ShouldRetryStreamWithIncomplete(up)
      [] kind \in {"ws", "passthrough"} -> ShouldRetryStream(up)
      [] kind = "transcribe" -> FALSE

RetryBudget(kind) ==
    IF kind \in {"compact", "memories"} THEN kCompactRetryBudget ELSE kStreamRetryBudget

-----------------------------------------------------------------------------
(* The answer of a handler.  usable says that the client is told that the  *)
(* request succeeded.                                                      *)

Answer(status, usable) == [status |-> status, usable |-> usable]
Refused(status) == Answer(status, FALSE)

(* validate_compact_success_payload: JSON, and of the expected shape *)
ValidateCompactSuccessPayload(up) == up.payload = "good"

CompactAnswer(up) ==
    IF up.status >= 400 THEN Refused(up.status)
    ELSE IF ValidateCompactSuccessPayload(up) THEN Answer(up.status, TRUE) ELSE Refused(502)

(* memories and transcribe pass on whatever body there is. *)
BodyAnswer(up) ==
    IF up.status >= 400 THEN Refused(up.status)
    ELSE IF up.payload # "empty" THEN Answer(up.status, TRUE) ELSE Refused(502)

(* A cut stream has no terminal event: nothing is collected from it. *)
JsonAnswer(up) ==
    IF up.status >= 400 THEN Refused(up.status)
    ELSE IF up.payload \notin {"empty", "cut"} THEN Answer(up.status, TRUE) ELSE Refused(502)

(* The ingress settles the request as a success if the stream is accepted  *)
(* and closes with 1000: every stream with frames, also one that was cut.  *)
WsAnswer(up) ==
    IF up.status >= 400 THEN Refused(up.status) ELSE Answer(101, up.payload # "empty")

AnswerOf(kind, up) ==
    CASE kind = "compact" -> CompactAnswer(up)
      [] kind \in {"memories", "transcribe"} -> BodyAnswer(up)
      [] kind = "json" -> JsonAnswer(up)
      [] kind \in {"ws", "passthrough"} -> WsAnswer(up)

-----------------------------------------------------------------------------
(* The handler.  cont: the request continues a response (previous id); fco:*)
(* its input holds tool output; header: the client named the account.      *)

IdleHandler == [kind |-> "none", pc |-> "idle", cont |-> FALSE, fco |-> FALSE, header |-> FALSE,
                want |-> HNone, account |-> HNone, token |-> FALSE, phase |-> "first",
                attempt |-> 0, sends |-> 0, up |-> NoAnswer, ans |-> Refused(0)]

HandlersTypeOK ==
    /\ hRow \in [HAccounts -> {"usable", "exhausted", "deactivated"}]
    /\ hEx.account \in HAccounts \union {HNone}
    /\ hEx.token => hEx.account \in HAccounts
    /\ hSpent \subseteq HAccounts

HandlersInit ==
    /\ hRow = [a \in HAccounts |-> "usable"]
    /\ hEx = IdleHandler
    /\ hSpent = {}
    /\ hStream = [events |-> <<>>, collected |-> [kind |-> "none"]]

PoolActive == Cardinality(HPool) >= 2

(* resolve_upstream_account_credentials: the accounts it may return *)
Resolvable(want, strict) ==
    LET usable == {a \in HAccounts : hRow[a] = "usable" /\ (PoolActive => a \in HPool)}
    IN  CASE want \in usable -> {want}
          [] want \notin usable /\ strict -> {}
          [] want \notin usable /\ ~strict -> usable

SetEx(h) == hEx' = h /\ UNCHANGED <<hRow, hSpent, hStream>>

Respond(h, ans) == [h EXCEPT !.pc = "done", !.ans = ans]

(* prepare_websocket_request_payload: a text frame that is not JSON or not *)
(* response.create is passed through as it is; response.create without a   *)
(* body is refused.                                                        *)
PrepareWebsocketPayload(frame) ==
    CASE frame = "response.create" -> "ws"
      [] frame \in {"binary", "other_type", "not_json"} -> "passthrough"
      [] frame = "empty_create" -> "invalid"

ReceiveFrame(frame, cont, fco, header, want) ==
    /\ hEx.pc = "idle"
    /\ fco => cont
    /\ LET mode == PrepareWebsocketPayload(frame)
           h == [IdleHandler EXCEPT !.kind = "ws"]
       IN  SetEx(CASE mode = "invalid" -> Respond(h, Refused(400))
                   [] mode = "passthrough" -> [h EXCEPT !.kind = mode, !.pc = "sending"]
                   [] mode = "ws" -> [h EXCEPT !.pc = "routing", !.cont = cont, !.fco = fco,
                                        !.header = header /\ want # HNone, !.want = want])

(* A unary handler starts, or refuses the request at once. *)
ReceiveUnary(kind, refusal, cont, fco, header, want) ==
    /\ hEx.pc = "idle"
    /\ LET h == [IdleHandler EXCEPT !.kind = kind]
       IN  \/ SetEx([h EXCEPT !.pc = "routing", !.cont = cont, !.fco = cont /\ fco,
                             !.header = header /\ want # HNone, !.want = want])
          \/ SetEx(Respond(h, Refused(refusal)))

(* collect_responses_json, which alone of these routes continuations *)
ReceiveJson(cont, fco, header, want) == ReceiveUnary("json", 404, cont, fco, header, want)

(* collect_responses_compact *)
ReceiveCompact(header, want) == ReceiveUnary("compact", 404, FALSE, FALSE, header, want)

(* collect_memories_trace_summarize *)
ReceiveMemories(header, want) == ReceiveUnary("memories", 404, FALSE, FALSE, header, want)

(* collect_transcribe: refused for its route, its model or missing audio *)
ReceiveTranscribe(header, want) ==
    \E refusal \in {400, 404} : ReceiveUnary("transcribe", refusal, FALSE, FALSE, header, want)

(* Credentials; a continuation asks for the account of its previous        *)
(* response and nothing else, and is sent anew from local context, or      *)
(* refused with 409, when that account cannot be used.                     *)
ResolveCredentials ==
    /\ hEx.pc = "routing"
    /\ LET h == hEx
           strict == h.cont /\ h.want # HNone
           found == Resolvable(h.want, strict)
           sent(a) == [h EXCEPT !.pc = "planning", !.account = a, !.token = TRUE]
       IN  \/ \E a \in found : SetEx(sent(a))
           \/ /\ found = {}
              /\ SetEx(CASE strict /\ ~h.header /\ ~h.fco
                              -> [h EXCEPT !.cont = FALSE, !.pc = "rerouting"]
                         [] strict /\ (h.header \/ h.fco) -> Respond(h, Refused(409))
                         [] ~strict -> [h EXCEPT !.pc = "planning", !.account = h.want])

(* The second, unconditional look for credentials of a stripped request *)
RerouteStripped ==
    /\ hEx.pc = "rerouting"
    /\ LET found == Resolvable(HNone, FALSE)
       IN  \/ \E a \in found : SetEx([hEx EXCEPT !.pc = "planning", !.account = a, !.token = TRUE])
           \/ found = {} /\ SetEx(Respond(hEx, Refused(409)))

(* The upstream plan is built (and the sticky session saved), or: 400. *)
BuildPlan ==
    /\ hEx.pc = "planning"
    /\ \/ SetEx([hEx EXCEPT !.pc = "sending"])
       \/ hEx.kind # "transcribe" /\ SetEx(Respond(hEx, Refused(400)))

-----------------------------------------------------------------------------
(* After an execution: a 401, a lost previous response, exhaustion, and    *)
(* then the answer, in this order.                                         *)

LostPrevious(h) == h.cont /\ h.up.code = "previous_response_not_found"

AfterLost(h) ==
    CASE h.kind \in Routed /\ LostPrevious(h) /\ h.fco /\ h.phase # "bridged"
            -> [h EXCEPT !.pc = "bridging"]
      [] h.kind \in Routed /\ LostPrevious(h) /\ ~h.fco
            -> [h EXCEPT !.pc = "stripping"]
      [] OTHER -> [h EXCEPT !.pc = "exhaustion"]

After(h) ==
    CASE h.kind = "passthrough" -> Respond(h, AnswerOf(h.kind, h.up))
      [] /\ h.kind # "passthrough" /\ h.up.status = 401 /\ h.account # HNone
         /\ h.phase = "first" \/ (h.phase = "refreshed" /\ IndicatesDeactivated(h.up))
            -> [h EXCEPT !.pc = "check401"]
      [] OTHER -> AfterLost(h)

(* execute_upstream_with_retry_budget, one attempt.  Without a token the   *)
(* upstream answers nothing but errors of its own or a 401.                *)
UpstreamAnswers(up) ==
    /\ hEx.pc = "sending"
    /\ hEx.token \/ up.status \in {401, 500, 503}
    /\ up.code = "previous_response_not_found" => hEx.cont
    /\ up.payload = "cut" =>      \* only a WebSocket transport notices
         (up.code = "stream_incomplete") = (hEx.kind \in {"ws", "passthrough"})
    /\ LET retry == ShouldRetry(hEx.kind, up) /\ hEx.attempt < RetryBudget(hEx.kind)
           h == [hEx EXCEPT !.sends = @ + 1, !.up = up]
       IN  /\ hEx' = IF retry THEN [h EXCEPT !.attempt = @ + 1, !.up = NoAnswer]
                     ELSE After([h EXCEPT !.attempt = 0])
           /\ hSpent' = IF ExhaustedAccountStatus(up) # "none" /\ hEx.account # HNone
                        THEN hSpent \union {hEx.account} ELSE hSpent
    /\ UNCHANGED <<hRow, hStream>>

(* handle_deactivated_401_if_present, else the token is refreshed once and *)
(* the request sent again; refreshed says whether that worked.             *)
Check401(refreshed) ==
    /\ hEx.pc = "check401"
    /\ IF IndicatesDeactivated(hEx.up)
       THEN /\ hEx' = AfterLost(hEx)
            /\ hRow' = IF hEx.account \in HAccounts
                       THEN [hRow EXCEPT ![hEx.account] = "deactivated"] ELSE hRow
       ELSE /\ UNCHANGED hRow
            /\ IF refreshed /\ hEx.account \in HAccounts /\ hRow[hEx.account] = "usable"
               THEN hEx' = [hEx EXCEPT !.pc = "sending", !.phase = "refreshed", !.token = TRUE]
               ELSE hEx' = AfterLost(hEx)
    /\ UNCHANGED <<hSpent, hStream>>

(* replace_previous_response_id_from_bridge found another id, or did not *)
RetryBridgedId(found) ==
    /\ hEx.pc = "bridging"
    /\ SetEx(IF found THEN [hEx EXCEPT !.pc = "sending", !.phase = "bridged"]
             ELSE [hEx EXCEPT !.pc = "exhaustion"])

(* fallback_body_with_local_context *)
RetryLocalContext ==
    /\ hEx.pc = "stripping"
    /\ SetEx([hEx EXCEPT !.pc = "sending", !.phase = "stripped", !.cont = FALSE])

HandleExhausted_StatusOnly(h) == IF h.up.status >= 400 THEN ExhaustedAccountStatus(h.up) ELSE "none"

(* handle_exhausted_account_if_present: a member of the lock pool is also  *)
(* exhausted by an upstream that fails.                                    *)
HandleExhausted(h) ==
    IF /\ ExhaustedAccountStatus(h.up) = "none" /\ h.up.status >= 500
       /\ PoolActive /\ h.account \in HPool
    THEN "rate_limited" ELSE ExhaustedAccountStatus(h.up)

CheckExhaustion ==
    /\ hEx.pc = "exhaustion"
    /\ LET h == hEx
           marked == HandleExhausted(h) # "none" /\ h.account # HNone
           failover == /\ marked /\ h.kind \in Routed /\ ~h.header /\ h.phase # "failover"
                       /\ ~(h.cont /\ h.fco)
       IN  /\ hEx' = IF failover THEN [h EXCEPT !.pc = "failover"]
                     ELSE Respond(h, AnswerOf(h.kind, h.up))
           /\ hRow' = IF marked /\ h.account \in HAccounts
                      THEN [hRow EXCEPT ![h.account] = IF @ = "deactivated" THEN @ ELSE "exhausted"]
                      ELSE hRow
    /\ UNCHANGED <<hSpent, hStream>>

(* The exhausted account's request goes once to another account. *)
FailOver ==
    /\ hEx.pc = "failover"
    /\ LET found == Resolvable(HNone, FALSE)
       IN  \/ \E a \in found :
                SetEx([hEx EXCEPT !.pc = "sending", !.phase = "failover", !.account = a,
                                  !.token = TRUE, !.cont = FALSE])
           \/ found = {} /\ SetEx(Respond(hEx, AnswerOf(hEx.kind, hEx.up)))

(* Another request marks an account while this handler waits. *)
OtherRequestMarks(a, mark) ==
    /\ hEx.pc \notin {"idle", "done"}
    /\ hRow[a] = "usable"
    /\ hRow' = [hRow EXCEPT ![a] = mark]
    /\ UNCHANGED <<hEx, hSpent, hStream>>

-----------------------------------------------------------------------------
(* collect_response_body_from_stream_events: the first error or terminal   *)
(* event decides; the items seen before it stand in for an output that the *)
(* terminal event leaves out.                                              *)

Ev(type, index, item) == [type |-> type, index |-> index, item |-> item]
StreamEvents == {Ev("item", i, x) : i \in {0, 1}, x \in {"x", "y"}} \union
                {Ev("completed", 0, "none"), Ev("completed", 0, "own"), Ev("error", 0, "none"),
                 Ev("other", 0, "none")}

NothingCollected == [items |-> [i \in {0, 1} |-> "none"], result |-> [kind |-> "none"]]

(* The items that were sent, in the order of their indexes. *)
OutputByIndex(items) ==
    (IF items[0] = "none" THEN <<>> ELSE <<items[0]>>) \o
    (IF items[1] = "none" THEN <<>> ELSE <<items[1]>>)

(* One event, after what was collected from those before it. *)
CollectEvent(s, e) ==
    IF s.result.kind # "none" THEN s
    ELSE CASE e.type = "item" -> [s EXCEPT !.items[e.index] = e.item]
           [] e.type = "error" -> [s EXCEPT !.result = [kind |-> "error"]]
           [] e.type = "completed" ->
                [s EXCEPT !.result =
                   [kind |-> "body",
                    output |-> IF e.item = "own" THEN <<"own">> ELSE OutputByIndex(s.items)]]
           [] OTHER -> s

CollectFromStreamEvents(events) ==
    LET scan[n \in 0..Len(events)] ==
            IF n = 0 THEN NothingCollected ELSE CollectEvent(scan[n - 1], events[n])
    IN  scan[Len(events)].result

CollectStream(events) ==
    /\ hEx.pc = "idle"
    /\ hEx' = [IdleHandler EXCEPT !.kind = "json", !.pc = "collected"]
    /\ hStream' = [events |-> events, collected |-> CollectFromStreamEvents(events)]
    /\ UNCHANGED <<hRow, hSpent>>

-----------------------------------------------------------------------------
HandlersNext ==
    \/ \E cont, fco, header \in BOOLEAN, want \in HAccounts \union {HNone} :
         \/ \E frame \in {"response.create", "binary", "other_type", "not_json", "empty_create"} :
              ReceiveFrame(frame, cont, fco, header, want)
         \/ ReceiveJson(cont, fco, header, want)
         \/ ReceiveCompact(header, want)
         \/ ReceiveMemories(header, want)
         \/ ReceiveTranscribe(header, want)
    \/ ResolveCredentials \/ RerouteStripped \/ BuildPlan
    \/ \E up \in UpAnswers : UpstreamAnswers(up)
    \/ \E refreshed \in BOOLEAN : Check401(refreshed)
    \/ \E found \in BOOLEAN : RetryBridgedId(found)
    \/ RetryLocalContext \/ CheckExhaustion \/ FailOver
    \/ \E a \in HAccounts, mark \in {"exhausted", "deactivated"} : OtherRequestMarks(a, mark)
    \/ \E n \in 1..MaxEvents : \E events \in [1..n -> StreamEvents] : CollectStream(events)

HandlersSpec == HandlersInit /\ [][HandlersNext]_handlerVars

-----------------------------------------------------------------------------
(* Every account whose upstream answered that it is exhausted, in whatever *)
(* execution of a handler that routes and even with status 200, has been   *)
(* retired from routing by the time the handler answers.                   *)
ReportedAccountIsRetired ==
    hEx.pc = "done" /\ hEx.kind # "passthrough" => \A a \in hSpent : hRow[a] # "usable"

(* A handler tells its client that the request succeeded only if the last  *)
(* execution did, with a payload the client can use: of the expected shape *)
(* for compact, a stream that ended for JSON, some body or frame for the   *)
(* rest.                                                                   *)
SuccessHasPayload ==
    hEx.pc = "done" /\ hEx.ans.usable =>
        /\ hEx.up.status = 200
        /\ hEx.up.payload # "empty"
        /\ hEx.kind = "compact" => hEx.up.payload = "good"
        /\ hEx.kind = "json" => hEx.up.payload # "cut"

(* The upstream sees at most one retry budget for each of the executions   *)
(* of a request: the first, the one with a refreshed token, the one for a  *)
(* lost previous response and the failover.                                *)
SendsAreBounded ==
    hEx.sends <= CASE hEx.kind \in {"compact", "memories"} -> 2 * (kCompactRetryBudget + 1)
                   [] hEx.kind = "transcribe" -> 2
                   [] hEx.kind = "passthrough" -> kStreamRetryBudget + 1
                   [] OTHER -> 4 * (kStreamRetryBudget + 1)

(* What is collected from a stream is what its first decisive event says;  *)
(* an output left out is the last item sent for each index, in the order   *)
(* of the indexes.                                                         *)
CollectedBodyIsTheStreams ==
    LET ev == hStream.events
        decisive == {k \in 1..Len(ev) : ev[k].type \in {"error", "completed"}}
        d == CHOOSE k \in decisive : \A j \in decisive : k <= j
        lastOf(i) == {k \in 1..(d - 1) : /\ ev[k].type = "item" /\ ev[k].index = i
                                         /\ \A j \in (k + 1)..(d - 1) :
                                              ev[j].type = "item" => ev[j].index # i}
        items(i) == IF lastOf(i) = {} THEN <<>> ELSE <<ev[CHOOSE k \in lastOf(i) : TRUE].item>>
    IN  IF decisive = {} THEN hStream.collected = [kind |-> "none"]
        ELSE IF ev[d].type = "error" THEN hStream.collected = [kind |-> "error"]
        ELSE hStream.collected =
               [kind |-> "body", output |-> IF ev[d].item = "own" THEN <<"own">>
                                            ELSE items(0) \o items(1)]

(* What holds of every handler: its account is retired when it is spent, it *)
(* answers success with a payload only, asks the upstream a bounded number  *)
(* of times and collects what the stream said.                              *)
HandlersSafety ==
    /\ HandlersTypeOK
    /\ ReportedAccountIsRetired
    /\ SuccessHasPayload
    /\ SendsAreBounded
    /\ CollectedBodyIsTheStreams
=============================================================================
