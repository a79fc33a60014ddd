--------------------------- MODULE ProxyResponses ---------------------------
(***************************************************************************)
(* The /responses handlers of the proxy, collect_responses_json and its    *)
(* twin stream_responses_sse, run concurrently by the executor's workers   *)
(* over three shared stores: the accounts table (AccountStore), the sticky *)
(* sessions, and the record of which account produced which response (the  *)
(* continuity table and the in-memory bridge in front of it).              *)
(*                                                                         *)
(* One action per critical section: every store is read or written under   *)
(* its own mutex or by one SQL statement, and nothing is held between two  *)
(* of them nor while the upstream answers.                                 *)
(*                                                                         *)
(* A response id is the request that produced it; Seed is a response from  *)
(* before.  The routing strategies (round robin, drain-hop, weighted) are  *)
(* a free choice among the candidates they are given.                      *)
(***************************************************************************)
EXTENDS AccountStore, FiniteSets

CONSTANTS
    Accounts,
    UnknownAccount,     \* an account id with no row (a deleted account)
    NoAccount,          \* the empty account id
    Keys,               \* session keys (sticky key and continuity key)
    Requests,
    Seed, NoId,
    LockPool,           \* locked_routing_account_ids of the dashboard settings
    Inputs,             \* the requests clients may send
    InitialRows,        \* the rows the accounts table may start with
    kStreamRetryBudget

AccountIds == Accounts \union {UnknownAccount}
Ids == Requests \union {Seed}
Routes == {"codex", "plain"}

(* fco: the input holds a function_call_output; header: the account it     *)
(* names, if any.                                                          *)
ClientRequests ==
    [route : Routes, key : Keys, prev : Ids \union {NoId}, fco : BOOLEAN,
     header : AccountIds \union {NoAccount}]

ASSUME ProxyAssumption ==
    /\ NoAccount \notin AccountIds /\ UnknownAccount \notin Accounts
    /\ Seed \notin Requests /\ NoId \notin Ids
    /\ LockPool \subseteq AccountIds /\ IsFiniteSet(LockPool)
    /\ kStreamRetryBudget \in Nat
    /\ InitialRows \subseteq AccountRows
    /\ Keys # {} /\ Inputs \subseteq ClientRequests

VARIABLES
    row,        \* accounts
    sticky,     \* proxy_sticky_sessions: key -> account
    continuity, \* proxy_response_continuity: key -> its rows
    bridge,     \* the in-memory bridge: key -> latest response id
    owner,      \* history: the account that produced a response
    req         \* the handlers' local variables

vars == <<row, sticky, continuity, bridge, owner, req>>

Outcomes ==
    {"none", "ok", "incomplete", "unauthorized", "deactivated", "rate_limited", "quota_blocked",
     "server_error", "unavailable", "not_found"}
Phases == {"first", "refreshed", "bridged", "stripped", "failover"}
Places ==
    {"new", "affinity", "preferred", "continuity", "rewrite", "preferred2", "continuity2",
     "recover", "select", "plan", "sending", "check401", "refreshing", "bridging", "restrip",
     "exhausted", "recover_failover", "select_failover", "remember", "done"}

(* route, key, prev, fco and from_header describe the request (fco: its    *)
(* input holds a function_call_output); affinity, pref and want are the    *)
(* account of the sticky session or header, of the previous response, and  *)
(* the one credentials are asked for; known is                             *)
(* strict_preferred_account_known; account, token and carries are what is  *)
(* sent; failed is the account a failover leaves.                          *)
Handlers ==
    [pc : Places, phase : Phases, route : Routes, key : Keys,
     prev : Ids \union {NoId}, fco : BOOLEAN, from_header : BOOLEAN,
     affinity : AccountIds \union {NoAccount}, pref : AccountIds \union {NoAccount},
     want : AccountIds \union {NoAccount}, strict : BOOLEAN, known : BOOLEAN,
     account : AccountIds \union {NoAccount}, token : BOOLEAN,
     carries : Ids \union {NoId}, outcome : Outcomes, attempt : 0 .. kStreamRetryBudget,
     failed : AccountIds \union {NoAccount}]

AnyKey == CHOOSE k \in Keys : TRUE

Blank(pc) ==
    [pc |-> pc, phase |-> "first", route |-> "plain", key |-> AnyKey, prev |-> NoId,
     fco |-> FALSE, from_header |-> FALSE, affinity |-> NoAccount, pref |-> NoAccount,
     want |-> NoAccount, strict |-> FALSE, known |-> FALSE, account |-> NoAccount,
     token |-> FALSE, carries |-> NoId, outcome |-> "none", attempt |-> 0, failed |-> NoAccount]

Done == Blank("done")

(* at: updated_at_ms, as a rank among the rows of the key *)
ContinuityRows == [id : Ids, account : AccountIds, at : Nat]

(* A token in hand is the token of an account in the table. *)
TypeOK ==
    /\ row \in [Accounts -> AccountRows]
    /\ sticky \in [Keys -> AccountIds \union {NoAccount}]
    /\ continuity \in [Keys -> SUBSET ContinuityRows]
    /\ bridge \in [Keys -> Ids \union {NoId}]
    /\ owner \in [Ids -> AccountIds \union {NoAccount}]
    /\ req \in [Requests -> Handlers]
    /\ \A r \in Requests : req[r].token => req[r].account \in Accounts

(* One earlier response may be on record, from an account that may since   *)
(* have been deleted; the bridge is empty after a restart.                 *)
Init ==
    /\ row \in [Accounts -> InitialRows]
    /\ \E k \in Keys, a \in AccountIds :
         /\ owner = [i \in Ids |-> IF i = Seed THEN a ELSE NoAccount]
         /\ continuity = [j \in Keys |->
                            IF j = k THEN {[id |-> Seed, account |-> a, at |-> 0]} ELSE {}]
         /\ sticky \in [Keys -> {NoAccount, a}]
         /\ bridge = [j \in Keys |-> NoId]
    /\ req = [r \in Requests |-> Blank("new")]

-----------------------------------------------------------------------------
(* Selecting an account *)

lock_pool_active == Cardinality(LockPool) >= 2

InLockPool(a) == ~lock_pool_active \/ a \in LockPool

(* mutant: the lock pool does not guard the preferred account *)
Preferred_NoGuard(a) == IF a \in Accounts /\ Usable(row[a]) THEN {a} ELSE {}

(* select_preferred_credentials, as the set of at most one account *)
Preferred(a) == IF a \in Accounts /\ Usable(row[a]) /\ InLockPool(a) THEN {a} ELSE {}

(* resolve_upstream_account_credentials, after it has recovered expired    *)
(* limits: the accounts it may return, none if the set is empty.           *)
Selectable(want, strict) ==
    LET usable == {a \in Accounts : Usable(row[a])}
        pinned == IF lock_pool_active THEN {} ELSE {a \in usable : row[a].pinned}
    IN  CASE strict -> Preferred(want)
          [] ~strict /\ pinned # {} -> pinned
          [] ~strict /\ pinned = {} /\ Preferred(want) # {} -> Preferred(want)
          [] OTHER -> {a \in usable : InLockPool(a)}

-----------------------------------------------------------------------------
(* Stores *)

(* find_proxy_response_continuity: the latest row of the key *)
Latest(k) ==
    IF continuity[k] = {} THEN [id |-> NoId, account |-> NoAccount, at |-> 0]
    ELSE CHOOSE c \in continuity[k] : \A d \in continuity[k] : d.at <= c.at

(* The id replace_previous_response_id_from_bridge finds for a key: the    *)
(* bridge's, else the table's (which then enters the bridge).              *)
BridgedId(k) == IF bridge[k] # NoId THEN bridge[k] ELSE Latest(k).id

Purged(a) ==
    /\ sticky' = [k \in Keys |-> IF sticky[k] = a THEN NoAccount ELSE sticky[k]]
    /\ continuity' = [k \in Keys |-> {c \in continuity[k] : c.account # a}]

(* mark_upstream_account_exhausted and _unusable: purge the sessions and   *)
(* the continuity rows of the account, then update its row if it has one.  *)
MarkAccount(a, status) ==
    /\ Purged(a)
    /\ row' = [b \in Accounts |->
                 IF b # a THEN row[b]
                 ELSE IF status = "deactivated" THEN MarkUnusable(row[b])
                 ELSE MarkExhausted(row[b], status)]

-----------------------------------------------------------------------------
(* Reading the request: resolve_sticky_affinity, then                      *)
(* guard_backend_codex_previous_response, one store access at a time.      *)

At(r, pc) == req[r].pc = pc
Set(r, h) == req' = [req EXCEPT ![r] = h]
Finish(r) == Set(r, Done)

Receive(r, in) ==
    /\ At(r, "new")
    /\ in.prev # NoId => owner[in.prev] # NoAccount
    /\ Set(r, [Blank("affinity") EXCEPT
                 !.route = in.route, !.key = in.key, !.prev = in.prev, !.fco = in.fco,
                 !.affinity = in.header, !.from_header = (in.header # NoAccount)])
    /\ UNCHANGED <<row, sticky, continuity, bridge, owner>>

ResolveAffinity(r) ==
    /\ At(r, "affinity")
    /\ Set(r, [req[r] EXCEPT !.pc = "preferred",
                 !.affinity = IF req[r].from_header THEN @ ELSE sticky[req[r].key]])
    /\ UNCHANGED <<row, sticky, continuity, bridge, owner>>

(* resolve_preferred_account_id_from_previous_response *)
ResolvePreferred(r) ==
    /\ req[r].pc \in {"preferred", "preferred2"}
    /\ LET c == Latest(req[r].key)
       IN  Set(r, [req[r] EXCEPT
                     !.pc = IF @ = "preferred" THEN "continuity" ELSE "continuity2",
                     !.pref = IF req[r].prev # NoId /\ c.id = req[r].prev THEN c.account
                              ELSE NoAccount])
    /\ UNCHANGED <<row, sticky, continuity, bridge, owner>>

(* The codex route strips a previous id nobody is on record for; then the  *)
(* handler picks the account to ask credentials for.  conty is what        *)
(* resolve_continuity_account_id answered.                                 *)
Guarded(q, conty) ==
    LET strip == /\ q.route = "codex" /\ q.prev # NoId /\ ~q.fco
                 /\ q.pref = NoAccount /\ conty = NoAccount /\ ~q.from_header
        prev == IF strip THEN NoId ELSE q.prev
        want == CASE q.pref # NoAccount -> q.pref
                  [] q.pref = NoAccount /\ conty # NoAccount -> conty
                  [] OTHER -> q.affinity
        strict == prev # NoId /\ want # NoAccount
    IN  [q EXCEPT !.pc = "recover", !.prev = prev, !.want = want, !.strict = strict,
                  !.known = strict /\ want \in Accounts]

(* resolve_continuity_account_id; a codex continuation is rewritten next.  *)
ResolveContinuity(r) ==
    /\ req[r].pc \in {"continuity", "continuity2"}
    /\ LET q == req[r]
           conty == IF q.prev # NoId THEN Latest(q.key).account ELSE NoAccount
       IN  Set(r, IF q.pc = "continuity" /\ q.route = "codex" /\ q.prev # NoId
                  THEN [q EXCEPT !.pc = "rewrite", !.want = conty]
                  ELSE Guarded(q, conty))
    /\ UNCHANGED <<row, sticky, continuity, bridge, owner>>

(* The codex route replaces the client's previous id by the latest one on  *)
(* record for the session, and looks the accounts up again if it did.      *)
RewritePrevious(r) ==
    /\ At(r, "rewrite")
    /\ LET q == req[r]
           id == BridgedId(q.key)
       IN  /\ bridge' = [bridge EXCEPT ![q.key] = id]
           /\ Set(r, IF id \in {NoId, q.prev} THEN Guarded(q, q.want)
                     ELSE [q EXCEPT !.pc = "preferred2", !.prev = id, !.want = NoAccount])
    /\ UNCHANGED <<row, sticky, continuity, owner>>

-----------------------------------------------------------------------------
(* Credentials: recover_expired_account_limit_blocks is a statement of its *)
(* own, and the queries follow it.                                         *)

RecoverLimits(r) ==
    /\ req[r].pc \in {"recover", "recover_failover"}
    /\ row' = [a \in Accounts |-> RecoverExpired(row[a])]
    /\ Set(r, [req[r] EXCEPT !.pc = IF @ = "recover" THEN "select" ELSE "select_failover"])
    /\ UNCHANGED <<sticky, continuity, bridge, owner>>

(* apply_resolved_credentials *)
WithCredentials(q, a) == [q EXCEPT !.pc = "plan", !.account = a, !.token = TRUE]

(* mutant: a continuation whose account is blocked is sent all the same *)
WithoutCredentials_NoConflict(q) == [q EXCEPT !.pc = "plan", !.account = q.affinity]

(* No credentials: the request goes on with the account of the session or  *)
(* header and no token, or is refused with 409 if it continued a response  *)
(* of an account that exists.                                              *)
WithoutCredentials(q) ==
    IF q.known THEN Done ELSE [q EXCEPT !.pc = "plan", !.account = q.affinity]

Select(r) ==
    /\ At(r, "select")
    /\ LET q == req[r]
           found == Selectable(q.want, q.strict)
       IN  \/ \E a \in found : Set(r, WithCredentials(q, a))
           \/ /\ found = {}
              /\ Set(r, IF q.strict /\ ~q.from_header /\ ~q.fco
                        THEN [q EXCEPT !.pc = "recover", !.prev = NoId, !.want = NoAccount,
                                       !.strict = FALSE]
                        ELSE WithoutCredentials(q))
    /\ UNCHANGED <<row, sticky, continuity, bridge, owner>>

(* The plan is built, persist_sticky_affinity, and the request goes out... *)
Plan(r) ==
    /\ At(r, "plan")
    /\ LET q == req[r]
       IN  /\ Set(r, [q EXCEPT !.pc = "sending", !.carries = q.prev])
           /\ sticky' = IF q.account = NoAccount THEN sticky
                        ELSE [sticky EXCEPT ![q.key] = q.account]
    /\ UNCHANGED <<row, continuity, bridge, owner>>

(* ... or building it fails: 400. *)
PlanInvalid(r) ==
    /\ At(r, "plan")
    /\ Finish(r)
    /\ UNCHANGED <<row, sticky, continuity, bridge, owner>>

-----------------------------------------------------------------------------
(* The upstream *)

(* What the upstream may answer: nothing but an authentication error or a  *)
(* failure of its own without a token, and not_found only to a             *)
(* continuation.                                                           *)
Answers(q) ==
    {"unauthorized", "server_error", "unavailable"} \union
    (IF q.token
     THEN {"ok", "incomplete", "deactivated", "rate_limited", "quota_blocked"} \union
          (IF q.carries # NoId THEN {"not_found"} ELSE {})
     ELSE {})

(* mutant: every retryable answer is retried *)
RetryAllowed_NoBudget(q, o) == o \in {"server_error", "incomplete"}

(* should_retry_stream_result_with_incomplete, within the budget *)
RetryAllowed(q, o) == o \in {"server_error", "incomplete"} /\ q.attempt < kStreamRetryBudget

(* exhausted_account_status_from_upstream, and the lock pool's rule that a *)
(* failing upstream exhausts the account.                                  *)
ExhaustedStatus(q) ==
    CASE q.outcome \in Limited -> q.outcome
      [] /\ q.outcome \in {"server_error", "unavailable"}
         /\ lock_pool_active /\ q.account \in LockPool -> "rate_limited"
      [] OTHER -> "none"

(* The handler's checks after an execution, in the order the code makes    *)
(* them: the first that applies is where it goes on.                       *)
NotFound(q) == q.prev # NoId /\ q.outcome = "not_found"

Onward(q) ==
    CASE NotFound(q) /\ q.fco /\ q.route = "codex" /\ q.phase # "bridged"
                -> [q EXCEPT !.pc = "bridging"]
      [] NotFound(q) /\ ~q.fco -> [q EXCEPT !.pc = "restrip"]
      [] ~NotFound(q) /\ q.account # NoAccount /\ ExhaustedStatus(q) # "none"
                -> [q EXCEPT !.pc = "exhausted"]
      [] q.outcome = "ok" -> [q EXCEPT !.pc = "remember"]
      [] OTHER -> Done

(* A 401 comes before them, for the first execution and, if it says that   *)
(* the account is deactivated, for the one with the refreshed token.       *)
AfterExecution(q) ==
    IF /\ q.account # NoAccount
       /\ \/ q.phase = "first" /\ q.outcome \in {"unauthorized", "deactivated"}
          \/ q.phase = "refreshed" /\ q.outcome = "deactivated"
    THEN [q EXCEPT !.pc = "check401"]
    ELSE Onward(q)

(* execute_upstream_with_retry_budget, one attempt *)
Upstream(r, o) ==
    /\ At(r, "sending")
    /\ LET q == req[r]
       IN  /\ o \in Answers(q)
           /\ IF RetryAllowed(q, o)
              THEN /\ Set(r, [q EXCEPT !.attempt = (@ + 1) % (kStreamRetryBudget + 1)])
                   /\ UNCHANGED owner
              ELSE /\ Set(r, AfterExecution([q EXCEPT !.outcome = o, !.attempt = 0]))
                   /\ owner' = IF o = "ok" THEN [owner EXCEPT ![r] = q.account] ELSE owner
    /\ UNCHANGED <<row, sticky, continuity, bridge>>

(* A 401: mark a deactivated account, or refresh the token once if the     *)
(* account is active (find_active_account_tokens).                         *)
Check401(r) ==
    /\ At(r, "check401")
    /\ LET q == req[r]
       IN  IF q.outcome = "deactivated"
           THEN MarkAccount(q.account, "deactivated") /\ Set(r, Onward(q))
           ELSE /\ Set(r, IF q.account \in Accounts /\ row[q.account].status = "active"
                          THEN [q EXCEPT !.pc = "refreshing"] ELSE Onward(q))
                /\ UNCHANGED <<row, sticky, continuity>>
    /\ UNCHANGED <<bridge, owner>>

(* refresh_upstream_account_credentials has the new token: it is stored,   *)
(* and used if the account's row can still be routed to.                   *)
TokenRefreshed(r) ==
    /\ At(r, "refreshing")
    /\ LET q == req[r]
           new == UpdateTokens(row[q.account])
       IN  /\ row' = [row EXCEPT ![q.account] = new]
           /\ Set(r, IF Usable(new)
                     THEN [q EXCEPT !.pc = "sending", !.phase = "refreshed", !.token = TRUE]
                     ELSE Onward(q))
    /\ UNCHANGED <<sticky, continuity, bridge, owner>>

TokenRefreshFailed(r) ==
    /\ At(r, "refreshing")
    /\ Set(r, Onward(req[r]))
    /\ UNCHANGED <<row, sticky, continuity, bridge, owner>>

(* previous_response_not_found on the codex route, with tool output: try   *)
(* the id the bridge has for the session, on the same account.             *)
RetryBridged(r) ==
    /\ At(r, "bridging")
    /\ LET q == req[r]
           id == BridgedId(q.key)
       IN  /\ bridge' = [bridge EXCEPT ![q.key] = id]
           /\ Set(r, IF id \notin {NoId, q.prev}
                     THEN [q EXCEPT !.pc = "sending", !.phase = "bridged", !.carries = id]
                     ELSE Onward([q EXCEPT !.phase = "bridged"]))
    /\ UNCHANGED <<row, sticky, continuity, owner>>

(* previous_response_not_found without tool output: send the conversation  *)
(* again from local context, without the id.                               *)
RetryStripped(r) ==
    /\ At(r, "restrip")
    /\ Set(r, [req[r] EXCEPT !.pc = "sending", !.phase = "stripped", !.prev = NoId,
                             !.carries = NoId])
    /\ UNCHANGED <<row, sticky, continuity, bridge, owner>>

-----------------------------------------------------------------------------
(* Exhaustion and failover *)

(* handle_exhausted_account_if_present; a failover follows unless the      *)
(* client named the account, the body cannot do without the previous       *)
(* response, or this was the failover.                                     *)
CheckExhausted(r) ==
    /\ At(r, "exhausted")
    /\ LET q == req[r]
           failover == /\ q.phase # "failover" /\ ~q.from_header
                       /\ q.prev = NoId \/ ~q.fco
       IN  /\ MarkAccount(q.account, ExhaustedStatus(q))
           /\ Set(r, IF failover
                     THEN [q EXCEPT !.pc = "recover_failover", !.failed = q.account]
                     ELSE Done)
    /\ UNCHANGED <<bridge, owner>>

Failover(r) ==
    /\ At(r, "select_failover")
    /\ LET q == req[r]
           found == Selectable(NoAccount, FALSE)
       IN  \/ \E a \in found :
                /\ Set(r, [q EXCEPT !.pc = "sending", !.phase = "failover", !.account = a,
                                    !.token = TRUE, !.prev = NoId, !.carries = NoId])
                /\ sticky' = [sticky EXCEPT ![q.key] = a]
           \/ /\ found = {}
              /\ Finish(r)
              /\ UNCHANGED sticky
    /\ UNCHANGED <<row, continuity, bridge, owner>>

(* remember_response_id, after a response, and the handler returns. *)
Remember(r) ==
    /\ At(r, "remember")
    /\ LET q == req[r]
       IN  /\ bridge' = [bridge EXCEPT ![q.key] = r]
           /\ continuity' = [continuity EXCEPT ![q.key] =
                 @ \union {[id |-> r, account |-> q.account, at |-> Latest(q.key).at + 1]}]
    /\ Finish(r)
    /\ UNCHANGED <<row, sticky, owner>>

-----------------------------------------------------------------------------
(* Time: a quota window resets; sessions, continuity rows and bridge       *)
(* entries outlive their TTL.                                              *)

ResetPasses(a) ==
    /\ \/ /\ row[a].primary_reset = "future"
          /\ row' = [row EXCEPT ![a].primary_reset = "past"]
       \/ /\ row[a].secondary_reset = "future"
          /\ row' = [row EXCEPT ![a].secondary_reset = "past"]
    /\ UNCHANGED <<sticky, continuity, bridge, owner, req>>

Expire(k) ==
    /\ \/ /\ sticky[k] # NoAccount
          /\ sticky' = [sticky EXCEPT ![k] = NoAccount]
          /\ UNCHANGED <<continuity, bridge>>
       \/ /\ \E c \in continuity[k] :
               /\ \A d \in continuity[k] : c.at <= d.at
               /\ continuity' = [continuity EXCEPT ![k] = @ \ {c}]
          /\ UNCHANGED <<sticky, bridge>>
       \/ /\ bridge[k] # NoId
          /\ bridge' = [bridge EXCEPT ![k] = NoId]
          /\ UNCHANGED <<sticky, continuity>>
    /\ UNCHANGED <<row, owner, req>>

-----------------------------------------------------------------------------
(* A step of a handler that has been started. *)
Step(r) ==
    \/ ResolveAffinity(r) \/ ResolvePreferred(r) \/ ResolveContinuity(r)
    \/ RewritePrevious(r)
    \/ RecoverLimits(r) \/ Select(r) \/ Plan(r) \/ PlanInvalid(r)
    \/ \E o \in Outcomes : Upstream(r, o)
    \/ Check401(r) \/ TokenRefreshed(r) \/ TokenRefreshFailed(r)
    \/ RetryBridged(r) \/ RetryStripped(r)
    \/ CheckExhausted(r) \/ Failover(r) \/ Remember(r)

Next ==
    \/ \E r \in Requests : (\E in \in Inputs : Receive(r, in)) \/ Step(r)
    \/ \E a \in Accounts : ResetPasses(a)
    \/ \E k \in Keys : Expire(k)

(* A worker runs its handler, and every upstream call answers or times out *)
(* (as "unavailable").                                                     *)
Fairness == \A r \in Requests : WF_vars(Step(r))

Spec == Init /\ [][Next]_vars /\ Fairness

-----------------------------------------------------------------------------
(* PROPERTIES *)

(* While the owner on record of the previous response has a row, a request *)
(* that still carries the id is sent to that account only, with its token: *)
(* it is never re-routed with the id in it, nor sent with an empty token,  *)
(* whatever the other requests do to the account meanwhile.                *)
KnownOwnerKeepsContinuation ==
    \A r \in Requests :
        req[r].pc = "sending" /\ req[r].carries # NoId /\ req[r].pref \in Accounts
        => req[r].account = req[r].pref /\ req[r].token

(* With a lock pool of two or more ids, credentials of an account outside  *)
(* it are used in one case only: a request sent without a token was        *)
(* refused, and refresh_upstream_account_credentials, which does not look  *)
(* at the pool, got a token for the account of its session or header.      *)
OutsidePoolOnlyByRefresh ==
    \A r \in Requests :
        req[r].pc = "sending" /\ req[r].token /\ ~InLockPool(req[r].account)
        => req[r].phase \in {"refreshed", "bridged", "stripped"}

(* A failover returns to the account it leaves only if a quota window of   *)
(* it had reset: marking an account exhausted does take it out of routing  *)
(* for everyone until then, token refreshes of other requests included.    *)
FailoverRepeatsOnlyAfterReset ==
    \A r \in Requests :
        LET q == req[r]
        IN  q.pc = "sending" /\ q.phase = "failover" /\ q.account = q.failed
            => "past" \in {row[q.account].primary_reset, row[q.account].secondary_reset}

(* Every continuity row names the account that produced the response,      *)
(* after refreshes, failovers and purges in any order.                     *)
ContinuityNamesOwner ==
    \A k \in Keys : \A c \in continuity[k] : c.account = owner[c.id]

(* The record of a request is well formed, and the lock pool guards every  *)
(* way to an account but one.                                              *)
RoutingSafety == TypeOK /\ OutsidePoolOnlyByRefresh

(* A continued conversation stays with the account that has it: the rows   *)
(* name that account, and a request with the id is sent to no other.       *)
ContinuityIsKept == ContinuityNamesOwner /\ KnownOwnerKeepsContinuation

(* Every request the proxy takes on is answered. *)
RequestsAreAnswered ==
    \A r \in Requests : req[r].pc = "affinity" ~> req[r].pc = "done"
=============================================================================
