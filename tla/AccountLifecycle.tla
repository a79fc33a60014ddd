-------------------------- MODULE AccountLifecycle --------------------------
(***************************************************************************)
(* Everyone who writes the accounts table, interleaved: proxied requests   *)
(* that mark an account exhausted or deactivated and recover expired       *)
(* limits before routing; token refreshes (the 24 h scheduler, the 401     *)
(* retry of a request, the dashboard), which read the row, talk to the     *)
(* OAuth provider and write the row; usage refreshes, which do the same    *)
(* with the usage endpoint; and the dashboard's pause, reactivate, pin and *)
(* unpin.  No lock covers a read and the write that follows it.            *)
(***************************************************************************)
EXTENDS AccountStore

CONSTANTS
    Accounts,
    TokenRefreshers,    \* concurrent refresh_access_token_for_account() calls
    UsageRefreshers,    \* concurrent refresh_account_usage() calls
    NoAccount

ASSUME LifecycleAssumption == NoAccount \notin Accounts

VARIABLES
    row,        \* the accounts table
    refresh,    \* per token refresh: the account it works on, the status it read
    usage,      \* per usage refresh: its stage, its account, the status it read
    pinning     \* account pin_account() has found active and not pinned yet

vars == <<row, refresh, usage, pinning>>

NoCall == [account |-> NoAccount, seen |-> "active"]
NoUsageCall == [stage |-> "idle", account |-> NoAccount, seen |-> "active"]

Calls == {NoCall} \union [account : Accounts, seen : Statuses]
UsageCalls ==
    {NoUsageCall} \union
    [stage : {"fetching", "refreshing", "refetching"}, account : Accounts, seen : Statuses]

TypeOK ==
    /\ row \in [Accounts -> AccountRows]
    /\ refresh \in [TokenRefreshers -> Calls]
    /\ usage \in [UsageRefreshers -> UsageCalls]
    /\ pinning \in Accounts \union {NoAccount}

(* Accounts are imported active, with no telemetry and no pin. *)
Init ==
    /\ row = [a \in Accounts |->
                [status |-> "active", primary |-> "null", secondary |-> "null",
                 primary_reset |-> "none", secondary_reset |-> "none", pinned |-> FALSE]]
    /\ refresh = [t \in TokenRefreshers |-> NoCall]
    /\ usage = [u \in UsageRefreshers |-> NoUsageCall]
    /\ pinning = NoAccount

Write(a, newRow) == row' = [row EXCEPT ![a] = newRow]

-----------------------------------------------------------------------------
(* Proxied requests *)

Exhausted(a, status) ==
    /\ Write(a, MarkExhausted(row[a], status))
    /\ UNCHANGED <<refresh, usage, pinning>>

Deactivated(a) ==
    /\ Write(a, MarkUnusable(row[a]))
    /\ UNCHANGED <<refresh, usage, pinning>>

RecoverLimits ==
    /\ \E a \in Accounts : LimitExpired(row[a])
    /\ row' = [a \in Accounts |-> RecoverExpired(row[a])]
    /\ UNCHANGED <<refresh, usage, pinning>>

(* Time: a reset timestamp passes. *)
ResetPasses(a) ==
    /\ \/ row[a].primary_reset = "future" /\ Write(a, [row[a] EXCEPT !.primary_reset = "past"])
       \/ row[a].secondary_reset = "future" /\ Write(a, [row[a] EXCEPT !.secondary_reset = "past"])
    /\ UNCHANGED <<refresh, usage, pinning>>

-----------------------------------------------------------------------------
(* Token refresh: find_active_account_tokens, the provider call, then      *)
(* update_account_tokens.                                                  *)

(* mutant: the stored tokens are looked up whatever the status is *)
BeginTokenRefresh_AnyStatus(t, a) ==
    /\ refresh[t] = NoCall
    /\ refresh' = [refresh EXCEPT ![t] = [account |-> a, seen |-> row[a].status]]
    /\ UNCHANGED <<row, usage, pinning>>

BeginTokenRefresh(t, a) ==
    /\ refresh[t] = NoCall
    /\ row[a].status = "active"
    /\ refresh' = [refresh EXCEPT ![t] = [account |-> a, seen |-> row[a].status]]
    /\ UNCHANGED <<row, usage, pinning>>

TokenRefreshed(t) ==
    /\ refresh[t] # NoCall
    /\ Write(refresh[t].account, UpdateTokens(row[refresh[t].account]))
    /\ refresh' = [refresh EXCEPT ![t] = NoCall]
    /\ UNCHANGED <<usage, pinning>>

TokenRefreshFailed(t) ==
    /\ refresh[t] # NoCall
    /\ refresh' = [refresh EXCEPT ![t] = NoCall]
    /\ UNCHANGED <<row, usage, pinning>>

-----------------------------------------------------------------------------
(* Usage refresh: refresh_account_usage reads the row, fetches the usage   *)
(* (refreshing the token once if it was refused), reconciles the status it *)
(* read with the percentages it got, and writes all of it.                 *)

BeginUsageRefresh(u, a) ==
    /\ usage[u].stage = "idle"
    /\ usage' = [usage EXCEPT ![u] = [stage |-> "fetching", account |-> a, seen |-> row[a].status]]
    /\ UNCHANGED <<row, refresh, pinning>>

UsageNeedsToken(u) ==
    /\ usage[u].stage = "fetching"
    /\ row[usage[u].account].status = "active"
    /\ usage' = [usage EXCEPT ![u].stage = "refreshing"]
    /\ UNCHANGED <<row, refresh, pinning>>

UsageTokenRefreshed(u) ==
    /\ usage[u].stage = "refreshing"
    /\ Write(usage[u].account, UpdateTokens(row[usage[u].account]))
    /\ usage' = [usage EXCEPT ![u].stage = "refetching"]
    /\ UNCHANGED <<refresh, pinning>>

UsageFetched(u, primary, secondary, primary_reset, secondary_reset, free_plan) ==
    /\ usage[u].stage \in {"fetching", "refetching"}
    /\ LET a == usage[u].account
           status == ReconcileStatus(usage[u].seen, primary, secondary, free_plan)
       IN  Write(a, UpdateTelemetry(row[a], status, primary, secondary, primary_reset,
                                    secondary_reset))
    /\ usage' = [usage EXCEPT ![u] = NoUsageCall]
    /\ UNCHANGED <<refresh, pinning>>

(* The provider says the account is deactivated. *)
UsageSaysDeactivated(u) ==
    /\ usage[u].stage \in {"fetching", "refreshing", "refetching"}
    /\ LET a == usage[u].account
       IN  Write(a, UpdateTelemetry(row[a], "deactivated", "null", "null", "none", "none"))
    /\ usage' = [usage EXCEPT ![u] = NoUsageCall]
    /\ UNCHANGED <<refresh, pinning>>

UsageRefreshFailed(u) ==
    /\ usage[u].stage # "idle"
    /\ usage' = [usage EXCEPT ![u] = NoUsageCall]
    /\ UNCHANGED <<row, refresh, pinning>>

-----------------------------------------------------------------------------
(* Dashboard.  These handlers run on the event-loop thread, one at a time; *)
(* requests and refreshes run on the executor's workers meanwhile.         *)

Pause(a) ==
    /\ pinning = NoAccount
    /\ Write(a, UpdateStatus(row[a], "paused"))
    /\ UNCHANGED <<refresh, usage, pinning>>

Reactivate(a) ==
    /\ pinning = NoAccount
    /\ Write(a, UpdateStatus(row[a], "active"))
    /\ UNCHANGED <<refresh, usage, pinning>>

(* pin_account reads the row and goes on only if it is active ... *)
PinCheck(a) ==
    /\ pinning = NoAccount
    /\ row[a].status = "active"
    /\ pinning' = a
    /\ UNCHANGED <<row, refresh, usage>>

(* mutant: the other pins are not cleared *)
PinWrite_KeepsOthers ==
    /\ pinning # NoAccount
    /\ row' = [row EXCEPT ![pinning].pinned = TRUE]
    /\ pinning' = NoAccount
    /\ UNCHANGED <<refresh, usage>>

(* ... set_account_routing_pinned then clears every pin and sets this one, *)
(* in one transaction that does not look at the status again.              *)
PinWrite ==
    /\ pinning # NoAccount
    /\ row' = [a \in Accounts |-> [row[a] EXCEPT !.pinned = (a = pinning)]]
    /\ pinning' = NoAccount
    /\ UNCHANGED <<refresh, usage>>

Unpin(a) ==
    /\ pinning = NoAccount
    /\ Write(a, [row[a] EXCEPT !.pinned = FALSE])
    /\ UNCHANGED <<refresh, usage, pinning>>

-----------------------------------------------------------------------------
(* A window the usage endpoint reports: absent, or a percentage with or    *)
(* without a reset time.                                                   *)
Windows == {<<"null", "none">>} \union ({"low", "full"} \X {"none", "future"})

ProxyNext ==
    \/ \E a \in Accounts, status \in Limited : Exhausted(a, status)
    \/ \E a \in Accounts : Deactivated(a)
    \/ RecoverLimits
    \/ \E a \in Accounts : ResetPasses(a)

TokenNext ==
    \E t \in TokenRefreshers :
        \/ \E a \in Accounts : BeginTokenRefresh(t, a)
        \/ TokenRefreshed(t)
        \/ TokenRefreshFailed(t)

UsageNext ==
    \E u \in UsageRefreshers :
        \/ \E a \in Accounts : BeginUsageRefresh(u, a)
        \/ UsageNeedsToken(u)
        \/ UsageTokenRefreshed(u)
        \/ \E p, s \in Windows, free_plan \in BOOLEAN :
                UsageFetched(u, p[1], s[1], p[2], s[2], free_plan)
        \/ UsageSaysDeactivated(u)
        \/ UsageRefreshFailed(u)

PinNext ==
    \/ \E a \in Accounts : PinCheck(a) \/ Unpin(a)
    \/ PinWrite

AdminNext ==
    \/ \E a \in Accounts : Pause(a) \/ Reactivate(a)
    \/ PinNext

Next == ProxyNext \/ TokenNext \/ UsageNext \/ AdminNext

Spec == Init /\ [][Next]_vars

(* Requests and pins between two refreshes: the last usage refresh left    *)
(* every account active, with room, and with the reset times of its        *)
(* windows.                                                                *)
RoutingInit ==
    /\ row \in [Accounts ->
                 [status : {"active"}, primary : {"null", "low"}, secondary : {"null", "low"},
                  primary_reset : {"none", "future"}, secondary_reset : {"none", "future"},
                  pinned : {FALSE}]]
    /\ refresh = [t \in TokenRefreshers |-> NoCall]
    /\ usage = [u \in UsageRefreshers |-> NoUsageCall]
    /\ pinning = NoAccount

RoutingSpec == RoutingInit /\ [][ProxyNext \/ PinNext]_vars

-----------------------------------------------------------------------------
(* PROPERTIES *)

(* At most one account is pinned, whatever order pins, unpins, refreshes   *)
(* and exhaustion marks arrive in: set_account_routing_pinned clears and   *)
(* sets in one transaction, and no other writer raises a pin.              *)
OnlyOnePin ==
    \A a, b \in Accounts : row[a].pinned /\ row[b].pinned => a = b

(* A refresh in flight for a, of either kind, that read a row that was not *)
(* hard-blocked (the usage refresh reads it again before it refreshes the  *)
(* token).                                                                 *)
StaleReadOf(a) ==
    \/ \E t \in TokenRefreshers : refresh[t].account = a /\ refresh[t].seen = "active"
    \/ \E u \in UsageRefreshers :
          /\ usage[u].account = a
          /\ usage[u].seen \notin HardBlocked \/ usage[u].stage = "refreshing"

(* A paused or deactivated account comes back only by the dashboard's      *)
(* reactivate, or by a refresh that was already in flight when it was      *)
(* blocked: a refresh begun on a blocked account (the status filter of     *)
(* find_active_account_tokens, the early return of                         *)
(* reconcile_account_status_from_usage) never revives it, and neither does *)
(* a proxied request or the recovery of expired limits.                    *)
RevivalNeedsStaleRead ==
    [][\A a \in Accounts :
          row[a].status \in HardBlocked /\ row'[a].status \notin HardBlocked
          => Reactivate(a) \/ StaleReadOf(a)]_vars

(* Between usage refreshes an active account always has primary room:      *)
(* marking, re-marking and recovering (recover_expired_account_limit_      *)
(* blocks) in any order never leaves an account active with a full         *)
(* primary window.                                                         *)
ActiveHasPrimaryRoom ==
    \A a \in Accounts : row[a].status = "active" => row[a].primary # "full"
=============================================================================
