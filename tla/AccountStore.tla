---------------------------- MODULE AccountStore ----------------------------
(***************************************************************************)
(* The routing columns of one row of the accounts table and every SQL      *)
(* UPDATE the native runtime applies to them.                              *)
(*                                                                         *)
(* A quota percentage is kept as "null" (unknown), "low" (below 100) or    *)
(* "full" (100); a reset timestamp as "none" (NULL), "future" or "past"    *)
(* relative to the clock.  Nothing in the code tells more apart.           *)
(***************************************************************************)
EXTENDS Naturals

Limited == {"rate_limited", "quota_blocked"}
HardBlocked == {"paused", "deactivated"}
Statuses == {"active"} \union Limited \union HardBlocked
Percents == {"null", "low", "full"}
Resets == {"none", "future", "past"}

AccountRows ==
    [status : Statuses,
     primary : Percents, secondary : Percents,
     primary_reset : Resets, secondary_reset : Resets,
     pinned : BOOLEAN]

(* The WHERE clause shared by every credential query: only such a row can  *)
(* be routed to.                                                           *)
Usable(row) ==
    /\ row.status = "active"
    /\ row.primary # "full"
    /\ row.secondary # "full"

(* mark_upstream_account_exhausted: the UPDATE, then the separate unpin. *)
MarkExhausted(row, status) ==
    [row EXCEPT !.status = IF @ \in HardBlocked THEN @ ELSE status,
                !.primary = "full",
                !.secondary = IF status = "quota_blocked" THEN "full" ELSE @,
                !.pinned = FALSE]

(* mark_upstream_account_unusable *)
MarkUnusable(row) == [row EXCEPT !.status = "deactivated", !.pinned = FALSE]

(* recover_expired_account_limit_blocks: its WHERE clause and its SET list *)
LimitExpired(row) ==
    \/ row.status = "rate_limited" /\ row.primary_reset = "past"
    \/ /\ row.status = "quota_blocked"
       /\ \/ row.secondary_reset = "past"
          \/ row.secondary_reset = "none" /\ row.primary_reset = "past"

(* mutant: the primary window is cleared only by its own reset *)
RecoverExpired_OwnResetOnly(row) ==
    IF ~LimitExpired(row) THEN row
    ELSE [row EXCEPT
            !.status = "active",
            !.primary = IF row.primary_reset = "past" THEN "null" ELSE @,
            !.secondary = IF row.secondary_reset = "past" THEN "null" ELSE @]

RecoverExpired(row) ==
    IF ~LimitExpired(row) THEN row
    ELSE [row EXCEPT
            !.status = "active",
            !.primary =
                IF \/ row.primary_reset = "past"
                   \/ row.status = "quota_blocked" /\ row.secondary_reset = "past"
                THEN "null" ELSE @,
            !.secondary =
                IF \/ row.secondary_reset = "past"
                   \/ /\ row.status = "quota_blocked"
                      /\ row.secondary_reset = "none" /\ row.primary_reset = "past"
                THEN "null" ELSE @]

(* update_account_status: pause and reactivate from the dashboard *)
UpdateStatus(row, status) ==
    [row EXCEPT !.status = status,
                !.pinned = IF status = "active" THEN @ ELSE FALSE]

(* mutant: a refreshed token wipes the quota state as well *)
UpdateTokens_ClearsQuota(row) ==
    [row EXCEPT !.status = "active", !.primary = "null", !.secondary = "null"]

(* update_account_tokens: a refreshed token also sets status = 'active' *)
UpdateTokens(row) == [row EXCEPT !.status = "active"]

(* reconcile_account_status_from_usage, for the status read before the     *)
(* usage was fetched and the percentages fetched.                          *)
ReconcileStatus(status, primary, secondary, free_plan) ==
    LET weekly == IF primary # "null" THEN primary ELSE secondary
        afterSecondary ==
            IF secondary # "null" /\ status = "quota_blocked" THEN "active" ELSE status
    IN  CASE status \in HardBlocked -> status
          [] free_plan /\ status \notin HardBlocked ->
                CASE weekly = "full" -> "quota_blocked"
                  [] weekly = "low" -> "active"
                  [] OTHER -> status
          [] ~free_plan /\ status \notin HardBlocked ->
                CASE secondary = "full" -> "quota_blocked"
                  [] secondary # "full" /\ primary = "full" -> "rate_limited"
                  [] OTHER -> IF primary = "low" /\ afterSecondary = "rate_limited"
                              THEN "active" ELSE afterSecondary

(* update_account_usage_telemetry *)
UpdateTelemetry(row, status, primary, secondary, primary_reset, secondary_reset) ==
    [status |-> status,
     primary |-> primary, secondary |-> secondary,
     primary_reset |-> primary_reset, secondary_reset |-> secondary_reset,
     pinned |-> row.pinned /\ status = "active"]
=============================================================================
