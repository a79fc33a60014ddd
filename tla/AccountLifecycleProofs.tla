----------------------- MODULE AccountLifecycleProofs -----------------------
(***************************************************************************)
(* Proofs about AccountLifecycle, for any number of accounts and of        *)
(* concurrent refreshes.                                                   *)
(***************************************************************************)
EXTENDS AccountLifecycle, TLAPS

-----------------------------------------------------------------------------
(* The row operators of AccountStore map rows to rows and never raise a    *)
(* pin.                                                                    *)

\* A request that met a limit unpins the account and leaves it limited, or
\* blocked as it was.
LEMMA MarkExhaustedType ==
    ASSUME NEW r \in AccountRows, NEW status \in Limited
    PROVE  /\ MarkExhausted(r, status) \in AccountRows
           /\ ~MarkExhausted(r, status).pinned
           /\ r.status \in HardBlocked => MarkExhausted(r, status).status = r.status
           /\ MarkExhausted(r, status).status # "active"
  BY DEF AccountRows, MarkExhausted, Statuses, Limited, HardBlocked, Percents, Resets

\* A refused account is unpinned and deactivated.
LEMMA MarkUnusableType ==
    ASSUME NEW r \in AccountRows
    PROVE  /\ MarkUnusable(r) \in AccountRows
           /\ ~MarkUnusable(r).pinned
           /\ MarkUnusable(r).status = "deactivated"
  BY DEF AccountRows, MarkUnusable, Statuses, Limited, HardBlocked, Percents, Resets

\* Recovery touches neither pins nor blocked accounts, and what it recovers has
\* room in its primary window.
LEMMA RecoverExpiredType ==
    ASSUME NEW r \in AccountRows
    PROVE  /\ RecoverExpired(r) \in AccountRows
           /\ RecoverExpired(r).pinned = r.pinned
           /\ r.status \in HardBlocked => RecoverExpired(r) = r
           /\ RecoverExpired(r) # r => RecoverExpired(r).primary # "full"
  BY ZenonT(60) DEF AccountRows, RecoverExpired, LimitExpired, Statuses, Limited, HardBlocked,
         Percents, Resets

\* The operator's status is the one stored, and no pin appears with it.
LEMMA UpdateStatusType ==
    ASSUME NEW r \in AccountRows, NEW status \in Statuses
    PROVE  /\ UpdateStatus(r, status) \in AccountRows
           /\ UpdateStatus(r, status).pinned => r.pinned
           /\ UpdateStatus(r, status).status = status
  BY DEF AccountRows, UpdateStatus, Statuses, Limited, HardBlocked, Percents, Resets

\* New tokens change nothing that routing reads but the tokens.
LEMMA UpdateTokensType ==
    ASSUME NEW r \in AccountRows
    PROVE  UpdateTokens(r) \in AccountRows /\ UpdateTokens(r).pinned = r.pinned
  BY DEF AccountRows, UpdateTokens, Statuses, Limited, HardBlocked, Percents, Resets

\* A status computed from usage is a status, and a blocked one stays.
LEMMA ReconcileStatusType ==
    ASSUME NEW status \in Statuses, NEW primary \in Percents, NEW secondary \in Percents,
           NEW free_plan \in BOOLEAN
    PROVE  /\ ReconcileStatus(status, primary, secondary, free_plan) \in Statuses
           /\ status \in HardBlocked =>
                ReconcileStatus(status, primary, secondary, free_plan) = status
  BY DEF ReconcileStatus, Statuses, Limited, HardBlocked, Percents

\* A usage answer stores the status it was given, and no pin appears with it.
LEMMA UpdateTelemetryType ==
    ASSUME NEW r \in AccountRows, NEW status \in Statuses,
           NEW p \in Percents, NEW s \in Percents, NEW pr \in Resets, NEW sr \in Resets
    PROVE  /\ UpdateTelemetry(r, status, p, s, pr, sr) \in AccountRows
           /\ UpdateTelemetry(r, status, p, s, pr, sr).pinned => r.pinned
           /\ UpdateTelemetry(r, status, p, s, pr, sr).status = status
  BY DEF AccountRows, UpdateTelemetry

-----------------------------------------------------------------------------
(* What an action may do to the table: write one row, or recover limits.   *)

\* A write replaces one row and leaves the others.
LEMMA WriteType ==
    ASSUME row \in [Accounts -> AccountRows], NEW a \in Accounts, NEW r \in AccountRows,
           Write(a, r)
    PROVE  /\ row' \in [Accounts -> AccountRows]
           /\ row'[a] = r
           /\ \A b \in Accounts \ {a} : row'[b] = row[b]
  BY DEF Write

-----------------------------------------------------------------------------
(* Every call in flight works on an account of the table, so each of its   *)
(* writes is a write of one row.                                           *)

\* The account and the status a call has read are ones of the table.
LEMMA InFlightCall ==
    ASSUME TypeOK
    PROVE  /\ \A t \in TokenRefreshers :
                refresh[t] # NoCall =>
                  refresh[t].account \in Accounts /\ refresh[t].seen \in Statuses
           /\ \A u \in UsageRefreshers :
                usage[u].stage # "idle" =>
                  usage[u].account \in Accounts /\ usage[u].seen \in Statuses
  BY DEF TypeOK, Calls, UsageCalls, NoUsageCall

\* What the usage service reports of a window is a percentage and a reset.
LEMMA WindowTypes ==
    \A w \in Windows : w[1] \in Percents /\ w[2] \in Resets
  BY DEF Windows, Percents, Resets

(* The shape of a step: one row is overwritten by a row that is not newly  *)
(* pinned, or limits are recovered, or a pin is moved, or no row changes.  *)
OneRowWrite ==
    \E a \in Accounts, r \in AccountRows : Write(a, r) /\ (r.pinned => row[a].pinned)

RowStep ==
    \/ OneRowWrite
    \/ row' = [a \in Accounts |-> RecoverExpired(row[a])]
    \/ \E p \in Accounts : row' = [a \in Accounts |-> [row[a] EXCEPT !.pinned = (a = p)]]
    \/ row' = row

\* Every step has that shape, and keeps the types of the calls in flight.
LEMMA StepShape ==
    ASSUME TypeOK, [Next]_vars
    PROVE  RowStep /\ refresh' \in [TokenRefreshers -> Calls]
                   /\ usage' \in [UsageRefreshers -> UsageCalls]
                   /\ pinning' \in Accounts \union {NoAccount}
  <1> USE DEF TypeOK, RowStep, OneRowWrite
  <1>r. \A a \in Accounts : row[a] \in AccountRows
    OBVIOUS
  <1>s. "active" \in Statuses /\ "paused" \in Statuses /\ "deactivated" \in Statuses
    BY DEF Statuses, HardBlocked
  <1>1. ASSUME NEW a \in Accounts, NEW status \in Limited, Exhausted(a, status)
        PROVE  RowStep /\ UNCHANGED <<refresh, usage, pinning>>
    BY <1>1, <1>r, MarkExhaustedType DEF Exhausted
  <1>2. ASSUME NEW a \in Accounts, Deactivated(a)
        PROVE  RowStep /\ UNCHANGED <<refresh, usage, pinning>>
    BY <1>2, <1>r, MarkUnusableType DEF Deactivated
  <1>3. CASE RecoverLimits
    BY <1>3 DEF RecoverLimits
  <1>4. ASSUME NEW a \in Accounts, ResetPasses(a)
        PROVE  RowStep /\ UNCHANGED <<refresh, usage, pinning>>
    <2>1. /\ [row[a] EXCEPT !.primary_reset = "past"] \in AccountRows
          /\ [row[a] EXCEPT !.primary_reset = "past"].pinned = row[a].pinned
          /\ [row[a] EXCEPT !.secondary_reset = "past"] \in AccountRows
          /\ [row[a] EXCEPT !.secondary_reset = "past"].pinned = row[a].pinned
      BY <1>r DEF AccountRows, Resets
    <2> QED  BY <1>4, <2>1 DEF ResetPasses
  <1>5. ASSUME NEW t \in TokenRefreshers, NEW a \in Accounts, BeginTokenRefresh(t, a)
        PROVE  row' = row /\ refresh' \in [TokenRefreshers -> Calls]
               /\ UNCHANGED <<usage, pinning>>
    BY <1>5, <1>s DEF BeginTokenRefresh, Calls
  <1>6. ASSUME NEW t \in TokenRefreshers, TokenRefreshed(t)
        PROVE  RowStep /\ refresh' \in [TokenRefreshers -> Calls]
               /\ UNCHANGED <<usage, pinning>>
    <2>1. refresh[t].account \in Accounts
      BY <1>6, InFlightCall DEF TokenRefreshed
    <2>2. OneRowWrite
      BY <1>6, <1>r, <2>1, UpdateTokensType DEF TokenRefreshed
    <2>3. refresh' \in [TokenRefreshers -> Calls]
      BY <1>6 DEF TokenRefreshed, Calls
    <2> QED  BY <1>6, <2>2, <2>3 DEF TokenRefreshed
  <1>7. ASSUME NEW t \in TokenRefreshers, TokenRefreshFailed(t)
        PROVE  row' = row /\ refresh' \in [TokenRefreshers -> Calls]
               /\ UNCHANGED <<usage, pinning>>
    BY <1>7 DEF TokenRefreshFailed, Calls
  <1>8. ASSUME NEW u \in UsageRefreshers, NEW a \in Accounts, BeginUsageRefresh(u, a)
        PROVE  row' = row /\ usage' \in [UsageRefreshers -> UsageCalls]
               /\ UNCHANGED <<refresh, pinning>>
    <2>1. row[a].status \in Statuses
      BY <1>r DEF AccountRows
    <2> QED  BY <1>8, <2>1 DEF BeginUsageRefresh, UsageCalls
  <1>9. ASSUME NEW u \in UsageRefreshers, UsageNeedsToken(u)
        PROVE  row' = row /\ usage' \in [UsageRefreshers -> UsageCalls]
               /\ UNCHANGED <<refresh, pinning>>
    BY <1>9 DEF UsageNeedsToken, UsageCalls, NoUsageCall
  <1>10. ASSUME NEW u \in UsageRefreshers, UsageTokenRefreshed(u)
         PROVE  RowStep /\ usage' \in [UsageRefreshers -> UsageCalls]
                /\ UNCHANGED <<refresh, pinning>>
    <2>1. usage[u].account \in Accounts
      BY <1>10, InFlightCall DEF UsageTokenRefreshed
    <2>2. OneRowWrite
      BY <1>10, <1>r, <2>1, UpdateTokensType DEF UsageTokenRefreshed
    <2>3. usage' \in [UsageRefreshers -> UsageCalls]
      BY <1>10 DEF UsageTokenRefreshed, UsageCalls, NoUsageCall
    <2> QED  BY <1>10, <2>2, <2>3 DEF UsageTokenRefreshed
  <1>11. ASSUME NEW u \in UsageRefreshers, NEW p \in Windows, NEW w \in Windows,
                NEW free_plan \in BOOLEAN,
                UsageFetched(u, p[1], w[1], p[2], w[2], free_plan)
         PROVE  RowStep /\ usage' \in [UsageRefreshers -> UsageCalls]
                /\ UNCHANGED <<refresh, pinning>>
    <2> DEFINE a == usage[u].account
               st == ReconcileStatus(usage[u].seen, p[1], w[1], free_plan)
               new == UpdateTelemetry(row[a], st, p[1], w[1], p[2], w[2])
    <2>1. a \in Accounts /\ usage[u].seen \in Statuses
      BY <1>11, InFlightCall DEF UsageFetched
    <2>2. p[1] \in Percents /\ w[1] \in Percents /\ p[2] \in Resets /\ w[2] \in Resets
      BY WindowTypes
    <2>3. st \in Statuses
      BY <2>1, <2>2, ReconcileStatusType
    <2>4. new \in AccountRows /\ (new.pinned => row[a].pinned)
      BY <1>r, <2>1, <2>2, <2>3, UpdateTelemetryType
    <2>5. Write(a, new) /\ usage' = [usage EXCEPT ![u] = NoUsageCall]
          /\ UNCHANGED <<refresh, pinning>>
      BY <1>11 DEF UsageFetched
    <2>6. usage' \in [UsageRefreshers -> UsageCalls]
      BY <2>5 DEF UsageCalls
    <2> HIDE DEF new, a
    <2> QED  BY <2>1, <2>4, <2>5, <2>6
  <1>12. ASSUME NEW u \in UsageRefreshers, UsageSaysDeactivated(u)
         PROVE  RowStep /\ usage' \in [UsageRefreshers -> UsageCalls]
                /\ UNCHANGED <<refresh, pinning>>
    <2> DEFINE a == usage[u].account
               new == UpdateTelemetry(row[a], "deactivated", "null", "null", "none", "none")
    <2>1. a \in Accounts
      BY <1>12, InFlightCall DEF UsageSaysDeactivated
    <2>2. "null" \in Percents /\ "none" \in Resets
      BY DEF Percents, Resets
    <2>3. new \in AccountRows /\ (new.pinned => row[a].pinned)
      BY <1>r, <1>s, <2>1, <2>2, UpdateTelemetryType
    <2>4. Write(a, new) /\ usage' = [usage EXCEPT ![u] = NoUsageCall]
          /\ UNCHANGED <<refresh, pinning>>
      BY <1>12 DEF UsageSaysDeactivated
    <2>5. usage' \in [UsageRefreshers -> UsageCalls]
      BY <2>4 DEF UsageCalls
    <2> HIDE DEF new, a
    <2> QED  BY <2>1, <2>3, <2>4, <2>5
  <1>13. ASSUME NEW u \in UsageRefreshers, UsageRefreshFailed(u)
         PROVE  row' = row /\ usage' \in [UsageRefreshers -> UsageCalls]
                /\ UNCHANGED <<refresh, pinning>>
    BY <1>13 DEF UsageRefreshFailed, UsageCalls
  <1>14. ASSUME NEW a \in Accounts, Pause(a) \/ Reactivate(a)
         PROVE  RowStep /\ UNCHANGED <<refresh, usage, pinning>>
    BY <1>14, <1>r, <1>s, UpdateStatusType DEF Pause, Reactivate
  <1>15. ASSUME NEW a \in Accounts, PinCheck(a)
         PROVE  row' = row /\ UNCHANGED <<refresh, usage>> /\ pinning' \in Accounts
    BY <1>15 DEF PinCheck
  <1>16. CASE PinWrite
    BY <1>16 DEF PinWrite
  <1>17. ASSUME NEW a \in Accounts, Unpin(a)
         PROVE  RowStep /\ UNCHANGED <<refresh, usage, pinning>>
    <2>1. /\ [row[a] EXCEPT !.pinned = FALSE] \in AccountRows
          /\ ~[row[a] EXCEPT !.pinned = FALSE].pinned
      BY <1>r DEF AccountRows
    <2> QED  BY <1>17, <2>1 DEF Unpin
  <1>18. CASE UNCHANGED vars
    BY <1>18 DEF vars
  <1>19. CASE ProxyNext
    BY <1>19, <1>1, <1>2, <1>3, <1>4 DEF ProxyNext
  <1>20. CASE TokenNext
    BY <1>20, <1>5, <1>6, <1>7 DEF TokenNext
  <1>21. CASE UsageNext
    BY <1>21, <1>8, <1>9, <1>10, <1>11, <1>12, <1>13 DEF UsageNext
  <1>22. CASE AdminNext
    BY <1>22, <1>14, <1>15, <1>16, <1>17 DEF AdminNext, PinNext
  <1> QED  BY <1>18, <1>19, <1>20, <1>21, <1>22 DEF Next

-----------------------------------------------------------------------------
(* Every writer of the accounts table keeps it well formed: no status      *)
(* outside the five the code knows, no call in flight without an account.  *)
THEOREM TypeCorrect == Spec => []TypeOK
  <1>1. Init => TypeOK
    BY DEF Init, TypeOK, AccountRows, Calls, UsageCalls, Statuses, Percents, Resets
  <1>2. TypeOK /\ [Next]_vars => TypeOK'
    <2> SUFFICES ASSUME TypeOK, [Next]_vars PROVE TypeOK'
      OBVIOUS
    <2>1. RowStep
      BY StepShape
    <2>2. row \in [Accounts -> AccountRows]
      BY DEF TypeOK
    <2>3. row' \in [Accounts -> AccountRows]
      <3>1. CASE OneRowWrite
        BY <2>2, <3>1 DEF OneRowWrite, Write
      <3>2. CASE row' = [a \in Accounts |-> RecoverExpired(row[a])]
        BY <2>2, <3>2, RecoverExpiredType
      <3>3. CASE \E p \in Accounts :
                   row' = [a \in Accounts |-> [row[a] EXCEPT !.pinned = (a = p)]]
        <4>1. \A r \in AccountRows, b \in BOOLEAN : [r EXCEPT !.pinned = b] \in AccountRows
          BY DEF AccountRows
        <4> QED  BY <2>2, <3>3, <4>1
      <3> QED  BY <2>1, <2>2, <3>1, <3>2, <3>3 DEF RowStep
    <2> QED  BY <2>3, StepShape DEF TypeOK
  <1> QED  BY <1>1, <1>2, PTL DEF Spec

(* However pins, unpins, refreshes and marks interleave, two accounts are  *)
(* never pinned at once: set_account_routing_pinned is the only writer     *)
(* that raises a pin, and it lowers every other one in the same            *)
(* transaction.                                                            *)
THEOREM SinglePin == Spec => []OnlyOnePin
  <1>1. Init => OnlyOnePin
    BY DEF Init, OnlyOnePin
  <1>2. TypeOK /\ OnlyOnePin /\ [Next]_vars => OnlyOnePin'
    <2> SUFFICES ASSUME TypeOK, OnlyOnePin, [Next]_vars PROVE OnlyOnePin'
      OBVIOUS
    <2>1. RowStep
      BY StepShape
    <2>2. row \in [Accounts -> AccountRows]
      BY DEF TypeOK
    <2>3. CASE OneRowWrite
      <3>1. \A a \in Accounts : row'[a].pinned => row[a].pinned
        BY <2>2, <2>3 DEF OneRowWrite, Write
      <3> QED  BY <3>1 DEF OnlyOnePin
    <2>4. CASE row' = [a \in Accounts |-> RecoverExpired(row[a])]
      <3>1. \A a \in Accounts : row'[a].pinned = row[a].pinned
        BY <2>2, <2>4, RecoverExpiredType
      <3> QED  BY <3>1 DEF OnlyOnePin
    <2>5. CASE \E p \in Accounts :
                 row' = [a \in Accounts |-> [row[a] EXCEPT !.pinned = (a = p)]]
      <3>1. PICK p \in Accounts :
              row' = [a \in Accounts |-> [row[a] EXCEPT !.pinned = (a = p)]]
        BY <2>5
      <3>2. \A r \in AccountRows, b \in BOOLEAN : [r EXCEPT !.pinned = b].pinned = b
        BY DEF AccountRows
      <3>3. \A a \in Accounts : row'[a].pinned = (a = p)
        BY <2>2, <3>1, <3>2
      <3> QED  BY <3>3 DEF OnlyOnePin
    <2> QED  BY <2>1, <2>3, <2>4, <2>5 DEF RowStep, OnlyOnePin
  <1> QED  BY <1>1, <1>2, TypeCorrect, PTL DEF Spec

-----------------------------------------------------------------------------
(* The strengthening the revival property rests on: a token refresh in     *)
(* flight read the row while it was active.                                *)
RefreshSawActive ==
    \A t \in TokenRefreshers : refresh[t].seen = "active"

\* Token refreshes are begun for active accounts only.
LEMMA RefreshesSawActive == Spec => []RefreshSawActive
  <1>1. Init => RefreshSawActive
    BY DEF Init, RefreshSawActive, NoCall
  <1>2. TypeOK /\ RefreshSawActive /\ [Next]_vars => RefreshSawActive'
    <2> SUFFICES ASSUME TypeOK, RefreshSawActive, [Next]_vars PROVE RefreshSawActive'
      OBVIOUS
    <2>1. ASSUME NEW t \in TokenRefreshers, NEW a \in Accounts, BeginTokenRefresh(t, a)
          PROVE  RefreshSawActive'
      BY <2>1 DEF BeginTokenRefresh, RefreshSawActive, TypeOK
    <2>2. ASSUME NEW t \in TokenRefreshers, TokenRefreshed(t) \/ TokenRefreshFailed(t)
          PROVE  RefreshSawActive'
      BY <2>2 DEF TokenRefreshed, TokenRefreshFailed, RefreshSawActive, NoCall, TypeOK
    <2>3. CASE TokenNext
      BY <2>1, <2>2, <2>3 DEF TokenNext
    <2>4. CASE ProxyNext
      BY <2>4 DEF ProxyNext, Exhausted, Deactivated, RecoverLimits, ResetPasses,
                  RefreshSawActive
    <2>5. CASE UsageNext
      BY <2>5 DEF UsageNext, BeginUsageRefresh, UsageNeedsToken, UsageTokenRefreshed,
                  UsageFetched, UsageSaysDeactivated, UsageRefreshFailed, RefreshSawActive
    <2>6. CASE AdminNext
      BY <2>6 DEF AdminNext, PinNext, Pause, Reactivate, PinCheck, PinWrite, Unpin, RefreshSawActive
    <2>7. CASE UNCHANGED vars
      BY <2>7 DEF vars, RefreshSawActive
    <2> QED  BY <2>3, <2>4, <2>5, <2>6, <2>7 DEF Next
  <1> QED  BY <1>1, <1>2, TypeCorrect, PTL DEF Spec

(* A row that was hard-blocked and is not any more. *)
Revived(a) == row[a].status \in HardBlocked /\ row'[a].status \notin HardBlocked

\* A write that keeps a blocked account blocked revives nobody.
LEMMA WriteRevives ==
    ASSUME TypeOK, NEW a \in Accounts, NEW r \in AccountRows, Write(a, r),
           row[a].status \in HardBlocked => r.status \in HardBlocked
    PROVE  \A b \in Accounts : ~Revived(b)
  BY DEF TypeOK, Write, Revived

(* A paused or deactivated account is revived only by the operator or by a *)
(* refresh that was in flight when it was blocked, for any number of       *)
(* accounts and refreshes.                                                 *)
THEOREM RevivalIsStale == Spec => RevivalNeedsStaleRead
  <1> DEFINE A == \A a \in Accounts : Revived(a) => Reactivate(a) \/ StaleReadOf(a)
  <1>1. TypeOK /\ RefreshSawActive /\ [Next]_vars => [A]_vars
    <2> SUFFICES ASSUME TypeOK, RefreshSawActive, Next PROVE A
      OBVIOUS
    <2>r. /\ \A a \in Accounts : row[a] \in AccountRows
          /\ row \in [Accounts -> AccountRows]
      BY DEF TypeOK
    <2>1. ASSUME NEW a \in Accounts, NEW status \in Limited, Exhausted(a, status) PROVE A
      BY <2>1, <2>r, MarkExhaustedType, WriteRevives DEF Exhausted
    <2>2. ASSUME NEW a \in Accounts, Deactivated(a) PROVE A
      <3>1. MarkUnusable(row[a]).status \in HardBlocked
        BY <2>r, MarkUnusableType DEF HardBlocked
      <3> QED  BY <2>2, <2>r, <3>1, MarkUnusableType, WriteRevives DEF Deactivated
    <2>3. CASE RecoverLimits
      <3>1. \A a \in Accounts : ~Revived(a)
        BY <2>3, <2>r, RecoverExpiredType DEF RecoverLimits, Revived
      <3> QED  BY <3>1
    <2>4. ASSUME NEW a \in Accounts, ResetPasses(a) PROVE A
      <3>1. \A b \in Accounts : ~Revived(b)
        BY <2>4, <2>r DEF ResetPasses, Write, Revived, AccountRows
      <3> QED  BY <3>1
    <2>5. ASSUME NEW t \in TokenRefreshers, TokenRefreshed(t) PROVE A
      <3>1. refresh[t].account \in Accounts /\ refresh[t].seen = "active"
        BY <2>5, InFlightCall DEF TokenRefreshed, RefreshSawActive
      <3>2. StaleReadOf(refresh[t].account)
        BY <3>1 DEF StaleReadOf
      <3>3. \A b \in Accounts : Revived(b) => b = refresh[t].account
        BY <2>5, <2>r, <3>1 DEF TokenRefreshed, Write, Revived
      <3> QED  BY <3>2, <3>3
    <2>6. ASSUME NEW u \in UsageRefreshers, UsageTokenRefreshed(u) PROVE A
      <3>1. usage[u].account \in Accounts
        BY <2>6, InFlightCall DEF UsageTokenRefreshed
      <3>2. StaleReadOf(usage[u].account)
        BY <2>6 DEF UsageTokenRefreshed, StaleReadOf
      <3>3. \A b \in Accounts : Revived(b) => b = usage[u].account
        BY <2>6, <2>r, <3>1 DEF UsageTokenRefreshed, Write, Revived
      <3> QED  BY <3>2, <3>3
    <2>7. ASSUME NEW u \in UsageRefreshers, NEW p \in Windows, NEW w \in Windows,
                 NEW free_plan \in BOOLEAN,
                 UsageFetched(u, p[1], w[1], p[2], w[2], free_plan)
          PROVE  A
      <3> DEFINE c == usage[u].account
                 st == ReconcileStatus(usage[u].seen, p[1], w[1], free_plan)
                 new == UpdateTelemetry(row[c], st, p[1], w[1], p[2], w[2])
      <3>1. c \in Accounts /\ usage[u].seen \in Statuses
        BY <2>7, InFlightCall DEF UsageFetched
      <3>2. /\ p[1] \in Percents /\ w[1] \in Percents
            /\ p[2] \in Resets /\ w[2] \in Resets
        BY WindowTypes
      <3>3. st \in Statuses /\ (usage[u].seen \in HardBlocked => st = usage[u].seen)
        BY <3>1, <3>2, ReconcileStatusType
      <3>4. new \in AccountRows /\ new.status = st
        BY <2>r, <3>1, <3>2, <3>3, UpdateTelemetryType
      <3>5. Write(c, new)
        BY <2>7 DEF UsageFetched
      <3>6. CASE usage[u].seen \in HardBlocked
        <4> HIDE DEF new, st
        <4>1. \A b \in Accounts : ~Revived(b)
          BY <3>1, <3>3, <3>4, <3>5, <3>6, WriteRevives
        <4> QED  BY <4>1
      <3>7. CASE usage[u].seen \notin HardBlocked
        <4>1. StaleReadOf(c)
          BY <3>1, <3>7 DEF StaleReadOf
        <4>2. \A b \in Accounts : Revived(b) => b = c
          <5> HIDE DEF new
          <5> QED  BY <2>r, <3>1, <3>5 DEF Write, Revived
        <4> QED  BY <4>1, <4>2
      <3> QED  BY <3>6, <3>7
    <2>8. ASSUME NEW u \in UsageRefreshers, UsageSaysDeactivated(u) PROVE A
      <3> DEFINE c == usage[u].account
                 new == UpdateTelemetry(row[c], "deactivated", "null", "null", "none", "none")
      <3>1. c \in Accounts
        BY <2>8, InFlightCall DEF UsageSaysDeactivated
      <3>2. "null" \in Percents /\ "none" \in Resets /\ "deactivated" \in Statuses
        BY DEF Percents, Resets, Statuses, HardBlocked
      <3>3. new \in AccountRows /\ new.status = "deactivated"
        BY <2>r, <3>1, <3>2, UpdateTelemetryType
      <3>4. Write(c, new)
        BY <2>8 DEF UsageSaysDeactivated
      <3> HIDE DEF new
      <3> QED  BY <3>1, <3>3, <3>4, WriteRevives DEF HardBlocked
    <2>9. ASSUME NEW a \in Accounts, Pause(a) PROVE A
      <3>1. "paused" \in Statuses /\ "paused" \in HardBlocked
        BY DEF Statuses, HardBlocked
      <3> QED  BY <2>9, <2>r, <3>1, UpdateStatusType, WriteRevives DEF Pause
    <2>10. ASSUME NEW a \in Accounts, Reactivate(a) PROVE A
      <3>1. \A b \in Accounts : Revived(b) => b = a
        BY <2>10, <2>r DEF Reactivate, Write, Revived
      <3> QED  BY <2>10, <3>1
    <2>11. CASE PinWrite
      <3>1. \A r \in AccountRows, b \in BOOLEAN : [r EXCEPT !.pinned = b].status = r.status
        BY DEF AccountRows
      <3>2. \A a \in Accounts : ~Revived(a)
        BY <2>11, <2>r, <3>1 DEF PinWrite, Revived
      <3> QED  BY <3>2
    <2>12. ASSUME NEW a \in Accounts, Unpin(a) PROVE A
      <3>1. \A b \in Accounts : ~Revived(b)
        BY <2>12, <2>r DEF Unpin, Write, Revived, AccountRows
      <3> QED  BY <3>1
    <2>13. ASSUME row' = row PROVE A
      BY <2>13 DEF Revived
    <2>14. CASE ProxyNext
      BY <2>14, <2>1, <2>2, <2>3, <2>4 DEF ProxyNext
    <2>15. CASE TokenNext
      BY <2>15, <2>5, <2>13 DEF TokenNext, BeginTokenRefresh, TokenRefreshFailed
    <2>16. CASE UsageNext
      BY <2>16, <2>6, <2>7, <2>8, <2>13
         DEF UsageNext, BeginUsageRefresh, UsageNeedsToken, UsageRefreshFailed
    <2>17. CASE AdminNext
      BY <2>17, <2>9, <2>10, <2>11, <2>12, <2>13 DEF AdminNext, PinNext, PinCheck
    <2> QED  BY <2>14, <2>15, <2>16, <2>17 DEF Next
  <1>2. [A]_vars <=>
        [\A a \in Accounts :
           row[a].status \in HardBlocked /\ row'[a].status \notin HardBlocked
           => Reactivate(a) \/ StaleReadOf(a)]_vars
    BY DEF Revived
  <1> HIDE DEF A
  <1> QED  BY <1>1, <1>2, TypeCorrect, RefreshesSawActive, PTL
           DEF Spec, RevivalNeedsStaleRead

-----------------------------------------------------------------------------
(* Between usage refreshes no sequence of exhaustion marks, deactivations, *)
(* passing resets and recoveries leaves an account active with a full      *)
(* primary window, for any number of accounts.                             *)
THEOREM RoutingKeepsPrimaryRoom == RoutingSpec => []ActiveHasPrimaryRoom
  <1> DEFINE Inv == row \in [Accounts -> AccountRows] /\ ActiveHasPrimaryRoom
  <1>1. RoutingInit => Inv
    BY DEF RoutingInit, ActiveHasPrimaryRoom, AccountRows, Statuses, Percents, Resets
  <1>2. Inv /\ [ProxyNext \/ PinNext]_vars => Inv'
    <2> SUFFICES ASSUME Inv, [ProxyNext \/ PinNext]_vars PROVE Inv'
      OBVIOUS
    <2>r. \A a \in Accounts : row[a] \in AccountRows
      OBVIOUS
    <2>1. ASSUME NEW a \in Accounts, NEW status \in Limited, Exhausted(a, status) PROVE Inv'
      BY <2>1, <2>r, MarkExhaustedType DEF Exhausted, Write, ActiveHasPrimaryRoom
    <2>2. ASSUME NEW a \in Accounts, Deactivated(a) PROVE Inv'
      BY <2>2, <2>r, MarkUnusableType DEF Deactivated, Write, ActiveHasPrimaryRoom
    <2>3. CASE RecoverLimits
      BY <2>3, <2>r, RecoverExpiredType DEF RecoverLimits, ActiveHasPrimaryRoom
    <2>4. ASSUME NEW a \in Accounts, ResetPasses(a) PROVE Inv'
      BY <2>4, <2>r DEF ResetPasses, Write, ActiveHasPrimaryRoom, AccountRows, Resets
    <2>5. CASE UNCHANGED vars
      BY <2>5 DEF vars, ActiveHasPrimaryRoom
    <2>6. ASSUME NEW a \in Accounts, PinCheck(a) PROVE Inv'
      BY <2>6 DEF PinCheck, ActiveHasPrimaryRoom
    <2>7. ASSUME NEW a \in Accounts, Unpin(a) PROVE Inv'
      <3>1. [row[a] EXCEPT !.pinned = FALSE] \in AccountRows
        BY <2>r DEF AccountRows
      <3>2. /\ [row[a] EXCEPT !.pinned = FALSE].status = row[a].status
            /\ [row[a] EXCEPT !.pinned = FALSE].primary = row[a].primary
        BY <2>r DEF AccountRows
      <3> QED  BY <2>7, <3>1, <3>2 DEF Unpin, Write, ActiveHasPrimaryRoom
    <2>8. CASE PinWrite
      BY <2>8, <2>r DEF PinWrite, ActiveHasPrimaryRoom, AccountRows
    <2> QED  BY <2>1, <2>2, <2>3, <2>4, <2>5, <2>6, <2>7, <2>8 DEF ProxyNext, PinNext
  <1> QED  BY <1>1, <1>2, PTL DEF RoutingSpec
=============================================================================
