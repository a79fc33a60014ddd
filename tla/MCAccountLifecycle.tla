------------------------- MODULE MCAccountLifecycle -------------------------
(* Small instances of AccountLifecycle for TLC. *)
EXTENDS AccountLifecycle, TLC

CONSTANTS a1, a2, t1, u1

OneAccount == {a1}
TwoAccounts == {a1, a2}
OneTokenRefresher == {t1}
OneUsageRefresher == {u1}
None == {}
=============================================================================
