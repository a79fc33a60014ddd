-------------------------- MODULE MCProxyResponses --------------------------
(* Small instances of ProxyResponses for TLC. *)
EXTENDS ProxyResponses, TLC

CONSTANTS a1, a2, k1, r1, r2

TwoAccounts == {a1, a2}
OneKey == {k1}
OneRequest == {r1}
TwoRequests == {r1, r2}

NoPool == {}
PoolOfOneRow == {a1, UnknownAccount}

(* Without a lock pool neither the accounts nor the requests differ. *)
Symmetric == Permutations(TwoAccounts) \union Permutations(TwoRequests)

Row(primary_reset, secondary_reset, pinned) ==
    [status |-> "active", primary |-> "low", secondary |-> "null",
     primary_reset |-> primary_reset, secondary_reset |-> secondary_reset, pinned |-> pinned]

FreshRows == {Row("none", "none", FALSE)}
TimedRows == {Row("future", "none", FALSE), Row("past", "none", FALSE)}
PinnedOrTimedRows == {Row("future", "none", FALSE), Row("none", "none", TRUE)}

(* Continuations of one session on either route, with and without tool     *)
(* output, of any response there is.                                       *)
Continuations ==
    [route : Routes, key : OneKey, prev : Ids, fco : BOOLEAN, header : {NoAccount}]

(* Requests of one session that start a conversation, with and without the *)
(* header that names an account.                                           *)
Openings ==
    [route : {"plain"}, key : OneKey, prev : {NoId}, fco : {FALSE},
     header : {NoAccount} \union AccountIds]

(* One of each. *)
AllInputs ==
    [route : Routes, key : OneKey, prev : {NoId, Seed}, fco : BOOLEAN,
     header : {NoAccount} \union AccountIds]
=============================================================================
