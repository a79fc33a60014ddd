------------------------------ MODULE ApiKeys -------------------------------
(* The API keys of the proxy: the api_keys table, the operations of the      *)
(* dashboard on it, and what a request is allowed by the key it presents.    *)
(* A key's secret is a number; issuing one takes the next.  0 stands for the *)
(* secret of a key that does not exist and for a request without one.        *)
EXTENDS Naturals, FiniteSets

CONSTANTS
    KeyIds,     \* the keys that may be created
    Models,     \* model names; a request may also name none
    NoModel,
    NoKey,
    MaxSecrets  \* bound: secrets issued in one behaviour

ASSUME KeysAssumption == MaxSecrets \in Nat

VARIABLES
    apiKeys,    \* api_keys, by key_id
    issued      \* secrets issued so far

keyVars == <<apiKeys, issued>>

Optional(S) == S \cup {NoModel}
NoRow == [secret |-> 0, is_active |-> FALSE, expired |-> FALSE,
          allowed |-> {}, enforced |-> NoModel]
Exists(k) == apiKeys[k].secret # 0

KeysInit ==
    /\ apiKeys = [k \in KeyIds |-> NoRow]
    /\ issued = 0

IssueApiKeyMaterial == issued < MaxSecrets /\ issued' = issued + 1

ValidateModelEnforcement(enforced, allowed) ==
    enforced = NoModel \/ allowed = {} \/ enforced \in allowed

-----------------------------------------------------------------------------
(* The statements of the repository.                                         *)

DbCreateApiKey(k, row) == ~Exists(k) /\ apiKeys' = [apiKeys EXCEPT ![k] = row]

(* Each field of the patch that is given replaces the stored one. *)
DbUpdateApiKey(k, patch) ==
    LET row == apiKeys[k]
    IN  apiKeys' = [apiKeys EXCEPT ![k] = [row EXCEPT
            !.allowed = IF "allowed" \in patch.fields THEN patch.allowed ELSE row.allowed,
            !.enforced = IF "enforced" \in patch.fields THEN patch.enforced ELSE row.enforced,
            !.is_active = IF "is_active" \in patch.fields THEN patch.is_active ELSE row.is_active,
            !.expired = IF "expires_at" \in patch.fields THEN FALSE ELSE row.expired]]

RotateApiKeySecret(k, secret) == Exists(k) /\ apiKeys' = [apiKeys EXCEPT ![k].secret = secret]

(* Foreign keys are not enforced: reservations of the key stay. *)
DbDeleteApiKey(k) == Exists(k) /\ apiKeys' = [apiKeys EXCEPT ![k] = NoRow]

-----------------------------------------------------------------------------
(* The operations of the dashboard.  A request that is refused changes       *)
(* nothing and is left out.                                                  *)

(* The row is inserted, then its limits in a transaction of their own: when  *)
(* that fails the answer is an error although the key exists.  Limits are    *)
(* stored and listed but no request is held to them, so they are left out.   *)
CreateApiKey(k, allowed, enforced) ==
    /\ ValidateModelEnforcement(enforced, allowed)
    /\ IssueApiKeyMaterial
    /\ DbCreateApiKey(k, [NoRow EXCEPT !.secret = issued', !.is_active = TRUE,
                                       !.allowed = allowed, !.enforced = enforced])

(* The combination of the new and the stored values is validated; the patch  *)
(* is written before the limits are looked at, so invalid limits answer 400  *)
(* after the write.                                                          *)
UpdateApiKey(k, patch) ==
    /\ Exists(k)
    /\ ValidateModelEnforcement(
           IF "enforced" \in patch.fields THEN patch.enforced ELSE apiKeys[k].enforced,
           IF "allowed" \in patch.fields THEN patch.allowed ELSE apiKeys[k].allowed)
    /\ DbUpdateApiKey(k, patch)
    /\ UNCHANGED issued

RegenerateApiKey(k) == IssueApiKeyMaterial /\ RotateApiKeySecret(k, issued')

DeleteApiKey(k) == DbDeleteApiKey(k) /\ UNCHANGED issued

KeyExpires(k) ==
    /\ Exists(k) /\ ~apiKeys[k].expired
    /\ apiKeys' = [apiKeys EXCEPT ![k].expired = TRUE]
    /\ UNCHANGED issued

(* What the PATCH route makes of a body: an empty list of allowed models is  *)
(* taken for a field that was not sent, so a restriction cannot be lifted.   *)
Patches ==
    {p \in [fields : SUBSET {"allowed", "enforced", "is_active", "expires_at"},
            allowed : SUBSET Models, enforced : Optional(Models), is_active : BOOLEAN] :
        "allowed" \in p.fields => p.allowed # {}}

KeysNext ==
    \E k \in KeyIds :
        \/ \E allowed \in SUBSET Models, enforced \in Optional(Models) : CreateApiKey(k, allowed, enforced)
        \/ \E patch \in Patches : UpdateApiKey(k, patch)
        \/ RegenerateApiKey(k) \/ DeleteApiKey(k) \/ KeyExpires(k)

KeysSpec == KeysInit /\ [][KeysNext]_keyVars

-----------------------------------------------------------------------------
(* What the middleware makes of a request's secret.                          *)

KeyOf(secret) == {k \in KeyIds : Exists(k) /\ apiKeys[k].secret = secret}

ValidateProxyApiKey(authEnabled, secret) ==
    ~authEnabled \/ \E k \in KeyOf(secret) : apiKeys[k].is_active /\ ~apiKeys[k].expired

NoPolicy == [key |-> NoKey, allowed |-> {}, enforced |-> NoModel]

ResolveApiKeyModelPolicy(authEnabled, secret) ==
    IF authEnabled /\ ValidateProxyApiKey(authEnabled, secret)
    THEN LET k == CHOOSE k \in KeyOf(secret) : TRUE
         IN  [key |-> k, allowed |-> apiKeys[k].allowed, enforced |-> apiKeys[k].enforced]
    ELSE NoPolicy

EffectiveModel(policy, model) == IF policy.enforced # NoModel THEN policy.enforced ELSE model

(* A request that names no model is not checked against the allowed ones.    *)
EnforceApiKeyRequestPolicy(policy, model) ==
    LET effective == EffectiveModel(policy, model)
    IN  policy.allowed = {} \/ effective = NoModel \/ effective \in policy.allowed

-----------------------------------------------------------------------------
KeysTypeOK ==
    /\ issued \in 0..MaxSecrets
    /\ apiKeys \in [KeyIds -> [secret : 0..MaxSecrets, is_active : BOOLEAN, expired : BOOLEAN,
                               allowed : SUBSET Models, enforced : Optional(Models)]]

(* After any sequence of creations and partial updates a key enforces only a *)
(* model that it allows; otherwise each of its requests would be refused.    *)
EnforcedModelIsAllowed ==
    \A k \in KeyIds : Exists(k) => ValidateModelEnforcement(apiKeys[k].enforced, apiKeys[k].allowed)
=============================================================================
