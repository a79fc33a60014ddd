------------------------------ MODULE Dashboard ------------------------------
(***************************************************************************)
(* The dashboard's settings row and its login: the settings API merges a   *)
(* partial update into the row it read, validates the result and writes    *)
(* every column back; passwords, TOTP set-up and verification read and     *)
(* write the same row and keep sessions in memory.                         *)
(*                                                                         *)
(* The fifty columns are grouped by how they are validated: one text       *)
(* stands for the enumerated and formatted ones, one number for the        *)
(* ranged ones, and the fields that constrain each other are kept apart.   *)
(* Everything runs on the server's event loop, one request at a time.      *)
(***************************************************************************)
EXTENDS Naturals, FiniteSets

CONSTANTS
    DNone,
    DSessions,          \* names of dashboard sessions
    Secrets,            \* TOTP secrets that can be generated
    MaxTime,            \* bound on the clock, in TOTP periods
    SessionTtl,         \* a session's life, in TOTP periods
    MaxNumber           \* upper limit of a ranged setting

\* DNone is the NULL of the database, no value of a column.
ASSUME DashboardAssumption ==
    /\ {MaxTime, SessionTtl, MaxNumber} \subseteq Nat \ {0}
    /\ DNone \notin Nat \cup BOOLEAN \cup {"default", "bad", "set"} \cup Secrets

VARIABLES settings, pinned, sessions, pendingTotp, now, spent

dashVars == <<settings, pinned, sessions, pendingTotp, now, spent>>

-----------------------------------------------------------------------------
(* The settings row. *)

\* A row written before a column existed holds NULL there; opening the
\* database fills it with the default.
DefaultSettings == [text |-> "default", number |-> 1, schema |-> 1, minSchema |-> 1,
                    required |-> FALSE, pool |-> 0]

EnsureSchema(row) ==
    [f \in DOMAIN row |-> IF row[f] = DNone /\ f \in DOMAIN DefaultSettings
                          THEN DefaultSettings[f] ELSE row[f]]

GetDashboardSettings == EnsureSchema(settings)

\* The body of PUT /api/settings: every field may be there or not; here one
\* is, or the two that constrain each other.
SettingsUpdates ==
    {u \in [text : {DNone, "bad"}, number : {DNone, 0, MaxNumber + 1},
            schema : {DNone, 1, MaxNumber}, minSchema : {DNone, 0, 1, MaxNumber},
            required : {DNone, TRUE, FALSE}, pool : {DNone, 2}, weight : {DNone, "bad"}] :
        LET named == {f \in DOMAIN u : u[f] # DNone}
        IN Cardinality(named) = 1 \/ named = {"schema", "minSchema"}}

ValueOr(u, current, f) == IF u[f] = DNone THEN current[f] ELSE u[f]

Merged(u, current) ==
    [f \in DOMAIN current |-> IF f \in DOMAIN u THEN ValueOr(u, current, f) ELSE current[f]]

\* The merged values are validated, whether the update names them or not;
\* only the routing weights are checked as the update gives them.
ValidText(u, row) == row.text # "bad" /\ u.weight # "bad"

ValidRanges(row) ==
    /\ row.number \in 1 .. MaxNumber
    /\ row.schema \in 1 .. MaxNumber
    /\ row.minSchema \in 1 .. MaxNumber
    /\ row.minSchema <= row.schema

ValidTotp(row, current) == row.required => current.secret # DNone

\* All columns are written; a lock pool of two accounts or more clears the pins.
UpdateDashboardSettings(row) ==
    /\ settings' = row
    /\ pinned' = (pinned /\ row.pool < 2)

UpdateSettings ==
    /\ \E u \in SettingsUpdates :
          LET row == Merged(u, GetDashboardSettings)
          IN /\ ValidText(u, row) /\ ValidRanges(row) /\ ValidTotp(row, GetDashboardSettings)
             /\ UpdateDashboardSettings(row)
    /\ UNCHANGED <<sessions, pendingTotp, now, spent>>

PinAccount ==
    /\ pinned' \in BOOLEAN
    /\ UNCHANGED <<settings, sessions, pendingTotp, now, spent>>

-----------------------------------------------------------------------------
(* Sessions and logins. *)

NoDashSession == [open |-> FALSE, totp |-> FALSE, expires |-> 0]

CreateSession(totp) ==
    \E d \in DSessions :
        /\ ~sessions[d].open
        /\ d = CHOOSE x \in DSessions : ~sessions[x].open
        /\ sessions' = [sessions EXCEPT ![d] = [open |-> TRUE, totp |-> totp, expires |-> now + SessionTtl]]

\* Every session is opened with a verified password.
GetSession(d) == sessions[d].open /\ now < sessions[d].expires

SessionPayload(d) ==
    LET row == GetDashboardSettings
    IN [authenticated |-> row.password = DNone \/ (GetSession(d) /\ (row.required => sessions[d].totp)),
        totpRequired |-> row.password # DNone /\ row.required /\ GetSession(d)]

SetupDashboardPassword ==
    /\ GetDashboardSettings.password = DNone
    /\ settings' = [GetDashboardSettings EXCEPT !.password = "set"]
    /\ CreateSession(FALSE)
    /\ UNCHANGED <<pinned, pendingTotp, now, spent>>

LoginDashboardPassword ==
    /\ GetDashboardSettings.password # DNone
    /\ CreateSession(FALSE)
    /\ UNCHANGED <<settings, pinned, pendingTotp, now, spent>>

\* A secret is generated for the session; generated ones never repeat.
StartTotpSetup(d) ==
    /\ GetSession(d)
    /\ GetDashboardSettings.secret = DNone
    /\ \E s \in Secrets :
          /\ s # settings.secret /\ \A e \in DSessions : pendingTotp[e] # s
          /\ \A c \in spent : c.secret # s
          /\ pendingTotp' = [pendingTotp EXCEPT ![d] = s]
    /\ UNCHANGED <<settings, pinned, sessions, now, spent>>

\* verify_totp_code: the steps around now, above the last accepted one.
VerifyTotpCode(step, last) ==
    /\ step + 1 >= now /\ step <= now + 1
    /\ last # DNone => step > last

SetDashboardTotpSecret(s) ==
    settings' = [GetDashboardSettings EXCEPT !.secret = s, !.last = DNone]

ConfirmTotpSetup(d) ==
    /\ GetSession(d)
    /\ pendingTotp[d] # DNone
    /\ \E step \in 0 .. MaxTime + 1 : VerifyTotpCode(step, DNone)
    /\ SetDashboardTotpSecret(pendingTotp[d])
    /\ pendingTotp' = [pendingTotp EXCEPT ![d] = DNone]
    /\ UNCHANGED <<pinned, sessions, now, spent>>

\* A bug it must not have: only steps before the current one are spent.
AdvanceLastVerifiedStep_Previous(step) ==
    settings' = [settings EXCEPT !.last = IF step = 0 THEN DNone ELSE step - 1]

\* The step is advanced by a conditional UPDATE that must change the row.
AdvanceLastVerifiedStep(step) ==
    /\ settings.last # DNone => settings.last < step
    /\ settings' = [settings EXCEPT !.last = step]

VerifyDashboardTotp(d) ==
    /\ GetSession(d)
    /\ GetDashboardSettings.secret # DNone
    /\ \E step \in 0 .. MaxTime + 1 :
          /\ VerifyTotpCode(step, GetDashboardSettings.last)
          /\ AdvanceLastVerifiedStep(step)
          /\ spent' = spent \cup {[secret |-> settings.secret, step |-> step]}
    /\ CreateSession(TRUE)
    /\ UNCHANGED <<pinned, pendingTotp, now>>

LogoutDashboard(d) ==
    /\ sessions[d].open
    /\ sessions' = [sessions EXCEPT ![d] = NoDashSession]
    /\ pendingTotp' = [pendingTotp EXCEPT ![d] = DNone]
    /\ UNCHANGED <<settings, pinned, now, spent>>

ClockTicks ==
    /\ now < MaxTime
    /\ now' = now + 1
    /\ UNCHANGED <<settings, pinned, sessions, pendingTotp, spent>>

DashInit ==
    /\ settings \in {[text |-> "default", number |-> n, schema |-> v, minSchema |-> v, required |-> FALSE,
                      pool |-> 0, password |-> DNone, secret |-> DNone, last |-> DNone] :
                         n \in {1, DNone}, v \in {1, DNone}}
    /\ pinned = FALSE
    /\ sessions = [d \in DSessions |-> NoDashSession]
    /\ pendingTotp = [d \in DSessions |-> DNone]
    /\ now = 0
    /\ spent = {}

DashNext ==
    \/ UpdateSettings \/ PinAccount
    \/ SetupDashboardPassword \/ LoginDashboardPassword
    \/ \E d \in DSessions : \/ StartTotpSetup(d) \/ ConfirmTotpSetup(d)
                            \/ VerifyDashboardTotp(d) \/ LogoutDashboard(d)
    \/ ClockTicks

DashSpec == DashInit /\ [][DashNext]_dashVars

-----------------------------------------------------------------------------
(* Properties. *)

DashTypeOK ==
    /\ DOMAIN settings = DOMAIN DefaultSettings \cup {"password", "secret", "last"}
    /\ sessions \in [DSessions -> [open : BOOLEAN, totp : BOOLEAN, expires : 0 .. MaxTime + SessionTtl]]
    /\ pendingTotp \in [DSessions -> Secrets \cup {DNone}]

\* Whatever order partial updates come in, the row a reader gets is valid as a
\* whole: each value in its range, the lowest supported schema not above the
\* schema, and TOTP enforced only when a secret exists to verify with.
SettingsStayValid ==
    LET row == GetDashboardSettings
    IN /\ row.text # "bad" /\ {row.number, row.schema, row.minSchema} \subseteq 1 .. MaxNumber
       /\ row.minSchema <= row.schema
       /\ row.required => row.secret # DNone

\* A one-time code that opened a session is spent: the row has moved to its
\* step or past it, or to another secret, so that neither a later login nor a
\* set-up finished by another session can make it acceptable again.
UsedCodesAreSpent ==
    \A c \in spent : c.secret = settings.secret => settings.last # DNone /\ c.step <= settings.last

\* The dashboard's row is valid as a whole and no used code works again.
DashboardSafety == DashTypeOK /\ SettingsStayValid /\ UsedCodesAreSpent
=============================================================================
