------------------------- MODULE DatabasePassphrase -------------------------
(***************************************************************************)
(* The database passphrase: how the desktop shell obtains and keeps it,    *)
(* how the runtime opens or migrates the SQLCipher file with it, which key *)
(* seals the account tokens stored in that file, and how the passphrase is *)
(* changed while worker threads keep writing tokens.                       *)
(*                                                                         *)
(* One stored token per account stands for its access, refresh and id      *)
(* token, which every writer seals with the same key.  What SQLCipher does *)
(* with a key is external: a connection works on the file exactly when it  *)
(* was opened with the key the file has now.                               *)
(***************************************************************************)
EXTENDS Naturals, FiniteSets

CONSTANTS
    Passes,             \* the passphrases a user may type (8 characters or more)
    NoPass,
    DbAccounts,
    kMaxUnlockAttempts  \* maxUnlockAttempts of the startup code

ASSUME PassphraseAssumption == NoPass \notin Passes /\ kMaxUnlockAttempts \in Nat \ {0}

VARIABLES
    file,      \* the database file: what it is, its key, whether it holds the user's data
    aside,     \* the other two files of a migration: the encrypted copy, the plaintext backup
    sealedBy,  \* the key that seals each account's tokens, "plain" or "none"
    saved,     \* the passphrase kept in the key file beside the database
    session,   \* the runtime's two process-wide secrets: for connections and for tokens
    desk,      \* the desktop main process
    change,    \* the passphrase change running on the server's event loop
    writer,    \* a worker thread storing a token
    ghost      \* whether there was data to keep, and what can have orphaned a token

passVars == <<file, aside, sealedBy, saved, session, desk, change, writer, ghost>>

MissingFile == [kind |-> "missing", key |-> NoPass, data |-> FALSE]
NoSession == [db |-> NoPass, token |-> NoPass]
DeskDown == [pc |-> "down", mode |-> "unlock", try |-> NoPass, attempt |-> 0]
NoChange == [pc |-> "idle", cur |-> NoPass, next |-> NoPass]
NoWriter == [pc |-> "idle", kind |-> "login", acct |-> CHOOSE a \in DbAccounts : TRUE,
             conn |-> NoPass, key |-> NoPass]

PassphraseInit ==
    /\ \/ file = MissingFile /\ sealedBy = [a \in DbAccounts |-> "none"]
       \/ /\ file = [kind |-> "plain", key |-> NoPass, data |-> TRUE]
          /\ sealedBy = [a \in DbAccounts |-> "plain"]
       \/ \E p \in Passes :
             /\ file = [kind |-> "sealed", key |-> p, data |-> TRUE]
             /\ sealedBy \in [DbAccounts -> {"plain", p}]
    /\ saved \in {NoPass} \cup (IF file.kind = "sealed" THEN Passes ELSE {})
    /\ aside = [temp |-> FALSE, backup |-> FALSE]
    /\ session = NoSession
    /\ desk = DeskDown
    /\ change = NoChange
    /\ writer = NoWriter
    /\ ghost = [had |-> file.data, causes |-> {}]

-----------------------------------------------------------------------------
(* Starting the desktop application. *)

\* Writing the key file is best effort: without OS encryption, or after an
\* error, what was there stays.
SavePassphrase(p) == saved' \in {p, saved}

\* So is reading it ...
LoadPassphrase == {saved, NoPass}

\* ... and deleting it.
DeleteSavedPassphrase == saved' \in {NoPass, saved}

DetectDatabaseState == file.kind

\* The prompt window ends with a passphrase, or with nothing (cancelled,
\* closed, failed to load); empty and too short ones are asked for again.
ShowPassphrasePrompt == Passes \cup {NoPass}

\* A cancelled prompt ends the application before the runtime is up.
Selected(mode, p, attempt) ==
    desk' = IF p = NoPass THEN DeskDown
            ELSE [pc |-> "init", mode |-> mode, try |-> p, attempt |-> attempt]

PromptForUnlockPassphrase(attempt) ==
    \E p \in ShowPassphrasePrompt : Selected("unlock", p, attempt)

\* The user may also decline the notice or the creation of a new database.
PromptForSetupPassphrase == \E p \in ShowPassphrasePrompt : Selected("setup", p, 0)

RequestDatabasePassphrase ==
    /\ desk.pc = "down"
    /\ IF DetectDatabaseState = "sealed"
       THEN \E p \in LoadPassphrase : IF p # NoPass THEN Selected("unlock", p, 0)
                                      ELSE PromptForUnlockPassphrase(0)
       ELSE PromptForSetupPassphrase
    /\ UNCHANGED <<file, aside, sealedBy, saved, session, change, writer, ghost>>

\* The startup loop on an "unlock failed" error: the saved passphrase is
\* dropped and an unlock asks again, at most kMaxUnlockAttempts times.
UnlockFailed ==
    /\ DeleteSavedPassphrase
    /\ session' = NoSession
    /\ IF desk.mode # "unlock" \/ desk.attempt + 1 >= kMaxUnlockAttempts THEN desk' = DeskDown
       ELSE PromptForUnlockPassphrase(desk.attempt + 1)

-----------------------------------------------------------------------------
(* Bridge::init and the pool's open. *)

ConfigureTokenStorage(p) == [session EXCEPT !.token = p]

\* Both secrets are set before the file is touched; a plaintext file is
\* migrated first.
BridgeInit ==
    /\ desk.pc = "init"
    /\ session' = [ConfigureTokenStorage(desk.try) EXCEPT !.db = desk.try]
    /\ desk' = [desk EXCEPT !.pc = IF file.kind = "plain" THEN "export" ELSE "open"]
    /\ UNCHANGED <<file, aside, sealedBy, saved, change, writer, ghost>>

\* apply_session_key: the key is applied and tried on sqlite_master.  A file
\* that does not exist is created with it.
ApplySessionKey == file.kind = "missing" \/ (file.kind = "sealed" /\ file.key = session.db)

PoolOpen ==
    /\ desk.pc = "open"
    /\ IF ApplySessionKey
       THEN /\ file' = [file EXCEPT !.kind = "sealed", !.key = session.db]
            /\ desk' = [desk EXCEPT !.pc = "start"]
            /\ sealedBy' = IF file.kind = "missing" THEN [a \in DbAccounts |-> "none"] ELSE sealedBy
            /\ UNCHANGED <<session, saved>>
       ELSE UnlockFailed /\ UNCHANGED <<file, sealedBy>>
    /\ UNCHANGED <<aside, change, writer, ghost>>

\* The server and the OAuth callback listener start, or init fails for a
\* reason that is not the passphrase and the application ends.
RuntimeStarts ==
    /\ desk.pc = "start"
    /\ \/ /\ SavePassphrase(desk.try)
          /\ desk' = [desk EXCEPT !.pc = "up", !.try = NoPass, !.attempt = 0]
          /\ UNCHANGED session
       \/ desk' = DeskDown /\ session' = NoSession /\ UNCHANGED saved
    /\ UNCHANGED <<file, aside, sealedBy, change, writer, ghost>>

\* migrate_plaintext_database_with_sqlcipher, in the steps a crash can
\* separate.  First the encrypted copy is written beside the file ...
ExportEncrypted ==
    /\ desk.pc = "export"
    /\ \/ aside' = [aside EXCEPT !.temp = TRUE] /\ desk' = [desk EXCEPT !.pc = "stage"]
          /\ UNCHANGED <<session, saved>>
       \/ UnlockFailed /\ UNCHANGED aside
    /\ UNCHANGED <<file, sealedBy, change, writer, ghost>>

\* ... then the plaintext file is renamed to a backup ...
StagePlaintext ==
    /\ desk.pc = "stage"
    /\ \/ /\ aside' = [aside EXCEPT !.backup = TRUE]
          /\ file' = MissingFile
          /\ desk' = [desk EXCEPT !.pc = "replace"]
          /\ UNCHANGED <<session, saved>>
       \/ UnlockFailed /\ aside' = [aside EXCEPT !.temp = FALSE] /\ UNCHANGED file
    /\ UNCHANGED <<sealedBy, change, writer, ghost>>

\* ... and the copy takes its place.  When that rename fails the backup is
\* renamed back, which may fail too, and the copy is removed.
ReplacementFails ==
    /\ \/ aside' = [temp |-> FALSE, backup |-> FALSE]
          /\ file' = [kind |-> "plain", key |-> NoPass, data |-> TRUE]
       \/ aside' = [aside EXCEPT !.temp = FALSE] /\ UNCHANGED file
    /\ UnlockFailed

ReplacePlaintext ==
    /\ desk.pc = "replace"
    /\ \/ /\ file' = [kind |-> "sealed", key |-> session.db, data |-> TRUE]
          /\ aside' \in {[temp |-> FALSE, backup |-> b] : b \in BOOLEAN}
          /\ desk' = [desk EXCEPT !.pc = "open"]
          /\ UNCHANGED <<session, saved>>
       \/ ReplacementFails
    /\ UNCHANGED <<sealedBy, change, writer, ghost>>

-----------------------------------------------------------------------------
(* Leaving: an orderly shutdown waits for the event loop and the workers,  *)
(* a crash does not.                                                       *)

BeforeQuit == desk.pc = "up" /\ change.pc = "idle" /\ writer.pc = "idle"

BridgeShutdown ==
    /\ BeforeQuit
    /\ desk' = DeskDown /\ session' = NoSession
    /\ UNCHANGED <<file, aside, sealedBy, saved, change, writer, ghost>>

Crash ==
    /\ desk.pc # "down"
    /\ desk' = DeskDown /\ session' = NoSession
    /\ change' = NoChange /\ writer' = NoWriter
    /\ ghost' = IF change.pc = "rotated" THEN [ghost EXCEPT !.causes = @ \cup {"crash"}] ELSE ghost
    /\ UNCHANGED <<file, aside, sealedBy, saved>>

-----------------------------------------------------------------------------
(* Changing the passphrase. *)

\* rotate_account_token_storage_passphrase: one transaction that reseals every
\* token, and rolls back when one of them does not open with the old key.
CanRotate(from) == \A a \in DbAccounts : sealedBy[a] \in {"none", "plain", from}
Rotated(to) == [a \in DbAccounts |-> IF sealedBy[a] = "none" THEN "none" ELSE to]

ChangeDatabasePassphrase ==
    /\ desk.pc = "up" /\ change.pc = "idle"
    /\ \E cur, next \in Passes : /\ cur # next /\ session.db = cur
                                 /\ change' = [pc |-> "rotate", cur |-> cur, next |-> next]
    /\ UNCHANGED <<file, aside, sealedBy, saved, session, desk, writer, ghost>>

RotateTokens ==
    /\ change.pc = "rotate"
    /\ \/ /\ CanRotate(change.cur)
          /\ sealedBy' = Rotated(change.next)
          /\ change' = [change EXCEPT !.pc = "rotated"]
       \/ change' = NoChange /\ UNCHANGED sealedBy
    /\ UNCHANGED <<file, aside, saved, session, desk, writer, ghost>>

\* A bug it must not have: the handler only reports the failure.
RekeyFails_NoRollback ==
    /\ change' = NoChange
    /\ UNCHANGED <<file, sealedBy, ghost>>

\* A failed rekey rotates the tokens back, best effort.
RekeyFails ==
    /\ change' = NoChange
    /\ UNCHANGED file
    /\ \/ CanRotate(change.next) /\ sealedBy' = Rotated(change.cur) /\ UNCHANGED ghost
       \/ UNCHANGED sealedBy /\ ghost' = [ghost EXCEPT !.causes = @ \cup {"rollback"}]

RekeyDatabase ==
    /\ change.pc = "rotated"
    /\ \/ /\ file' = [file EXCEPT !.key = change.next]
          /\ change' = [change EXCEPT !.pc = "rekeyed"]
          /\ UNCHANGED <<sealedBy, ghost>>
       \/ RekeyFails
    /\ UNCHANGED <<aside, saved, session, desk, writer>>

\* The connection secret is switched, then the token key.
SetSessionPassphrase ==
    /\ change.pc = "rekeyed"
    /\ session' = [session EXCEPT !.db = change.next]
    /\ change' = [change EXCEPT !.pc = "switched"]
    /\ UNCHANGED <<file, aside, sealedBy, saved, desk, writer, ghost>>

\* The reply lets the shell save the new passphrase, unless it timed out.
SwitchTokenKey ==
    /\ change.pc = "switched"
    /\ session' = ConfigureTokenStorage(change.next)
    /\ SavePassphrase(change.next)
    /\ change' = NoChange
    /\ UNCHANGED <<file, aside, sealedBy, desk, writer, ghost>>

-----------------------------------------------------------------------------
(* A worker thread stores a token: after a login, after a refresh, or      *)
(* because it read one that is still in plaintext.                         *)

DecryptToken(a) == sealedBy[a] = session.token
EncryptTokenForStorage == session.token

\* A refresh needs the tokens it has: sealed with the session's key, or in
\* plaintext, which it seals on the way.
FindActiveAccountTokens(a) == sealedBy[a] = "plain" \/ DecryptToken(a)

\* Reading a credential seals it when it is found in plaintext.
NormalizeStoredAccessToken(a) == sealedBy[a] = "plain"

Reads(kind, a) ==
    \/ kind = "login"
    \/ kind = "refresh" /\ FindActiveAccountTokens(a)
    \/ kind = "normalize" /\ NormalizeStoredAccessToken(a)

\* A new connection takes the session's key, which must be the file's.
WriterOpens ==
    /\ desk.pc = "up" /\ writer.pc = "idle"
    /\ file.key = session.db
    /\ \E kind \in {"login", "refresh", "normalize"}, a \in DbAccounts :
          /\ Reads(kind, a)
          /\ writer' = [pc |-> "opened", kind |-> kind, acct |-> a, conn |-> session.db, key |-> NoPass]
    /\ UNCHANGED <<file, aside, sealedBy, saved, session, desk, change, ghost>>

WriterSeals ==
    /\ writer.pc = "opened"
    /\ writer' = [writer EXCEPT !.pc = "sealed", !.key = EncryptTokenForStorage]
    /\ UNCHANGED <<file, aside, sealedBy, saved, session, desk, change, ghost>>

\* The key the last rotation left the tokens under.
RotatedTo == IF change.pc \in {"rotated", "rekeyed", "switched"} THEN change.next ELSE session.token

UpsertOauthAccount == sealedBy' = [sealedBy EXCEPT ![writer.acct] = writer.key]

UpdateAccountTokens ==
    /\ writer.pc = "sealed"
    /\ IF writer.conn = file.key
       THEN /\ UpsertOauthAccount
            /\ ghost' = IF writer.key # RotatedTo
                        THEN [ghost EXCEPT !.causes = @ \cup {"late write"}] ELSE ghost
       ELSE UNCHANGED <<sealedBy, ghost>>
    /\ writer' = NoWriter
    /\ UNCHANGED <<file, aside, saved, session, desk, change>>

\* The administrator's migration seals every plaintext token, on the event loop.
MigratePlaintextAccountTokens ==
    /\ desk.pc = "up" /\ change.pc = "idle"
    /\ \E a \in DbAccounts : sealedBy[a] = "plain"
    /\ sealedBy' = [a \in DbAccounts |-> IF sealedBy[a] = "plain" THEN EncryptTokenForStorage ELSE sealedBy[a]]
    /\ UNCHANGED <<file, aside, saved, session, desk, change, writer, ghost>>

PassphraseNext ==
    \/ RequestDatabasePassphrase \/ BridgeInit \/ PoolOpen \/ RuntimeStarts
    \/ ExportEncrypted \/ StagePlaintext \/ ReplacePlaintext
    \/ BridgeShutdown \/ Crash
    \/ ChangeDatabasePassphrase \/ RotateTokens \/ RekeyDatabase
    \/ SetSessionPassphrase \/ SwitchTokenKey
    \/ WriterOpens \/ WriterSeals \/ UpdateAccountTokens
    \/ MigratePlaintextAccountTokens

PassphraseSpec == PassphraseInit /\ [][PassphraseNext]_passVars

-----------------------------------------------------------------------------
(* Properties. *)

PassphraseTypeOK ==
    /\ file \in [kind : {"missing", "plain", "sealed"}, key : Passes \cup {NoPass}, data : BOOLEAN]
    /\ sealedBy \in [DbAccounts -> Passes \cup {"plain", "none"}]
    /\ saved \in Passes \cup {NoPass}
    /\ session \in [db : Passes \cup {NoPass}, token : Passes \cup {NoPass}]
    /\ desk.attempt < kMaxUnlockAttempts

\* While the runtime is up and no change is running, both of its secrets are
\* the key the file has: a change that failed at any step, or was cut by a
\* crash and a new start, never leaves the runtime with a key of its own.
SessionOpensDatabase ==
    desk.pc = "up" /\ change.pc = "idle" =>
        /\ file.kind = "sealed"
        /\ session = [db |-> file.key, token |-> file.key]

\* The user's data is always in the database file or in one of the two files
\* of a migration, wherever a rename fails or the application is killed.
DataIsKept == ghost.had => file.data \/ aside.temp \/ aside.backup

\* A stored token the running session cannot open was orphaned in one of three
\* ways: a crash between the rotation of the tokens and the rekey of the file,
\* a rotation back that failed, or a worker that stored a token sealed with
\* the old key after the rotation.  No sequence of changes, failures and
\* restarts without one of them loses a token.
UnreadableTokenHasCause ==
    desk.pc = "up" /\ change.pc = "idle" /\ ghost.causes = {} =>
        \A a \in DbAccounts : sealedBy[a] \in {"none", "plain", session.token}

\* The data is on disk, the running session opens it, and it opens every token
\* no known cause has orphaned.
PassphraseSafety ==
    /\ PassphraseTypeOK
    /\ SessionOpensDatabase
    /\ DataIsKept
    /\ UnreadableTokenHasCause
=============================================================================
