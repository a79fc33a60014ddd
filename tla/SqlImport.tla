------------------------------ MODULE SqlImport ------------------------------
(***************************************************************************)
(* Importing accounts from another SQLite file.  A preview reads the       *)
(* source and decides, row by row, what an import would do; the import     *)
(* reads and decides again, applies the user's overrides inside one        *)
(* transaction, and reports totals.                                        *)
(*                                                                         *)
(* The deciding happens before the transaction begins, so a login that     *)
(* completes on another thread can change the accounts in between.  A      *)
(* row's three tokens are treated alike and stand as one, and so do its    *)
(* quota columns, which no decision depends on.                            *)
(***************************************************************************)
EXTENDS Naturals, Sequences, FiniteSets

CONSTANTS
    INone,
    SourceRows,         \* rows a source may hold: [chatgpt, email, token, status]
    Destinations,       \* contents the accounts table may have at the start
    MaxSourceRows       \* bound on the source's length

\* A row of the accounts table.
Account == [chatgpt : {INone} \cup {r.chatgpt : r \in SourceRows},
            email : {INone} \cup {r.email : r \in SourceRows}, token : {"sealed", INone},
            status : {"active", "paused", "rate_limited", "deactivated", "quota_blocked"},
            pinned : BOOLEAN]

DistinctIds(table) ==
    \A i, k \in 1..Len(table) :
        i # k /\ table[i].chatgpt # INone => table[i].chatgpt # table[k].chatgpt

PinsAreActive(table) == \A i \in 1..Len(table) : table[i].pinned => table[i].status = "active"

Actions == {"new", "update", "skip", "invalid"}

\* An override names one row of the source, or a row that is not there.
Overrides == {INone} \cup [row : {0}, action : {"new"}] \cup [row : 1..MaxSourceRows, action : Actions]

\* A request with the rows that were read for it.
RequestsWithRows ==
    [withoutOverwrite : BOOLEAN, key : {INone, "right", "wrong"},
     passphrase : {INone, "right", "wrong"}, override : Overrides,
     limit : {1, MaxSourceRows}, rows : Seq(SourceRows)]

\* The table that the import finds has pins on active accounts only, as every
\* writer of a status leaves it, and no upstream id twice: an import cannot keep
\* ids apart that logins have stored twice.
ASSUME ImportAssumption ==
    /\ MaxSourceRows \in Nat \ {0}
    /\ INone \notin RequestsWithRows
    /\ \A table \in Destinations :
         table \in Seq(Account) /\ DistinctIds(table) /\ PinsAreActive(table)

VARIABLES
    accounts,           \* the accounts table, a sequence by id
    job,                \* the import in progress
    raced               \* a login changed the table after the import had decided

importVars == <<accounts, job, raced>>

NoTotals == [inserted |-> 0, updated |-> 0, skipped |-> 0, invalid |-> 0, failed |-> 0]
IdleJob == [step |-> "idle", request |-> INone, candidates |-> <<>>, preview |-> <<>>,
            next |-> 1, undo |-> INone, totals |-> NoTotals, answer |-> INone]

-----------------------------------------------------------------------------
(* Reading the source file. *)

FileKinds == {"relative", "missing", "directory", "unopenable", "corrupt",
              "encrypted", "no_accounts", "unreadable", "plain"}

\* read_sqlite_import_source: the error, or INone when the rows were read.
\* A schema that cannot be read asks for a passphrase only when the error or
\* the header says that the file is encrypted.
SourceError(file, passphrase) ==
    CASE file \in {"relative", "directory"} -> "invalid_source_path"
      [] file = "missing" -> "source_db_not_found"
      [] file = "unopenable" -> "source_db_open_failed"
      [] file = "corrupt" -> IF passphrase = INone THEN "source_db_open_failed"
                             ELSE "source_db_passphrase_invalid"
      [] file = "encrypted" /\ passphrase = INone -> "source_db_passphrase_required"
      [] file = "encrypted" /\ passphrase = "wrong" -> "source_db_passphrase_invalid"
      [] file = "no_accounts" -> "source_schema_unsupported"
      [] file = "unreadable" -> "preview_generation_failed"
      [] OTHER -> INone

ErrorStatus(error) ==
    CASE error = "source_db_not_found" -> 404
      [] error = "preview_generation_failed" -> 500
      [] OTHER -> 400

\* The first rows, up to the limit of the request and of the program.
ReadRows(rows, limit) == SubSeq(rows, 1, IF limit < Len(rows) THEN limit ELSE Len(rows))

-----------------------------------------------------------------------------
(* Deciding what to do with a row. *)

\* normalize_token_for_storage: a token already sealed for storage is kept as
\* it is, one of the older product needs the source's key.
StorableToken(token, key) ==
    CASE token = "sealed" -> "sealed"
      [] token = "fernet" -> IF key = "right" THEN "sealed" ELSE INone
      [] token = "plain" -> "sealed"
      [] OTHER -> INone

NormalizeStatusUpdate(status) ==
    CASE status = "quota_exceeded" -> "quota_blocked"
      [] status \in {"active", "paused", "rate_limited", "deactivated", "quota_blocked"} -> status
      [] OTHER -> INone

StatusForInsert(status) ==
    IF NormalizeStatusUpdate(status) = INone THEN "active" ELSE NormalizeStatusUpdate(status)

\* The provider defaults to the one product, so an email is an identity.
DedupeKey(row) ==
    CASE row.chatgpt # INone -> <<"chatgpt_account_id", row.chatgpt>>
      [] row.chatgpt = INone /\ row.email # INone -> <<"email_provider", row.email>>
      [] OTHER -> INone

\* The first account, in the order of ids, that has the row's identity.
DestinationIndex(table, row) ==
    LET same == {i \in 1..Len(table) :
                   IF row.chatgpt # INone THEN table[i].chatgpt = row.chatgpt
                   ELSE row.email # INone /\ table[i].email = row.email}
    IN IF same = {} THEN 0 ELSE CHOOSE i \in same : \A k \in same : i <= k

\* Mutant: the seen keys are not consulted.
SeenKey_Never(rows, i) == FALSE

\* A key seen on an earlier row makes this one a duplicate.
SeenKey(rows, i) == \E k \in 1..(i - 1) : DedupeKey(rows[k]) = DedupeKey(rows[i])

MakeCandidate(table, rows, i, withoutOverwrite) ==
    LET row == rows[i]
        to == DestinationIndex(table, row)
    IN [row |-> i, to |-> to,
        action |-> IF DedupeKey(row) = INone THEN "invalid"
                   ELSE IF SeenKey(rows, i) THEN "skip"
                   ELSE IF row.token = INone THEN "invalid"
                   ELSE IF to = 0 THEN "new"
                   ELSE IF withoutOverwrite THEN "skip" ELSE "update"]

\* With a key, a token that cannot be stored makes the row invalid; without
\* one the row keeps its action and the user is told to enter the key.
ValidatedForPreview(candidate, row, key) ==
    IF /\ candidate.action \in {"new", "update"}
       /\ ~(key = INone /\ row.token = "fernet")
       /\ StorableToken(row.token, key) = INone
    THEN [candidate EXCEPT !.action = "invalid"] ELSE candidate

PrepareImport(table, rows, request) ==
    [i \in 1..Len(rows) |->
        ValidatedForPreview(MakeCandidate(table, rows, i, request.withoutOverwrite),
                            rows[i], request.key)]

PreviewTotals(candidates) ==
    [a \in Actions |-> Cardinality({i \in 1..Len(candidates) : candidates[i].action = a})]

-----------------------------------------------------------------------------
(* The import. *)

ImportInit ==
    /\ accounts \in Destinations
    /\ job = IdleJob
    /\ raced = FALSE

Sources == UNION {[1..n -> SourceRows] : n \in 0..MaxSourceRows}

\* apply_sqlite_import up to the transaction: the user previewed the same
\* table and source with the same request.
StartImport(file, rows, request) ==
    LET error == SourceError(file, request.passphrase)
        read == ReadRows(rows, request.limit)
        candidates == PrepareImport(accounts, read, request)
    IN /\ job.step = "idle"
       /\ job' = IF error # INone
                 THEN [IdleJob EXCEPT !.step = "done", !.answer = ErrorStatus(error)]
                 ELSE [IdleJob EXCEPT !.step = "decided", !.request = [request EXCEPT !.rows = read],
                                      !.candidates = candidates,
                                      !.preview = PreviewTotals(candidates)]
       /\ UNCHANGED <<accounts, raced>>

\* An OAuth login stores its account, keyed by its email.
LoginStoresAccount(email, chatgpt) ==
    LET same == {i \in 1..Len(accounts) : accounts[i].email = email}
        row == [chatgpt |-> chatgpt, email |-> email, token |-> "sealed",
                status |-> "active", pinned |-> FALSE]
    IN /\ job.step = "decided"
       /\ ~raced
       /\ accounts' = IF same = {} THEN Append(accounts, row)
                      ELSE [accounts EXCEPT ![CHOOSE i \in same : TRUE] =
                              [row EXCEPT !.pinned = accounts[CHOOSE i \in same : TRUE].pinned]]
       /\ raced' = TRUE
       /\ UNCHANGED job

BeginTransaction ==
    /\ job.step = "decided"
    /\ \/ job' = [job EXCEPT !.step = "rows", !.undo = accounts]
       \/ job' = [job EXCEPT !.step = "done", !.undo = accounts, !.answer = 500]
    /\ UNCHANGED <<accounts, raced>>

\* The override, unless it would revive an invalid row.
RowAction(candidate, override) ==
    IF override = INone \/ override.row # candidate.row THEN candidate.action
    ELSE IF candidate.action = "invalid" /\ override.action \notin {"invalid", "skip"}
    THEN "invalid" ELSE override.action

InsertedRow(row) ==
    [chatgpt |-> row.chatgpt, email |-> row.email, token |-> "sealed",
     status |-> StatusForInsert(row.status), pinned |-> FALSE]

\* Only what the source has is written; a status other than active unpins.
UpdatedRow(old, row) ==
    LET status == IF NormalizeStatusUpdate(row.status) = INone THEN old.status
                  ELSE NormalizeStatusUpdate(row.status)
    IN [chatgpt |-> IF row.chatgpt = INone THEN old.chatgpt ELSE row.chatgpt,
        email |-> IF row.email = INone THEN old.email ELSE row.email,
        token |-> IF row.token = INone THEN old.token ELSE "sealed",
        status |-> status, pinned |-> old.pinned /\ status = "active"]

\* One row: skipped, invalid, or its tokens normalised and the row inserted or
\* updated.  `writes` says whether the statement succeeds.
ApplyRow(writes) ==
    LET candidate == job.candidates[job.next]
        row == job.request.rows[job.next]
        action == RowAction(candidate, job.request.override)
        stored == row.token = INone \/ StorableToken(row.token, job.request.key) # INone
        written == stored /\ writes /\ (action = "new" \/ candidate.to # 0)
        field == IF action = "skip" THEN "skipped"
                 ELSE IF action = "invalid" THEN "invalid"
                 ELSE IF ~written THEN "failed"
                 ELSE IF action = "new" THEN "inserted" ELSE "updated"
    IN /\ job.step = "rows" /\ job.next <= Len(job.candidates)
       /\ accounts' = CASE field = "inserted" -> Append(accounts, InsertedRow(row))
                        [] field = "updated" -> [accounts EXCEPT ![candidate.to] =
                                                    UpdatedRow(accounts[candidate.to], row)]
                        [] OTHER -> accounts
       /\ job' = [job EXCEPT !.next = @ + 1, !.totals[field] = @ + 1]
       /\ UNCHANGED raced

CommitImport ==
    /\ job.step = "rows" /\ job.next > Len(job.candidates)
    /\ job' = [job EXCEPT !.step = "done", !.answer = 200]
    /\ UNCHANGED <<accounts, raced>>

\* Preparing a statement or COMMIT fails: nothing of the import is kept.
TransactionFails ==
    /\ job.step = "rows" /\ job.next \in {1, Len(job.candidates) + 1}
    /\ accounts' = job.undo
    /\ job' = [job EXCEPT !.step = "done", !.answer = 500]
    /\ UNCHANGED raced

ImportRequests ==
    [withoutOverwrite : BOOLEAN, key : {INone, "right", "wrong"}, passphrase : {INone},
     override : Overrides, limit : {MaxSourceRows}, rows : {<<>>}]

ReadRequests ==
    [withoutOverwrite : {FALSE}, key : {INone}, passphrase : {INone, "right", "wrong"},
     override : {INone}, limit : {1, MaxSourceRows}, rows : {<<>>}]

ImportNext ==
    \/ \E rows \in Sources, request \in ImportRequests : StartImport("plain", rows, request)
    \/ \E file \in FileKinds, rows \in [1..MaxSourceRows -> SourceRows], request \in ReadRequests :
         StartImport(file, rows, request)
    \/ \E row \in SourceRows : row.email # INone /\ LoginStoresAccount(row.email, row.chatgpt)
    \/ BeginTransaction \/ CommitImport \/ TransactionFails
    \/ \E writes \in BOOLEAN : ApplyRow(writes)

ImportSpec == ImportInit /\ [][ImportNext]_importVars

-----------------------------------------------------------------------------
(* Properties. *)

ImportTypeOK ==
    /\ \A i \in 1..Len(accounts) : accounts[i] \in Account
    /\ job.step \in {"idle", "decided", "rows", "done"}
    /\ job.next \in 1..(MaxSourceRows + 1)
    /\ raced \in BOOLEAN

\* An import that answers an error has changed nothing since its transaction
\* began ("No partial changes were saved"), and one that answers 200 has
\* accounted for every row it read.
ImportIsAllOrNothing ==
    job.step = "done" =>
        IF job.answer = 200
        THEN LET t == job.totals
             IN t.inserted + t.updated + t.skipped + t.invalid + t.failed = Len(job.request.rows)
        ELSE job.undo # INone => accounts = job.undo

\* Two accounts never get the same upstream id from an import, whatever rows
\* the source repeats, unless the user forced an insert or a login stored an
\* account after the import had decided.
ImportedIdsAreUnique ==
    \/ raced
    \/ job.request # INone /\ job.request.override # INone
    \/ DistinctIds(accounts)

\* What the preview promised is what happens: without overrides every row
\* previewed as new or update is written, unless its statement failed or the
\* preview had asked for a key that was not given.
PreviewIsKept ==
    (job.step = "done" /\ job.answer = 200 /\ job.request.override = INone) =>
        /\ job.totals.skipped = job.preview["skip"]
        /\ job.totals.invalid = job.preview["invalid"]
        /\ job.totals.inserted + job.totals.updated + job.totals.failed
             = job.preview["new"] + job.preview["update"]
        /\ \A i \in 1..Len(job.request.rows) :
             job.candidates[i].action \in {"new", "update"} =>
                 \/ job.request.rows[i].token \in {"plain", "sealed"}
                 \/ job.request.key \in {INone, "right"}

\* A pinned account is an active one: an import that pauses or blocks an
\* account also releases its pin.
PinnedIsActive == PinsAreActive(accounts)

\* An import does what its preview said, all of it or nothing, and leaves a
\* table the rest of the program can use.
ImportSafety ==
    /\ ImportTypeOK
    /\ ImportIsAllOrNothing
    /\ ImportedIdsAreUnique
    /\ PreviewIsKept
    /\ PinnedIsActive
=============================================================================
