----------------------------- MODULE RaftStorage -----------------------------
(***************************************************************************)
(* The storage under the Raft library: SqliteRaftStorage (the raft_log and *)
(* raft_committed tables and the start index in raft_meta) and the state   *)
(* machine that keeps the committed payloads in memory.  Changes of more   *)
(* than one statement run in a transaction (raftTx) under the storage      *)
(* mutex; any statement may fail, and the process may crash at any point.  *)
(* Which calls the library makes is modelled from its contract: it never   *)
(* overwrites what it has committed and packs are not empty.               *)
(***************************************************************************)
EXTENDS Naturals, Sequences, FiniteSets, FiniteSetsExt

CONSTANTS
    Entries,      \* log entries
    MaxIndex,     \* bound: the largest log index
    MaxPack       \* bound: entries in one pack

ASSUME RaftStorageAssumption == {MaxIndex, MaxPack} \subseteq Nat \ {0}

VARIABLES
    raftRows,      \* raft_log as committed: a partial function on the indices
    raftStart,     \* raft_meta.log_start_index as committed
    raftTx,        \* the open transaction, with its own view of both
    raftTable,     \* raft_committed: index -> payload
    payloads,      \* committed_payloads_, in memory
    commitIndex,   \* commit_index_, in memory
    committing,    \* the index whose payload is stored and not yet in memory, or 0
    raftUp         \* the process runs

raftDisk == <<raftRows, raftStart>>

raftMachine == <<raftTable, payloads, commitIndex, committing>>

raftVars == <<raftRows, raftStart, raftTx, raftTable, payloads, commitIndex, committing, raftUp>>

Empty == [j \in {} |-> 0]

NoTx == [op |-> "none", step |-> "none", index |-> 0, entries |-> <<>>, done |-> 0,
         rows |-> Empty, start |-> 0]

\* INSERT ... ON CONFLICT DO UPDATE.
Upsert(f, i, e) == [j \in DOMAIN f \union {i} |-> IF j = i THEN e ELSE f[j]]

Keep(f, S) == [j \in DOMAIN f \intersect S |-> f[j]]

NextSlot(f, first) == IF DOMAIN f = {} THEN first ELSE Max(DOMAIN f) + 1

\* What the library has committed is never overwritten.
LastCommitted == Max({0, commitIndex, committing} \union DOMAIN raftTable)

RaftInit ==
    /\ raftRows = Empty
    /\ raftStart = 1
    /\ raftTx = NoTx
    /\ raftTable = Empty
    /\ payloads = <<>>
    /\ commitIndex = 0
    /\ committing = 0
    /\ raftUp = TRUE

(***************************************************************************)
(* The log                                                                 *)
(***************************************************************************)
\* append: one statement; when it fails the call returns 0 and nothing changed.
AppendEntry(e) ==
    /\ raftUp /\ raftTx.op = "none"
    /\ NextSlot(raftRows, raftStart) <= MaxIndex
    /\ raftRows' = Upsert(raftRows, NextSlot(raftRows, raftStart), e)
    /\ UNCHANGED <<raftStart, raftTx, raftMachine, raftUp>>

\* BEGIN IMMEDIATE: the transaction sees the tables as they are.
Begin(op, step, i, es) ==
    /\ raftUp /\ raftTx.op = "none"
    /\ raftTx' = [op |-> op, step |-> step, index |-> i, entries |-> es, done |-> 0,
                  rows |-> raftRows, start |-> raftStart]
    /\ UNCHANGED <<raftDisk, raftMachine, raftUp>>

BeginWriteAt(i, e) ==
    /\ i \in raftStart..NextSlot(raftRows, raftStart)
    /\ i > LastCommitted
    /\ Begin("write_at", "delete", i, <<e>>)

BeginCompact(i) == Begin("compact", "delete", i, <<>>)

BeginApplyPack(i, es) ==
    /\ i + Len(es) - 1 <= MaxIndex
    /\ DOMAIN raftRows # {} => i \in raftStart..NextSlot(raftRows, raftStart)
    /\ Begin("apply_pack", "insert", i, es)

InTx(op, step) == raftTx.op = op /\ raftTx.step = step

\* Mutant: the rows are deleted outside the transaction.
WriteAtDeletes_Autocommit ==
    /\ InTx("write_at", "delete")
    /\ raftRows' = Keep(raftRows, 1..(raftTx.index - 1))
    /\ raftTx' = [raftTx EXCEPT !.step = "insert", !.rows = raftRows']
    /\ UNCHANGED <<raftStart, raftMachine, raftUp>>

\* write_at: DELETE idx >= index, then the entry, then the start index.
WriteAtDeletes ==
    /\ InTx("write_at", "delete")
    /\ raftTx' = [raftTx EXCEPT !.step = "insert",
                                !.rows = Keep(@, 1..(raftTx.index - 1))]
    /\ UNCHANGED <<raftDisk, raftMachine, raftUp>>

WriteAtInserts ==
    /\ InTx("write_at", "insert")
    /\ raftTx' = [raftTx EXCEPT !.step = "commit",
                                !.rows = Upsert(@, raftTx.index, raftTx.entries[1]),
                                !.start = IF raftTx.index < @ THEN raftTx.index ELSE @]
    /\ UNCHANGED <<raftDisk, raftMachine, raftUp>>

\* compact: DELETE idx <= last_log_index, and the start index moves behind it.
CompactDeletes ==
    /\ InTx("compact", "delete")
    /\ raftTx' = [raftTx EXCEPT !.step = "commit",
                                !.rows = Keep(@, (raftTx.index + 1)..MaxIndex),
                                !.start = IF @ <= raftTx.index THEN raftTx.index + 1 ELSE @]
    /\ UNCHANGED <<raftDisk, raftMachine, raftUp>>

\* apply_pack: one upsert per entry of the pack ...
PackInserts ==
    /\ InTx("apply_pack", "insert")
    /\ raftTx.done < Len(raftTx.entries)
    /\ raftTx' = [raftTx EXCEPT !.done = @ + 1,
                                !.rows = Upsert(@, raftTx.index + raftTx.done,
                                                raftTx.entries[raftTx.done + 1])]
    /\ UNCHANGED <<raftDisk, raftMachine, raftUp>>

\* ... and the start index becomes the smallest index in the table.
PackSetsStart ==
    /\ InTx("apply_pack", "insert")
    /\ raftTx.done = Len(raftTx.entries)
    /\ raftTx' = [raftTx EXCEPT !.step = "commit", !.start = Min(DOMAIN raftTx.rows)]
    /\ UNCHANGED <<raftDisk, raftMachine, raftUp>>

CommitTx ==
    /\ raftTx.step = "commit"
    /\ raftRows' = raftTx.rows
    /\ raftStart' = raftTx.start
    /\ raftTx' = NoTx
    /\ UNCHANGED <<raftMachine, raftUp>>

\* A statement or COMMIT fails: ROLLBACK.  write_at and apply_pack return
\* nothing, so the caller does not learn of it.
RollbackTx ==
    /\ raftTx.op # "none"
    /\ raftTx' = NoTx
    /\ UNCHANGED <<raftDisk, raftMachine, raftUp>>

\* log_entries: nothing at all unless every index asked for has its row.
Readable(lo, hi) == \A i \in lo..(hi - 1) : i \in DOMAIN raftRows

(***************************************************************************)
(* The state machine                                                       *)
(***************************************************************************)
\* commit stores the payload first ...
StoreCommitted ==
    /\ raftUp /\ raftTx.op = "none" /\ committing = 0
    /\ commitIndex + 1 \in DOMAIN raftRows
    /\ raftTable' = Upsert(raftTable, commitIndex + 1, raftRows[commitIndex + 1])
    /\ committing' = commitIndex + 1
    /\ UNCHANGED <<raftDisk, raftTx, payloads, commitIndex, raftUp>>

\* ... and then appends it in memory and advances the commit index.
ApplyCommitted ==
    /\ committing # 0
    /\ payloads' = Append(payloads, raftTable[committing])
    /\ commitIndex' = committing
    /\ committing' = 0
    /\ UNCHANGED <<raftDisk, raftTx, raftTable, raftUp>>

\* A snapshot from another node: only the commit index in memory moves.
ApplySnapshot(i) ==
    /\ raftUp /\ committing = 0 /\ i > commitIndex
    /\ commitIndex' = i
    /\ UNCHANGED <<raftDisk, raftTx, raftTable, payloads, committing, raftUp>>

\* The process dies: memory is gone, SQLite rolls an open transaction back.
CrashRaft ==
    /\ raftUp
    /\ raftUp' = FALSE
    /\ raftTx' = NoTx
    /\ payloads' = <<>>
    /\ commitIndex' = 0
    /\ committing' = 0
    /\ UNCHANGED <<raftDisk, raftTable>>

\* The k-th of the indices: k of them come up to it.
Ranked(indices, k) == {j \in indices : Cardinality({i \in indices : i <= j}) = k}

InLogOrder(table) ==
    [k \in 1..Cardinality(DOMAIN table) |-> table[CHOOSE j \in Ranked(DOMAIN table, k) : TRUE]]

\* SELECT payload FROM raft_committed ORDER BY log_idx.
LoadAllCommitted == InLogOrder(raftTable)

\* SELECT MAX(log_idx), or 0.
RecoveredIndex == Max({0} \union DOMAIN raftTable)

\* Mutant: the payloads are recovered and the commit index is not.
RestartRaft_NoIndex ==
    /\ ~raftUp
    /\ raftUp' = TRUE
    /\ payloads' = LoadAllCommitted
    /\ commitIndex' = 0
    /\ UNCHANGED <<raftDisk, raftTx, raftTable, committing>>

\* start(): the storage is opened and the state machine recovers from it.
RestartRaft ==
    /\ ~raftUp
    /\ raftUp' = TRUE
    /\ payloads' = LoadAllCommitted
    /\ commitIndex' = RecoveredIndex
    /\ UNCHANGED <<raftDisk, raftTx, raftTable, committing>>

Packs == UNION {[1..n -> Entries] : n \in 1..MaxPack}

RaftNext ==
    \/ \E e \in Entries : AppendEntry(e)
    \/ \E i \in 1..MaxIndex, e \in Entries : BeginWriteAt(i, e)
    \/ \E i \in 1..MaxIndex : BeginCompact(i)
    \/ \E i \in 1..MaxIndex, es \in Packs : BeginApplyPack(i, es)
    \/ WriteAtDeletes \/ WriteAtInserts
    \/ CompactDeletes
    \/ PackInserts \/ PackSetsStart
    \/ CommitTx \/ RollbackTx
    \/ StoreCommitted \/ ApplyCommitted
    \/ \E i \in 1..MaxIndex : ApplySnapshot(i)
    \/ CrashRaft \/ RestartRaft

RaftSpec == RaftInit /\ [][RaftNext]_raftVars

(***************************************************************************)
(* Properties                                                              *)
(***************************************************************************)
RaftTypeOK ==
    /\ DOMAIN raftRows \subseteq 1..MaxIndex
    /\ \A i \in DOMAIN raftRows : raftRows[i] \in Entries
    /\ raftStart \in 1..(MaxIndex + 1)
    /\ DOMAIN raftTable \subseteq 1..MaxIndex
    /\ {commitIndex, committing} \subseteq 0..MaxIndex
    /\ raftUp \in BOOLEAN

\* The log read back, after any failure or crash, has no hole: log_entries over
\* start_index..next_slot answers every entry and never nothing, and no entry
\* is hidden below the start index.
LogHasNoHoles ==
    /\ Readable(raftStart, NextSlot(raftRows, raftStart))
    /\ \A i \in DOMAIN raftRows : i >= raftStart

\* Outside of a commit in progress the payloads in memory are those of the
\* table, once each and in log order, whatever crashes came before: a restart
\* neither loses a stored commit nor has it committed twice.
PayloadsMatchTable ==
    raftUp /\ committing = 0 => payloads = LoadAllCommitted

\* What is read back after any crash: a log without holes and the payloads of
\* the stored commits.
RaftSafety == RaftTypeOK /\ LogHasNoHoles /\ PayloadsMatchTable

\* The storage implements the abstract log: every transaction is one
\* indivisible step of it, and a rollback, a crash or a restart is none.
Log == INSTANCE ReplicatedLog
    WITH first <- raftStart, next <- NextSlot(raftRows, raftStart), log <- raftRows

StoresTheLog == Log!LogInit /\ [][Log!LogNext]_(Log!logVars)
==============================================================================
