-------------------------- MODULE PersistentJournal --------------------------
(***************************************************************************)
(* PersistentJournal: the _sync_journal table with append (and the         *)
(* compaction it triggers), entries_after, rollback_batch, mark_applied    *)
(* and compact.  A reader follows the journal by asking for the entries    *)
(* after the last sequence number it has seen.                             *)
(***************************************************************************)
EXTENDS Naturals, FiniteSets, FiniteSetsExt

CONSTANTS
    Batches,          \* batch ids
    MaxAppends,       \* bound: entries appended
    MaxWall,          \* bound: hlc_wall
    WallModulus,      \* 2^w for the unsigned wall clock of w bits
    min_entries, check_interval_entries, retention_ms, min_applied_value,
    ReadLimit         \* the limit of entries_after

ASSUME JournalAssumption ==
    /\ {MaxAppends, check_interval_entries, min_entries, ReadLimit} \subseteq Nat \ {0}
    /\ {MaxWall, retention_ms, min_applied_value} \subseteq Nat
    /\ WallModulus \in Nat /\ MaxWall + retention_ms < WallModulus

VARIABLES
    jrows,        \* the table: [seq, wall, applied, batch, good, id]
    appended,     \* how many entries were appended: the id of the newest
    reused,       \* sequence numbers that were given out more than once
    given,        \* sequence numbers that were given out
    cursor, seen  \* the reader: last sequence number, ids of what it was given

journalVars == <<jrows, appended, reused, given, cursor, seen>>

Seqs(R) == {r.seq : r \in R}

JournalInit ==
    /\ jrows = {}
    /\ appended = 0
    /\ reused = {} /\ given = {}
    /\ cursor = 0 /\ seen = {}

\* seq is an INTEGER PRIMARY KEY without AUTOINCREMENT: one more than the largest
\* in the table, so a number is given out again once the newest rows are gone.
NextSeq == Max(Seqs(jrows) \union {0}) + 1

MaxAcknowledgedSeq(R) == Max(Seqs({r \in R : r.applied >= min_applied_value}) \union {0})

Compacted(R, cutoff, ack) == {r \in R : ~(r.wall < cutoff /\ r.seq <= ack)}

CutoffWall_Wraps(wall) == (WallModulus + wall - retention_ms) % WallModulus

CutoffWall(wall) == IF wall > retention_ms THEN wall - retention_ms ELSE 0

\* The compaction append runs on every check_interval_entries-th number once the
\* table is large enough and something was acknowledged.
AutoCompacted(R, e) ==
    IF /\ e.seq % check_interval_entries = 0
       /\ Cardinality(R) >= min_entries
       /\ MaxAcknowledgedSeq(R) > 0
    THEN Compacted(R, CutoffWall(e.wall), MaxAcknowledgedSeq(R))
    ELSE R

\* The entry is inserted; compaction is a statement of its own and may fail.
JournalAppend(wall, applied, batch) ==
    LET e == [seq |-> NextSeq, wall |-> wall, applied |-> applied, batch |-> batch,
              good |-> TRUE, id |-> appended + 1]
    IN  /\ appended < MaxAppends
        /\ jrows' \in {jrows \union {e}, AutoCompacted(jrows \union {e}, e)}
        /\ appended' = appended + 1
        /\ given' = given \union {e.seq}
        /\ reused' = IF e.seq \in given THEN reused \union {e.seq} ELSE reused
        /\ UNCHANGED <<cursor, seen>>

RollbackBatch(b) ==
    /\ jrows' = {r \in jrows : r.batch # b}
    /\ UNCHANGED <<appended, reused, given, cursor, seen>>

MarkApplied(s, v) ==
    /\ jrows' = {IF r.seq = s THEN [r EXCEPT !.applied = v] ELSE r : r \in jrows}
    /\ UNCHANGED <<appended, reused, given, cursor, seen>>

Compact(cutoff, ack) ==
    /\ jrows' = Compacted(jrows, cutoff, ack)
    /\ UNCHANGED <<appended, reused, given, cursor, seen>>

\* A row's contents no longer match its checksum.
RowDecays(s) ==
    /\ jrows' = {IF r.seq = s THEN [r EXCEPT !.good = FALSE] ELSE r : r \in jrows}
    /\ UNCHANGED <<appended, reused, given, cursor, seen>>

EntriesAfter_SkipsDecayed(c) ==
    LET page == {r \in jrows : r.seq > c
                                 /\ Cardinality({q \in jrows : q.seq \in c + 1 .. r.seq}) <= ReadLimit}
    IN  {r \in page : r.good}

\* entries_after: at most ReadLimit rows in ascending order; one row with a wrong
\* checksum and the answer is empty.
EntriesAfter(c) ==
    LET page == {r \in jrows : r.seq > c
                                 /\ Cardinality({q \in jrows : q.seq \in c + 1 .. r.seq}) <= ReadLimit}
    IN  IF \E r \in page : ~r.good THEN {} ELSE page

ReaderReads ==
    /\ EntriesAfter(cursor) # {}
    /\ cursor' = Max(Seqs(EntriesAfter(cursor)))
    /\ seen' = seen \union {r.id : r \in EntriesAfter(cursor)}
    /\ UNCHANGED <<jrows, appended, reused, given>>

JournalNext ==
    \/ \E wall \in 0..MaxWall, applied \in 1..2, b \in Batches : JournalAppend(wall, applied, b)
    \/ \E b \in Batches : RollbackBatch(b)
    \/ \E s \in Seqs(jrows) : MarkApplied(s, 2) \/ RowDecays(s)
    \/ \E cutoff \in 1..MaxWall, ack \in Seqs(jrows) : Compact(cutoff, ack)
    \/ ReaderReads

JournalSpec == JournalInit /\ [][JournalNext]_journalVars

(***************************************************************************)
(* Properties                                                              *)
(***************************************************************************)
\* Rows have the columns' values and no two rows share a sequence number.
JournalTypeOK ==
    /\ \A r \in jrows :
          /\ r.seq \in given /\ r.wall \in 0..MaxWall /\ r.applied \in 1..2
          /\ r.batch \in Batches /\ r.good \in BOOLEAN /\ r.id \in 1..appended
    /\ Cardinality(Seqs(jrows)) = Cardinality(jrows)
    /\ reused \subseteq given /\ given \subseteq 1..MaxAppends
    /\ cursor \in 0..MaxAppends /\ seen \subseteq 1..appended

\* A reader that follows the journal has been given every entry at or below its
\* cursor, whatever was rolled back, compacted or damaged meanwhile, except an
\* entry whose number had been given out before (which rollback_batch and compact
\* make possible, as the table reuses the numbers of its newest rows).
OnlyReusedNumbersAreMissed ==
    \A r \in jrows : r.seq <= cursor => r.id \in seen \/ r.seq \in reused

\* The rows, the cursor and what the reader was given agree.
JournalSafety == JournalTypeOK /\ OnlyReusedNumbersAreMissed

\* The compaction behind append never takes the entry it runs for, nor one whose
\* clock is within the retention of that entry's, acknowledged or not.
AppendKeepsRecentEntries ==
    [][appended' > appended =>
         LET newest == {r \in jrows' : r.id = appended'}
         IN  /\ newest # {}
             /\ \A r \in jrows, e \in newest : r.wall + retention_ms >= e.wall => r \in jrows'
      ]_journalVars
=============================================================================
