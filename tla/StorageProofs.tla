---------------------------- MODULE StorageProofs ----------------------------
(***************************************************************************)
(* What the sync layer and the desktop keep on disk, for every value of    *)
(* the constants.                                                          *)
(*                                                                         *)
(* Raft storage: it keeps a log without holes and implements the abstract  *)
(* log of ReplicatedLog.  The invariant is StorageInv: what is on disk is  *)
(* a window of consecutive indices (WindowOnDisk), and what the open       *)
(* transaction sees is, after each of its statements, a known function of  *)
(* what is on disk (TxView), so that its COMMIT is one step of the log.    *)
(*                                                                         *)
(* Persistent journal: the numbers given out are all those up to the       *)
(* largest (GivenOK) and the reader stands on one of them (ReaderOK), so   *)
(* that a number at or below the reader's that is given out was given out  *)
(* before, and a page of the reader leaves no row out.                     *)
(*                                                                         *)
(* CRDTs: a state says nothing of the order of its updates, so the         *)
(* invariant gives every update a rank once and for all: the count that it *)
(* led to, the number of its tag, or its stamp.  A state is the function   *)
(* of its updates and their ranks that CounterGood, SetGood or             *)
(* RegisterGood says, whichever way it was merged; states of the same      *)
(* updates are therefore the same.  A counter is exact because of every    *)
(* site the updates that two states include are ordered by inclusion       *)
(* (Chain), which a save keeps if its row is the one it loaded (Loaded).   *)
(*                                                                         *)
(* Passphrase: which files and secrets there are at each point of a start  *)
(* (DeskOK), which of the two keys is where during a change (ChangeOK),    *)
(* and under which keys the stored tokens are (TokensOK).                  *)
(*                                                                         *)
(* SQL import: the totals count the rows up to the next by what was        *)
(* decided for them (TotalsOK), and the table is the one before the        *)
(* transaction, with its ids, followed by rows whose ids no account and no *)
(* earlier row has (Grows).                                                *)
(***************************************************************************)
EXTENDS RaftStorage, PersistentJournal, CrdtStore, DatabasePassphrase, SqlImport,
        FiniteSetTheorems, WellFoundedInduction, NaturalsInduction, TLAPS

-----------------------------------------------------------------------------
(* Raft storage *)

Slot == NextSlot(raftRows, raftStart)

(* The rows on disk are those of raftStart .. Slot - 1, all of them.       *)
WindowOnDisk ==
    /\ raftStart \in Nat \ {0}
    /\ Slot \in raftStart..(MaxIndex + 1)
    /\ raftRows \in [raftStart..(Slot - 1) -> Entries]

Laid(rows, i, es, n) ==
    [j \in DOMAIN rows \union i..(i + n - 1) |->
        IF j \in i..(i + n - 1) THEN es[j - i + 1] ELSE rows[j]]

WriteAtView ==
    /\ raftTx.index \in raftStart..Slot /\ raftTx.index <= MaxIndex
    /\ raftTx.entries \in [1..1 -> Entries]
    /\ \/ /\ raftTx.step = "delete"
          /\ raftTx.rows = raftRows /\ raftTx.start = raftStart
       \/ /\ raftTx.step = "insert"
          /\ raftTx.rows = Keep(raftRows, 1..(raftTx.index - 1)) /\ raftTx.start = raftStart
       \/ /\ raftTx.step = "commit"
          /\ raftTx.rows = Upsert(Keep(raftRows, 1..(raftTx.index - 1)),
                                  raftTx.index, raftTx.entries[1])
          /\ raftTx.start = raftStart

CompactView ==
    /\ raftTx.index \in 1..MaxIndex
    /\ \/ /\ raftTx.step = "delete"
          /\ raftTx.rows = raftRows /\ raftTx.start = raftStart
       \/ /\ raftTx.step = "commit"
          /\ raftTx.rows = Keep(raftRows, (raftTx.index + 1)..MaxIndex)
          /\ raftTx.start = IF raftStart <= raftTx.index THEN raftTx.index + 1 ELSE raftStart

ApplyPackView ==
    LET len == Len(raftTx.entries)
    IN  /\ raftTx.index \in 1..MaxIndex
        /\ raftTx.entries \in Packs /\ raftTx.index + len - 1 <= MaxIndex
        /\ raftStart # Slot => raftTx.index \in raftStart..Slot
        /\ raftTx.done \in 0..len
        /\ raftTx.rows = Laid(raftRows, raftTx.index, raftTx.entries, raftTx.done)
        /\ \/ raftTx.step = "insert" /\ raftTx.start = raftStart
           \/ /\ raftTx.step = "commit" /\ raftTx.done = len
              /\ raftTx.start = Min(DOMAIN raftTx.rows)

TxRecord == [op |-> raftTx.op, step |-> raftTx.step, index |-> raftTx.index,
             entries |-> raftTx.entries, done |-> raftTx.done, rows |-> raftTx.rows,
             start |-> raftTx.start]

TxView ==
    /\ raftTx = TxRecord
    /\ \/ raftTx = NoTx
       \/ raftTx.op = "write_at" /\ WriteAtView
       \/ raftTx.op = "compact" /\ CompactView
       \/ raftTx.op = "apply_pack" /\ ApplyPackView

StorageInv == WindowOnDisk /\ TxView

-----------------------------------------------------------------------------
(* Lemmas about Max, Min and NextSlot.                                     *)

(* The largest number of an interval is its end.                           *)
LEMMA MaxOfInterval ==
  ASSUME NEW a \in Nat, NEW b \in Nat, a <= b
  PROVE  Max(a..b) = b
<1>1. \E x \in a..b : \A y \in a..b : x >= y
  BY b \in a..b
<1>2. Max(a..b) \in a..b /\ \A y \in a..b : Max(a..b) >= y
  BY <1>1 DEF Max
<1> QED
  BY <1>2, b \in a..b

(* The smallest number of an interval is its beginning.                    *)
LEMMA MinOfInterval ==
  ASSUME NEW a \in Nat, NEW b \in Nat, a <= b
  PROVE  Min(a..b) = a
<1>1. \E x \in a..b : \A y \in a..b : x <= y
  BY a \in a..b
<1>2. Min(a..b) \in a..b /\ \A y \in a..b : Min(a..b) <= y
  BY <1>1 DEF Min
<1> QED
  BY <1>2, a \in a..b

(* next_slot of a table that holds the window s .. n - 1 is n.             *)
LEMMA NextSlotOfWindow ==
  ASSUME NEW s \in Nat \ {0}, NEW n \in Nat, s <= n, NEW f, DOMAIN f = s..(n - 1)
  PROVE  NextSlot(f, s) = n
<1>1. CASE s = n
  <2>1. DOMAIN f = {}
    BY <1>1
  <2> QED
    BY <1>1, <2>1 DEF NextSlot
<1>2. CASE s < n
  <2>1. n - 1 \in Nat /\ s <= n - 1
    BY <1>2
  <2>2. Max(s..(n - 1)) = n - 1
    BY <2>1, MaxOfInterval
  <2>3. DOMAIN f # {}
    BY <2>1, s \in s..(n - 1)
  <2> QED
    BY <2>2, <2>3 DEF NextSlot
<1> QED
  BY <1>1, <1>2

(* A table that holds a window of entries is one a reader finds no hole in. *)
LEMMA WindowFacts ==
  ASSUME NEW s \in Nat \ {0}, NEW n \in s..(MaxIndex + 1), raftStart' = s,
         raftRows' \in [s..(n - 1) -> Entries]
  PROVE  WindowOnDisk' /\ Slot' = n
<1>1. Slot' = n
  BY NextSlotOfWindow, RaftStorageAssumption DEF Slot
<1> QED
  BY <1>1 DEF WindowOnDisk

(* append is a step of the abstract log.                                   *)
LEMMA AppendStep ==
  ASSUME WindowOnDisk, NEW e \in Entries, AppendEntry(e)
  PROVE  WindowOnDisk' /\ Log!LogNext
<1> DEFINE s == raftStart
           n == Slot
<1>1. s \in Nat \ {0} /\ n \in s..MaxIndex /\ n + 1 \in s..(MaxIndex + 1)
  BY RaftStorageAssumption DEF WindowOnDisk, AppendEntry, Slot
<1>2. DOMAIN raftRows = s..(n - 1) /\ s..n = s..(n - 1) \union {n}
  BY <1>1 DEF WindowOnDisk
<1>3. raftRows' = [j \in s..n |-> IF j = n THEN e ELSE raftRows[j]]
  BY <1>2 DEF AppendEntry, Upsert, Slot
<1>4. raftStart' = s /\ raftRows' \in [s..((n + 1) - 1) -> Entries]
  BY <1>1, <1>2, <1>3 DEF AppendEntry, WindowOnDisk
<1>5. WindowOnDisk' /\ Slot' = n + 1
  BY <1>1, <1>4, WindowFacts
<1>6. raftRows' = Log!Over(raftRows, n, <<e>>)
  <2>1. n..(n + Len(<<e>>) - 1) = {n}
    BY <1>1
  <2>2. Log!Over(raftRows, n, <<e>>) =
           [j \in s..n |-> IF j \in {n} THEN <<e>>[j - n + 1] ELSE raftRows[j]]
    BY <1>2, <2>1 DEF Log!Over
  <2>3. \A j \in s..n : (IF j \in {n} THEN <<e>>[j - n + 1] ELSE raftRows[j])
                          = (IF j = n THEN e ELSE raftRows[j])
    BY <1>1
  <2> QED
    BY <2>2, <2>3, <1>3
<1>7. raftRows' # raftRows
  BY <1>1, <1>2, <1>3, n \in DOMAIN raftRows', n \notin DOMAIN raftRows
<1>8. Log!LogAppend(e)
  BY <1>4, <1>5, <1>6 DEF Log!LogAppend, Slot
<1> QED
  BY <1>5, <1>7, <1>8 DEF Log!LogNext

(* The COMMIT of write_at is a step of the abstract log, or changes nothing. *)
LEMMA WriteAtCommits ==
  ASSUME WindowOnDisk, WriteAtView, raftTx.step = "commit",
         raftRows' = raftTx.rows, raftStart' = raftTx.start
  PROVE  WindowOnDisk' /\ [Log!LogNext]_(Log!logVars)
<1> DEFINE s == raftStart
           n == Slot
           i == raftTx.index
           e == raftTx.entries[1]
<1>1. /\ s \in Nat \ {0} /\ i \in s..n /\ i \in 1..MaxIndex /\ e \in Entries
      /\ i + 1 \in s..(MaxIndex + 1) /\ raftStart' = s /\ n \in Nat
  BY RaftStorageAssumption DEF WindowOnDisk, WriteAtView
<1>2. DOMAIN raftRows = s..(n - 1)
  BY DEF WindowOnDisk
<1>3. DOMAIN raftRows \intersect 1..(i - 1) = s..(i - 1) /\ s..i = s..(i - 1) \union {i}
  BY <1>1, <1>2
<1>4. raftRows' = Upsert([j \in s..(i - 1) |-> raftRows[j]], i, e)
  BY <1>3 DEF WriteAtView, Keep
<1>5. raftRows' = [j \in s..i |-> IF j = i THEN e ELSE raftRows[j]]
  BY <1>1, <1>3, <1>4 DEF Upsert
<1>6. raftRows' \in [s..((i + 1) - 1) -> Entries]
  BY <1>1, <1>2, <1>5 DEF WindowOnDisk
<1>7. WindowOnDisk' /\ Slot' = i + 1
  BY <1>1, <1>6, WindowFacts
<1>8. raftRows' = Log!Over([j \in s..(i - 1) |-> raftRows[j]], i, <<e>>)
  <2>1. i..(i + Len(<<e>>) - 1) = {i}
    BY <1>1
  <2> DEFINE g == [j \in s..(i - 1) |-> raftRows[j]]
  <2>2. Log!Over(g, i, <<e>>) =
           [j \in s..i |-> IF j \in {i} THEN <<e>>[j - i + 1] ELSE g[j]]
    BY <1>3, <2>1 DEF Log!Over
  <2>3. \A j \in s..i : (IF j \in {i} THEN <<e>>[j - i + 1] ELSE g[j])
                          = (IF j = i THEN e ELSE raftRows[j])
    BY <1>1, <1>3
  <2>4. Log!Over(g, i, <<e>>) = [j \in s..i |-> IF j = i THEN e ELSE raftRows[j]]
    BY <2>2, <2>3, ZenonT(60)
  <2> QED
    BY <2>4, <1>5
<1>9. Log!LogWriteAt(i, e)
  BY <1>1, <1>7, <1>8 DEF Log!LogWriteAt, Slot
<1>10. CASE raftRows' = raftRows
  BY <1>1, <1>7, <1>10 DEF Log!logVars, Slot
<1>11. CASE raftRows' # raftRows
  BY <1>1, <1>7, <1>9, <1>11 DEF Log!LogNext
<1> QED
  BY <1>10, <1>11

(* The COMMIT of compact is a step of the abstract log, or changes nothing.  *)
LEMMA CompactCommits ==
  ASSUME WindowOnDisk, CompactView, raftTx.step = "commit",
         raftRows' = raftTx.rows, raftStart' = raftTx.start
  PROVE  WindowOnDisk' /\ [Log!LogNext]_(Log!logVars)
<1> DEFINE s == raftStart
           n == Slot
           i == raftTx.index
           t == IF s <= i THEN i + 1 ELSE s
           m == IF n <= i THEN i + 1 ELSE n
<1>1. /\ s \in Nat \ {0} /\ n \in s..(MaxIndex + 1) /\ i \in 1..MaxIndex
      /\ raftStart' = t /\ MaxIndex \in Nat
  BY RaftStorageAssumption DEF WindowOnDisk, CompactView
<1>2. DOMAIN raftRows = s..(n - 1)
  BY DEF WindowOnDisk
<1>3. t \in Nat \ {0} /\ m \in t..(MaxIndex + 1)
  BY <1>1
<1>4. /\ DOMAIN raftRows \intersect (i + 1)..MaxIndex = t..(m - 1)
      /\ {k \in DOMAIN raftRows : k > i} = t..(m - 1)
      /\ t..(m - 1) \subseteq s..(n - 1)
  BY <1>1, <1>2
<1>5. raftRows' = [j \in t..(m - 1) |-> raftRows[j]]
  BY <1>4 DEF CompactView, Keep
<1>6. raftRows' \in [t..(m - 1) -> Entries]
  BY <1>4, <1>5 DEF WindowOnDisk
<1>7. WindowOnDisk' /\ Slot' = m
  BY <1>1, <1>3, <1>6, WindowFacts
<1>8. Log!LogCompact(i)
  BY <1>1, <1>4, <1>5, <1>7 DEF Log!LogCompact, Slot
<1>9. CASE raftRows' = raftRows /\ raftStart' = raftStart
  BY <1>7, <1>9 DEF Log!logVars, Slot
<1>10. CASE ~(raftRows' = raftRows /\ raftStart' = raftStart)
  BY <1>1, <1>7, <1>8, <1>10 DEF Log!LogNext
<1> QED
  BY <1>9, <1>10

(* The COMMIT of apply_pack is a step of the abstract log, or changes        *)
(* nothing: the smallest index in the table is the old start index, or the   *)
(* first of the pack when the table was empty.                               *)
LEMMA ApplyPackCommits ==
  ASSUME WindowOnDisk, ApplyPackView, raftTx.step = "commit",
         raftRows' = raftTx.rows, raftStart' = raftTx.start
  PROVE  WindowOnDisk' /\ [Log!LogNext]_(Log!logVars)
<1> DEFINE s == raftStart
           n == Slot
           i == raftTx.index
           es == raftTx.entries
           len == Len(es)
           t == IF s = n THEN i ELSE s
           m == IF s # n /\ i + len < n THEN n ELSE i + len
<1>1. PICK k \in 1..MaxPack : es \in [1..k -> Entries]
  BY DEF ApplyPackView, Packs
<1>2. len = k /\ k \in Nat \ {0} /\ MaxIndex \in Nat
  BY <1>1, RaftStorageAssumption
<1>3. /\ s \in Nat \ {0} /\ n \in s..(MaxIndex + 1) /\ i \in 1..MaxIndex
      /\ i + len - 1 <= MaxIndex /\ (s # n => i \in s..n)
      /\ raftTx.done = len /\ raftStart' = Min(DOMAIN raftTx.rows)
  BY DEF WindowOnDisk, ApplyPackView
<1>4. DOMAIN raftRows = s..(n - 1)
  BY DEF WindowOnDisk
<1>5. t \in Nat \ {0} /\ m \in t..(MaxIndex + 1) /\ t <= m - 1 /\ m - 1 \in Nat
  BY <1>2, <1>3
<1>6. DOMAIN raftRows \union i..(i + len - 1) = t..(m - 1)
  BY <1>2, <1>3, <1>4
<1>7. raftRows' = [j \in t..(m - 1) |->
                     IF j \in i..(i + len - 1) THEN es[j - i + 1] ELSE raftRows[j]]
  BY <1>3, <1>6 DEF ApplyPackView, Laid
<1>8. \A j \in t..(m - 1) :
        (IF j \in i..(i + len - 1) THEN es[j - i + 1] ELSE raftRows[j]) \in Entries
  <2> TAKE j \in t..(m - 1)
  <2>1. CASE j \in i..(i + len - 1)
    <3>1. j - i + 1 \in 1..k
      BY <2>1, <1>2, <1>3
    <3> QED
      BY <3>1, <2>1, <1>1
  <2>2. CASE j \notin i..(i + len - 1)
    <3>1. j \in s..(n - 1)
      BY <2>2, <1>4, <1>6
    <3> QED
      BY <3>1, <2>2 DEF WindowOnDisk
  <2> QED
    BY <2>1, <2>2
<1>9. raftRows' \in [t..(m - 1) -> Entries]
  BY <1>7, <1>8
<1>10. raftStart' = t
  <2>1. DOMAIN raftTx.rows = t..(m - 1)
    BY <1>9
  <2> QED
    BY <2>1, <1>3, <1>5, MinOfInterval
<1>11. WindowOnDisk' /\ Slot' = m
  BY <1>5, <1>9, <1>10, WindowFacts
<1>12. raftRows' = Log!Over(raftRows, i, es)
  BY <1>6, <1>7 DEF Log!Over
<1>13. Log!LogInstall(i, es)
  BY <1>3, <1>10, <1>11, <1>12 DEF Log!LogInstall, Slot
<1>14. es \in Log!Packs
  BY <1>1 DEF Log!Packs
<1>15. CASE raftRows' = raftRows /\ raftStart' = raftStart
  BY <1>11, <1>15 DEF Log!logVars, Slot
<1>16. CASE ~(raftRows' = raftRows /\ raftStart' = raftStart)
  BY <1>3, <1>11, <1>13, <1>14, <1>16 DEF Log!LogNext
<1> QED
  BY <1>15, <1>16

-----------------------------------------------------------------------------
(* The tables start as an empty window.                                    *)
LEMMA InitEstablishes ==
  RaftInit => StorageInv
<1> SUFFICES ASSUME RaftInit PROVE StorageInv
  OBVIOUS
<1>1. raftStart = 1 /\ DOMAIN raftRows = {} /\ MaxIndex \in Nat
  BY RaftStorageAssumption DEF RaftInit, Empty
<1>2. Slot = 1
  BY <1>1 DEF Slot, NextSlot
<1>3. raftRows \in [1..0 -> Entries]
  BY DEF RaftInit, Empty
<1>4. WindowOnDisk
  BY <1>1, <1>2, <1>3 DEF WindowOnDisk
<1>5. TxView
  BY DEF RaftInit, TxView, TxRecord, NoTx
<1> QED
  BY <1>4, <1>5 DEF StorageInv

(* What a transaction sees is a matter of raftTx and the tables alone.     *)
LEMMA ViewUnchanged ==
  ASSUME StorageInv, UNCHANGED <<raftRows, raftStart, raftTx>>
  PROVE  StorageInv'
BY DEF StorageInv, WindowOnDisk, TxView, TxRecord, WriteAtView, CompactView, ApplyPackView, Slot

(* A step that leaves the disk alone is a stutter of the log.               *)
LEMMA DiskUnchanged ==
  ASSUME WindowOnDisk, UNCHANGED raftDisk
  PROVE  WindowOnDisk' /\ Slot' = Slot /\ UNCHANGED Log!logVars
BY DEF WindowOnDisk, raftDisk, Slot, Log!logVars

(* BEGIN IMMEDIATE starts with the tables as they are.                     *)
LEMMA BeginViews ==
  ASSUME StorageInv
  PROVE  /\ \A i \in 1..MaxIndex, e \in Entries : BeginWriteAt(i, e) => TxView'
         /\ \A i \in 1..MaxIndex : BeginCompact(i) => TxView'
         /\ \A i \in 1..MaxIndex, es \in Packs : BeginApplyPack(i, es) => TxView'
<1> USE DEF StorageInv
<1>1. ASSUME NEW i \in 1..MaxIndex, NEW e \in Entries, BeginWriteAt(i, e) PROVE TxView'
  <2>1. <<e>> \in [1..1 -> Entries]
    OBVIOUS
  <2>2. i \in raftStart..Slot /\ Slot' = Slot
    BY <1>1 DEF BeginWriteAt, Begin, raftDisk, Slot
  <2>3. raftTx' = [op |-> "write_at", step |-> "delete", index |-> i, entries |-> <<e>>,
                   done |-> 0, rows |-> raftRows, start |-> raftStart]
    BY <1>1 DEF BeginWriteAt, Begin
  <2>4. raftRows' = raftRows /\ raftStart' = raftStart /\ i <= MaxIndex
    BY <1>1, RaftStorageAssumption DEF BeginWriteAt, Begin, raftDisk
  <2>5. WriteAtView'
    BY <2>1, <2>2, <2>3, <2>4 DEF WriteAtView
  <2> QED
    BY <2>3, <2>5 DEF TxView, TxRecord
<1>2. ASSUME NEW i \in 1..MaxIndex, BeginCompact(i) PROVE TxView'
  <2>1. raftTx' = [op |-> "compact", step |-> "delete", index |-> i, entries |-> <<>>,
                   done |-> 0, rows |-> raftRows, start |-> raftStart]
    BY <1>2 DEF BeginCompact, Begin
  <2>2. raftRows' = raftRows /\ raftStart' = raftStart
    BY <1>2 DEF BeginCompact, Begin, raftDisk
  <2>3. CompactView'
    BY <2>1, <2>2 DEF CompactView
  <2> QED
    BY <2>1, <2>3 DEF TxView, TxRecord
<1>3. ASSUME NEW i \in 1..MaxIndex, NEW es \in Packs, BeginApplyPack(i, es) PROVE TxView'
  <2>1. raftTx' = [op |-> "apply_pack", step |-> "insert", index |-> i, entries |-> es,
                   done |-> 0, rows |-> raftRows, start |-> raftStart]
    BY <1>3 DEF BeginApplyPack, Begin
  <2>2. raftRows' = raftRows /\ raftStart' = raftStart /\ Slot' = Slot
    BY <1>3 DEF BeginApplyPack, Begin, raftDisk, Slot
  <2>3. Laid(raftRows, i, es, 0) = raftRows
    <3>1. i..(i + 0 - 1) = {}
      OBVIOUS
    <3> QED
      BY <3>1 DEF Laid, WindowOnDisk
  <2>4. raftStart # Slot => i \in raftStart..Slot
    <3>1. raftStart # Slot => raftStart \in DOMAIN raftRows
      BY DEF WindowOnDisk
    <3> QED
      BY <1>3, <3>1 DEF BeginApplyPack, Slot
  <2>5. Len(es) \in Nat /\ i + Len(es) - 1 <= MaxIndex
    BY <1>3 DEF BeginApplyPack, Packs
  <2>6. ApplyPackView'
    BY <2>1, <2>2, <2>3, <2>4, <2>5 DEF ApplyPackView
  <2> QED
    BY <2>1, <2>6 DEF TxView, TxRecord
<1> QED
  BY <1>1, <1>2, <1>3

(* The statements inside a transaction follow its view.                    *)
LEMMA StatementViews ==
  ASSUME StorageInv,
         WriteAtDeletes \/ WriteAtInserts \/ CompactDeletes \/ PackInserts \/ PackSetsStart
  PROVE  TxView'
<1>1. WindowOnDisk /\ TxView
  BY DEF StorageInv
<1>2. raftRows' = raftRows /\ raftStart' = raftStart /\ Slot' = Slot
  BY DEF WriteAtDeletes, WriteAtInserts, CompactDeletes, PackInserts, PackSetsStart,
         raftDisk, Slot
<1>3. raftTx = TxRecord
  BY <1>1 DEF TxView
<1>4. CASE WriteAtDeletes
  <2>1. WriteAtView /\ raftTx.op = "write_at" /\ raftTx.step = "delete"
    BY <1>1, <1>4 DEF TxView, WriteAtDeletes, InTx, NoTx
  <2>2. raftTx' = [TxRecord EXCEPT !.step = "insert", !.rows = Keep(@, 1..(raftTx.index - 1))]
    BY <1>3, <1>4 DEF WriteAtDeletes
  <2>3. WriteAtView'
    BY <2>1, <2>2, <1>2 DEF WriteAtView, TxRecord
  <2> QED
    BY <2>1, <2>2, <2>3 DEF TxView, TxRecord
<1>5. CASE WriteAtInserts
  <2>1. WriteAtView /\ raftTx.op = "write_at" /\ raftTx.step = "insert"
    BY <1>1, <1>5 DEF TxView, WriteAtInserts, InTx, NoTx
  <2>2. raftTx.start = raftStart /\ ~(raftTx.index < raftTx.start)
    BY <1>1, <2>1 DEF WriteAtView, WindowOnDisk
  <2>3. raftTx' = [TxRecord EXCEPT !.step = "commit", !.start = raftStart,
                     !.rows = Upsert(@, raftTx.index, raftTx.entries[1])]
    BY <1>3, <1>5, <2>2 DEF WriteAtInserts, TxRecord
  <2>4. WriteAtView'
    BY <2>1, <2>3, <1>2 DEF WriteAtView, TxRecord
  <2> QED
    BY <2>1, <2>3, <2>4 DEF TxView, TxRecord
<1>6. CASE CompactDeletes
  <2>1. CompactView /\ raftTx.op = "compact" /\ raftTx.step = "delete"
    BY <1>1, <1>6 DEF TxView, CompactDeletes, InTx, NoTx
  <2>2. raftTx' = [TxRecord EXCEPT !.step = "commit",
                     !.rows = Keep(@, (raftTx.index + 1)..MaxIndex),
                     !.start = IF @ <= raftTx.index THEN raftTx.index + 1 ELSE @]
    BY <1>3, <1>6 DEF CompactDeletes
  <2>3. CompactView'
    BY <2>1, <2>2, <1>2 DEF CompactView, TxRecord
  <2> QED
    BY <2>1, <2>2, <2>3 DEF TxView, TxRecord
<1>7. CASE PackInserts
  <2> DEFINE i == raftTx.index
             es == raftTx.entries
             d == raftTx.done
  <2>1. ApplyPackView /\ raftTx.op = "apply_pack" /\ raftTx.step = "insert" /\ d < Len(es)
    BY <1>1, <1>7 DEF TxView, PackInserts, InTx, NoTx
  <2>2. raftTx' = [TxRecord EXCEPT !.done = d + 1, !.rows = Upsert(@, i + d, es[d + 1])]
    BY <1>3, <1>7 DEF PackInserts
  <2>3. Len(es) \in Nat /\ d \in 0..Len(es) /\ i \in Nat /\ d + 1 \in 0..Len(es)
    BY <2>1, RaftStorageAssumption DEF ApplyPackView, Packs
  <2>4. Upsert(Laid(raftRows, i, es, d), i + d, es[d + 1]) = Laid(raftRows, i, es, d + 1)
    <3>1. /\ i..(i + (d + 1) - 1) = i..(i + d - 1) \union {i + d}
          /\ i + d \notin i..(i + d - 1)
      BY <2>3
    <3>2. DOMAIN Laid(raftRows, i, es, d) = DOMAIN raftRows \union i..(i + d - 1)
      BY DEF Laid
    <3>3. DOMAIN Laid(raftRows, i, es, d) \union {i + d}
            = DOMAIN raftRows \union i..(i + (d + 1) - 1)
      BY <3>1, <3>2
    <3>4. ASSUME NEW j \in DOMAIN raftRows \union i..(i + (d + 1) - 1)
          PROVE  (IF j = i + d THEN es[d + 1] ELSE Laid(raftRows, i, es, d)[j])
                   = (IF j \in i..(i + (d + 1) - 1) THEN es[j - i + 1] ELSE raftRows[j])
      <4>1. CASE j = i + d
        <5>1. j - i + 1 = d + 1
          BY <4>1, <2>3
        <5> QED
          BY <4>1, <5>1, <3>1
      <4>2. CASE j # i + d
        <5>1. j \in DOMAIN raftRows \union i..(i + d - 1)
          BY <4>2, <3>1, <3>4
        <5> QED
          BY <4>2, <5>1, <3>1 DEF Laid
      <4> QED
        BY <4>1, <4>2
    <3> QED
      BY <3>3, <3>4, Zenon DEF Upsert, Laid
  <2>5. raftTx'.rows = Laid(raftRows, i, es, d + 1)
    BY <2>1, <2>2, <2>4 DEF ApplyPackView, TxRecord
  <2>6. /\ raftTx'.done = d + 1 /\ raftTx'.index = i /\ raftTx'.entries = es
        /\ raftTx'.step = "insert" /\ raftTx'.start = raftTx.start /\ raftTx'.op = "apply_pack"
    BY <2>1, <2>2 DEF TxRecord
  <2>7. ApplyPackView'
    BY <2>1, <2>3, <2>5, <2>6, <1>2 DEF ApplyPackView
  <2>8. (raftTx = TxRecord)'
    BY <2>2 DEF TxRecord
  <2> QED
    BY <2>6, <2>7, <2>8 DEF TxView
<1>8. CASE PackSetsStart
  <2>1. ApplyPackView /\ raftTx.op = "apply_pack" /\ raftTx.done = Len(raftTx.entries)
    BY <1>1, <1>8 DEF TxView, PackSetsStart, InTx, NoTx
  <2>2. raftTx' = [TxRecord EXCEPT !.step = "commit", !.start = Min(DOMAIN raftTx.rows)]
    BY <1>3, <1>8 DEF PackSetsStart
  <2>3. ApplyPackView'
    BY <2>1, <2>2, <1>2 DEF ApplyPackView, TxRecord
  <2> QED
    BY <2>1, <2>2, <2>3 DEF TxView, TxRecord
<1> QED
  BY <1>4, <1>5, <1>6, <1>7, <1>8

(* COMMIT and ROLLBACK end the transaction.                                *)
LEMMA NoTxView ==
  ASSUME raftTx' = NoTx
  PROVE  TxView'
BY DEF TxView, TxRecord, NoTx

(* Every step keeps the invariant and is a step of the abstract log, or    *)
(* changes nothing of it.                                                  *)
LEMMA StepRefines ==
  ASSUME StorageInv, [RaftNext]_raftVars
  PROVE  StorageInv' /\ [Log!LogNext]_(Log!logVars)
<1>1. WindowOnDisk /\ TxView
  BY DEF StorageInv
<1>2. ASSUME NEW e \in Entries, AppendEntry(e) PROVE StorageInv' /\ [Log!LogNext]_(Log!logVars)
  <2>1. raftTx = NoTx /\ raftTx' = NoTx
    BY <1>1, <1>2 DEF AppendEntry, TxView
  <2> QED
    BY <1>1, <1>2, <2>1, AppendStep, NoTxView DEF StorageInv
<1>3. ASSUME NEW i \in 1..MaxIndex, NEW e \in Entries, BeginWriteAt(i, e)
      PROVE  StorageInv' /\ [Log!LogNext]_(Log!logVars)
  BY <1>1, <1>3, BeginViews, DiskUnchanged DEF BeginWriteAt, Begin, StorageInv
<1>4. ASSUME NEW i \in 1..MaxIndex, BeginCompact(i)
      PROVE  StorageInv' /\ [Log!LogNext]_(Log!logVars)
  BY <1>1, <1>4, BeginViews, DiskUnchanged DEF BeginCompact, Begin, StorageInv
<1>5. ASSUME NEW i \in 1..MaxIndex, NEW es \in Packs, BeginApplyPack(i, es)
      PROVE  StorageInv' /\ [Log!LogNext]_(Log!logVars)
  BY <1>1, <1>5, BeginViews, DiskUnchanged DEF BeginApplyPack, Begin, StorageInv
<1>6. CASE WriteAtDeletes \/ WriteAtInserts \/ CompactDeletes \/ PackInserts \/ PackSetsStart
  <2>1. UNCHANGED raftDisk
    BY <1>6 DEF WriteAtDeletes, WriteAtInserts, CompactDeletes, PackInserts, PackSetsStart
  <2> QED
    BY <1>1, <1>6, <2>1, StatementViews, DiskUnchanged DEF StorageInv
<1>7. CASE CommitTx
  <2>1. raftTx.step = "commit" /\ raftRows' = raftTx.rows /\ raftStart' = raftTx.start
    BY <1>7 DEF CommitTx
  <2>2. TxView'
    BY <1>7, NoTxView DEF CommitTx
  <2>3. WriteAtView \/ CompactView \/ ApplyPackView
    BY <1>1, <2>1 DEF TxView, NoTx
  <2> QED
    BY <1>1, <2>1, <2>2, <2>3, WriteAtCommits, CompactCommits, ApplyPackCommits DEF StorageInv
<1>8. CASE RollbackTx \/ CrashRaft
  <2>1. UNCHANGED raftDisk /\ raftTx' = NoTx
    BY <1>8 DEF RollbackTx, CrashRaft
  <2> QED
    BY <1>1, <2>1, NoTxView, DiskUnchanged DEF StorageInv
<1>9. CASE \/ StoreCommitted \/ ApplyCommitted \/ RestartRaft
           \/ \E i \in 1..MaxIndex : ApplySnapshot(i)
           \/ UNCHANGED raftVars
  <2>1. UNCHANGED raftDisk /\ UNCHANGED raftTx
    BY <1>9 DEF StoreCommitted, ApplyCommitted, RestartRaft, ApplySnapshot, raftVars, raftDisk
  <2>2. StorageInv'
    BY <2>1, ViewUnchanged DEF raftDisk
  <2> QED
    BY <1>1, <2>1, <2>2, DiskUnchanged
<1> QED
  BY <1>2, <1>3, <1>4, <1>5, <1>6, <1>7, <1>8, <1>9 DEF RaftNext

-----------------------------------------------------------------------------
(* The invariant holds throughout.                                         *)
LEMMA StorageInvariant ==
  RaftSpec => []StorageInv
<1>1. RaftInit => StorageInv
  BY InitEstablishes
<1>2. StorageInv /\ [RaftNext]_raftVars => StorageInv'
  BY StepRefines
<1> QED
  BY <1>1, <1>2, PTL DEF RaftSpec

(* Whatever statement fails and wherever the process dies, the log read    *)
(* back from SqliteRaftStorage has no hole and hides no entry, for any     *)
(* entries and bounds.                                                     *)
THEOREM NoHoles ==
  RaftSpec => []LogHasNoHoles
<1>1. StorageInv => LogHasNoHoles
  <2> SUFFICES ASSUME WindowOnDisk PROVE LogHasNoHoles
    BY DEF StorageInv
  <2>1. DOMAIN raftRows = raftStart..(Slot - 1)
    BY DEF WindowOnDisk
  <2>2. raftStart \in Nat /\ Slot \in Nat
    BY RaftStorageAssumption DEF WindowOnDisk
  <2>3. \A i \in raftStart..(Slot - 1) : i >= raftStart
    BY <2>2
  <2> QED
    BY <2>1, <2>3 DEF LogHasNoHoles, Readable, Slot
<1> QED
  BY <1>1, StorageInvariant, PTL

(* SqliteRaftStorage implements the abstract log: append, write_at, compact*)
(* and apply_pack take effect in one indivisible step each or not at all,  *)
(* although the last three are several statements.                         *)
THEOREM ImplementsLog ==
  RaftSpec => StoresTheLog
<1>1. RaftInit => Log!LogInit
  <2> SUFFICES ASSUME RaftInit PROVE Log!LogInit
    OBVIOUS
  <2>1. DOMAIN raftRows = {} /\ raftStart = 1 /\ raftRows = [j \in {} |-> 0]
    BY DEF RaftInit, Empty
  <2> QED
    BY <2>1 DEF Log!LogInit, NextSlot
<1>2. StorageInv /\ [RaftNext]_raftVars => [Log!LogNext]_(Log!logVars)
  BY StepRefines
<1> QED
  BY <1>1, <1>2, StorageInvariant, PTL DEF RaftSpec, StoresTheLog

-----------------------------------------------------------------------------
(* The state machine: the payloads in memory and those of the table.       *)

(* Outside of a commit the payloads are those of the table, all of whose   *)
(* indices are up to the commit index.                                     *)
Settled ==
    raftUp /\ committing = 0 =>
        payloads = LoadAllCommitted /\ \A j \in DOMAIN raftTable : j <= commitIndex

(* Within one, the payload stored last is the one that memory lacks.       *)
Storing ==
    committing # 0 =>
        /\ raftUp
        /\ \A j \in DOMAIN raftTable : j <= committing
        /\ LoadAllCommitted = Append(payloads, raftTable[committing])

(* A set of indices has a k-th one for every k up to its size.             *)
AllRanked(S) == \A k \in 1..Cardinality(S) : Ranked(S, k) # {}

MachineTyped ==
    /\ DOMAIN raftTable \subseteq 1..MaxIndex
    /\ commitIndex \in 0..MaxIndex
    /\ committing \in 0..MaxIndex
    /\ raftUp \in BOOLEAN

MachineInv == MachineTyped /\ AllRanked(DOMAIN raftTable) /\ Settled /\ Storing

(* Storing an index larger than all others leaves the ranks of the others  *)
(* as they are and gives the last rank to the new one.                     *)
LEMMA LargestRanksLast ==
  ASSUME NEW S, NEW m \in Nat, NEW n \in Nat, IsFiniteSet(S), S \subseteq Nat,
         \A j \in S : j < m, Cardinality(S) = n
  PROVE  /\ Cardinality(S \cup {m}) = n + 1
         /\ \A k \in 1..n : Ranked(S \cup {m}, k) = Ranked(S, k)
         /\ Ranked(S \cup {m}, n + 1) = {m}
<1> DEFINE R == S \cup {m}
           below(D, j) == {i \in D : i <= j}
<1>1. m \notin S
  OBVIOUS
<1>2. Cardinality(R) = n + 1
  BY <1>1, FS_AddElement
<1>3. ASSUME NEW j \in S PROVE below(R, j) = below(S, j)
  OBVIOUS
<1>4. below(R, m) = R
  <2>1. \A i \in R : i <= m
    OBVIOUS
  <2> QED
    BY <2>1
<1>5. ASSUME NEW j \in S PROVE Cardinality(below(S, j)) \in 0..n
  <2>1. below(S, j) \subseteq S
    OBVIOUS
  <2> QED
    BY <2>1, FS_Subset, FS_CardinalityType
<1>6. \A k : Ranked(R, k) = {j \in R : Cardinality(below(R, j)) = k}
  BY DEF Ranked
<1>7. \A k : Ranked(S, k) = {j \in S : Cardinality(below(S, j)) = k}
  BY DEF Ranked
<1> HIDE DEF below
<1>8. ASSUME NEW k \in 1..n PROVE Ranked(R, k) = Ranked(S, k)
  <2>1. Cardinality(below(R, m)) # k
    BY <1>2, <1>4
  <2>2. \A j \in R : Cardinality(below(R, j)) = k => j \in S /\ Cardinality(below(S, j)) = k
    BY <1>3, <2>1
  <2>3. \A j \in S : Cardinality(below(S, j)) = k => Cardinality(below(R, j)) = k
    BY <1>3
  <2> QED
    BY <1>6, <1>7, <2>2, <2>3
<1>9. Ranked(R, n + 1) = {m}
  <2>1. \A j \in S : Cardinality(below(R, j)) # n + 1
    BY <1>3, <1>5
  <2>2. Cardinality(below(R, m)) = n + 1
    BY <1>2, <1>4
  <2> QED
    BY <1>6, <2>1, <2>2
<1> QED
  BY <1>2, <1>8, <1>9

(* load_all_committed, after a row with a larger index was stored: that    *)
(* row comes last, the others as before.                                   *)
LEMMA StoredLast ==
  ASSUME NEW T, NEW m \in Nat, NEW e, IsFiniteSet(DOMAIN T), DOMAIN T \subseteq Nat,
         \A j \in DOMAIN T : j < m, AllRanked(DOMAIN T)
  PROVE  /\ InLogOrder(Upsert(T, m, e)) = Append(InLogOrder(T), e)
         /\ AllRanked(DOMAIN Upsert(T, m, e))
<1> DEFINE S == DOMAIN T
           U == Upsert(T, m, e)
           at(D, k) == CHOOSE j \in Ranked(D, k) : TRUE
           old == InLogOrder(T)
           new == InLogOrder(U)
<1>1. DOMAIN U = S \cup {m} /\ U[m] = e /\ \A j \in S : U[j] = T[j]
  BY DEF Upsert
<1>2. PICK n \in Nat : Cardinality(S) = n
  BY FS_CardinalityType
<1>3. /\ Cardinality(DOMAIN U) = n + 1
      /\ \A k \in 1..n : Ranked(DOMAIN U, k) = Ranked(S, k)
      /\ Ranked(DOMAIN U, n + 1) = {m}
  <2>1. /\ Cardinality(S \cup {m}) = n + 1
        /\ \A k \in 1..n : Ranked(S \cup {m}, k) = Ranked(S, k)
        /\ Ranked(S \cup {m}, n + 1) = {m}
    <3>1. IsFiniteSet(S) /\ S \subseteq Nat /\ \A j \in S : j < m
      OBVIOUS
    <3> HIDE DEF S, U
    <3> QED
      BY <1>2, <3>1, LargestRanksLast, ZenonT(60)
  <2> QED
    BY <1>1, <2>1
<1>4. ASSUME NEW k \in 1..n PROVE at(S, k) \in S /\ at(DOMAIN U, k) = at(S, k)
  <2>1. Ranked(S, k) # {} /\ Ranked(S, k) \subseteq S
    BY <1>2 DEF AllRanked, Ranked
  <2> QED
    BY <1>3, <2>1
<1>5. at(DOMAIN U, n + 1) = m
  BY <1>3
<1>6. old = [k \in 1..n |-> T[at(S, k)]] /\ new = [k \in 1..(n + 1) |-> U[at(DOMAIN U, k)]]
  BY <1>2, <1>3 DEF InLogOrder
<1> HIDE DEF at, old, new, U
<1>7. PICK A : old \in Seq(A) /\ e \in A /\ Len(old) = n
  <2> DEFINE A == {T[j] : j \in S} \cup {e}
  <2>1. old \in [1..n -> A] /\ e \in A
    BY <1>4, <1>6
  <2> HIDE DEF A
  <2> QED
    BY <2>1
<1>8. new = Append(old, e)
  <2>1. ASSUME NEW k \in 1..n PROVE new[k] = old[k]
    <3>1. new[k] = U[at(DOMAIN U, k)] /\ old[k] = T[at(S, k)]
      BY <1>6
    <3> QED
      BY <1>1, <1>4, <3>1
  <2>2. new[n + 1] = e
    BY <1>1, <1>5, <1>6
  <2>3. Append(old, e) \in Seq(A) /\ Len(Append(old, e)) = n + 1
    BY <1>7
  <2>4. \A k \in 1..(n + 1) : new[k] = Append(old, e)[k]
    BY <1>7, <2>1, <2>2
  <2>5. /\ DOMAIN new = 1..(n + 1) /\ new = [k \in DOMAIN new |-> new[k]]
        /\ DOMAIN Append(old, e) = 1..(n + 1)
        /\ Append(old, e) = [k \in DOMAIN Append(old, e) |-> Append(old, e)[k]]
    BY <1>6, <2>3
  <2> QED
    BY <2>4, <2>5
<1>9. AllRanked(DOMAIN U)
  BY <1>2, <1>3 DEF AllRanked
<1> QED
  BY <1>8, <1>9 DEF old, new, U

\* A bounded nonempty set of natural numbers has a greatest element, which Max
\* of the library returns.
LEMMA GreatestElement ==
    ASSUME NEW T, NEW b \in Nat, T \subseteq 0..b, T # {}
    PROVE  Max(T) \in T /\ \A y \in T : y <= Max(T)
<1> DEFINE U == {b - x : x \in T}
<1>0. \A x \in T : b - x \in Nat
  OBVIOUS
<1>1. U \subseteq Nat /\ U # {}
  BY <1>0
<1>2. IsWellFoundedOn(OpToRel(<,Nat), Nat)
  BY NatLessThanWellFounded
<1>3. PICK u \in U : \A v \in U : ~ (<<v, u>> \in OpToRel(<,Nat))
  BY <1>1, <1>2, WFMin
<1>4. \A v \in U : ~ (v < u)
  BY <1>1, <1>3 DEF OpToRel
<1>5. PICK x \in T : u = b - x
  OBVIOUS
<1>6. \A y \in T : b - y \in U
  OBVIOUS
<1>7. \A y \in T : x >= y
  BY <1>4, <1>5, <1>6
<1>8. Max(T) \in T /\ \A y \in T : Max(T) >= y
  BY <1>7 DEF Max
<1> QED BY <1>8

(* At the start memory and table are empty.                                *)
LEMMA MachineInitHolds == RaftInit => MachineInv
<1> SUFFICES ASSUME RaftInit PROVE MachineInv
  OBVIOUS
<1>1. raftTable = Empty /\ payloads = <<>> /\ commitIndex = 0 /\ committing = 0 /\ raftUp = TRUE
  BY DEF RaftInit
<1>2. DOMAIN raftTable = {} /\ Cardinality(DOMAIN raftTable) = 0
  BY <1>1, FS_EmptySet DEF Empty
<1>3. LoadAllCommitted = <<>>
  BY <1>2 DEF LoadAllCommitted, InLogOrder
<1> QED
  BY <1>1, <1>2, <1>3, RaftStorageAssumption
     DEF MachineInv, MachineTyped, AllRanked, Settled, Storing

(* A step that leaves the state machine alone.                             *)
LEMMA MachineUnchanged ==
  ASSUME MachineInv, UNCHANGED <<raftMachine, raftUp>>
  PROVE  MachineInv'
BY DEF MachineInv, MachineTyped, Settled, Storing, LoadAllCommitted, raftMachine

(* commit, snapshot, crash and restart keep memory and table in step.      *)
LEMMA MachineStep ==
  ASSUME MachineInv, StorageInv, [RaftNext]_raftVars
  PROVE  MachineInv'
<1>1. MachineTyped /\ AllRanked(DOMAIN raftTable) /\ Settled /\ Storing
  BY DEF MachineInv
<1>2. DOMAIN raftTable \subseteq Nat /\ IsFiniteSet(DOMAIN raftTable)
  <2>1. DOMAIN raftTable \subseteq 1..MaxIndex /\ 1 \in Int /\ MaxIndex \in Int
    BY <1>1, RaftStorageAssumption DEF MachineTyped
  <2>2. IsFiniteSet(1..MaxIndex)
    BY <2>1, FS_Interval
  <2> QED
    BY <2>1, <2>2, FS_Subset
<1>3. CASE StoreCommitted
  <2>1. PICK m \in Nat : m = commitIndex + 1 /\ m \in DOMAIN raftRows
    BY <1>1, <1>3, RaftStorageAssumption DEF StoreCommitted, MachineTyped
  <2>2. m \in 1..MaxIndex
    BY <2>1, RaftStorageAssumption DEF StorageInv, WindowOnDisk
  <2>3. PICK e : e = raftRows[m]
    OBVIOUS
  <2>4. /\ raftTable' = Upsert(raftTable, m, e) /\ committing' = m /\ committing = 0
        /\ raftUp /\ raftUp' = raftUp /\ payloads' = payloads /\ commitIndex' = commitIndex
    BY <1>3, <2>1, <2>3 DEF StoreCommitted
  <2>5. payloads = InLogOrder(raftTable) /\ \A j \in DOMAIN raftTable : j < m
    BY <1>1, <1>2, <2>1, <2>4 DEF Settled, LoadAllCommitted, MachineTyped
  <2>6. InLogOrder(raftTable') = Append(payloads, e) /\ AllRanked(DOMAIN raftTable')
    BY <1>1, <1>2, <2>4, <2>5, StoredLast
  <2>7. DOMAIN raftTable' = DOMAIN raftTable \cup {m} /\ raftTable'[m] = e
    BY <2>4 DEF Upsert
  <2>8. MachineTyped'
    BY <1>1, <2>2, <2>4, <2>7 DEF MachineTyped
  <2>9. Settled'
    BY <2>2, <2>4 DEF Settled
  <2>10. Storing'
    <3>1. raftUp' /\ committing' = m /\ payloads' = payloads
      BY <2>4
    <3>2. \A j \in DOMAIN raftTable' : j <= m
      BY <1>2, <2>5, <2>7
    <3>3. LoadAllCommitted' = Append(payloads', raftTable'[m])
      BY <2>4, <2>6, <2>7 DEF LoadAllCommitted
    <3> QED
      BY <3>1, <3>2, <3>3 DEF Storing
  <2> QED
    BY <2>6, <2>8, <2>9, <2>10 DEF MachineInv
<1>4. CASE ApplyCommitted
  <2>1. /\ committing # 0 /\ payloads' = Append(payloads, raftTable[committing])
        /\ commitIndex' = committing /\ committing' = 0 /\ raftTable' = raftTable
        /\ raftUp' = raftUp
    BY <1>4 DEF ApplyCommitted
  <2>2. payloads' = LoadAllCommitted' /\ \A j \in DOMAIN raftTable : j <= committing
    BY <1>1, <2>1 DEF Storing, LoadAllCommitted
  <2>3. MachineTyped' /\ AllRanked(DOMAIN raftTable')
    BY <1>1, <2>1, RaftStorageAssumption DEF MachineTyped
  <2>4. Settled' /\ Storing'
    BY <2>1, <2>2 DEF Settled, Storing
  <2> QED
    BY <2>3, <2>4 DEF MachineInv
<1>5. ASSUME NEW i \in 1..MaxIndex, ApplySnapshot(i) PROVE MachineInv'
  BY <1>1, <1>2, <1>5, RaftStorageAssumption
     DEF MachineInv, MachineTyped, Settled, Storing, ApplySnapshot, LoadAllCommitted
<1>6. CASE CrashRaft
  <2>1. raftUp' = FALSE /\ commitIndex' = 0 /\ committing' = 0 /\ raftTable' = raftTable
    BY <1>6 DEF CrashRaft
  <2>2. MachineTyped' /\ AllRanked(DOMAIN raftTable')
    <3>1. 0 \in 0..MaxIndex
      BY RaftStorageAssumption
    <3> QED
      BY <1>1, <2>1, <3>1 DEF MachineTyped
  <2>3. Settled' /\ Storing'
    BY <2>1 DEF Settled, Storing
  <2> QED
    BY <2>2, <2>3 DEF MachineInv
<1>7. CASE RestartRaft
  <2>1. committing = 0
    BY <1>1, <1>7 DEF Storing, RestartRaft
  <2>2. {0} \cup DOMAIN raftTable \subseteq 0..MaxIndex
    BY <1>1, RaftStorageAssumption DEF MachineTyped
  <2>3. RecoveredIndex \in {0} \cup DOMAIN raftTable /\ \A j \in DOMAIN raftTable : j <= RecoveredIndex
    BY <2>2, GreatestElement, RaftStorageAssumption DEF RecoveredIndex
  <2> QED
    BY <1>1, <1>7, <2>1, <2>3, RaftStorageAssumption
       DEF MachineInv, MachineTyped, Settled, Storing, RestartRaft, LoadAllCommitted
<1>8. ASSUME UNCHANGED <<raftMachine, raftUp>> PROVE MachineInv'
  BY <1>8, MachineUnchanged
<1> QED
  BY <1>3, <1>4, <1>5, <1>6, <1>7, <1>8
     DEF RaftNext, raftVars, raftMachine, AppendEntry, Begin, BeginWriteAt, BeginCompact,
         BeginApplyPack, WriteAtDeletes, WriteAtInserts, CompactDeletes, PackInserts,
         PackSetsStart, CommitTx, RollbackTx

(* Whatever statement fails and wherever the process dies, also between    *)
(* storing a commit and applying it: the log has no hole, and memory holds *)
(* the payloads of the stored commits, once each and in log order.         *)
THEOREM RaftIsSafe == RaftSpec => []RaftSafety
<1>1. RaftInit => MachineInv
  BY MachineInitHolds
<1>2. StorageInv /\ MachineInv /\ [RaftNext]_raftVars => MachineInv'
  BY MachineStep
<1>3. StorageInv /\ MachineInv => RaftTypeOK /\ PayloadsMatchTable
  <2> SUFFICES ASSUME StorageInv, MachineInv PROVE RaftTypeOK /\ PayloadsMatchTable
    OBVIOUS
  <2>1. PayloadsMatchTable
    BY DEF MachineInv, Settled, PayloadsMatchTable
  <2>2. DOMAIN raftRows \subseteq 1..MaxIndex /\ raftStart \in 1..(MaxIndex + 1)
    BY RaftStorageAssumption DEF StorageInv, WindowOnDisk
  <2>3. \A i \in DOMAIN raftRows : raftRows[i] \in Entries
    BY DEF StorageInv, WindowOnDisk
  <2> QED
    BY <2>1, <2>2, <2>3 DEF MachineInv, MachineTyped, RaftTypeOK
<1> QED
  BY <1>1, <1>2, <1>3, StorageInvariant, NoHoles, PTL DEF RaftSpec, RaftSafety

-----------------------------------------------------------------------------
(* The persistent journal *)

JournalRows ==
    [seq : Nat \ {0}, wall : 0..MaxWall, applied : 1..2, batch : Batches, good : BOOLEAN, id : Nat \ {0}]

\* The rows are finitely many, each with a number that was given out and an id
\* that was appended; no two share a number.
RowsOK(R) ==
    /\ R \subseteq JournalRows /\ IsFiniteSet(R)
    /\ \A r \in R : r.seq \in given /\ r.id <= appended
    /\ \A r, q \in R : r.seq = q.seq => r = q

\* The numbers given out are all those up to the largest.
GivenOK ==
    /\ appended \in 0..MaxAppends /\ given \subseteq 1..appended /\ reused \subseteq given
    /\ \A n \in given : \A m \in 1..n : m \in given

\* The reader is at a number that was given out.
ReaderOK == cursor \in given \union {0} /\ seen \subseteq 1..appended

JournalInv == RowsOK(jrows) /\ GivenOK /\ ReaderOK /\ OnlyReusedNumbersAreMissed

\* The numbers of the rows, and the next one.
LEMMA NextSeqIs ==
    ASSUME RowsOK(jrows), GivenOK
    PROVE  /\ NextSeq \in 1..(appended + 1) /\ \A r \in jrows : r.seq < NextSeq
           /\ NextSeq - 1 \in given \union {0}
<1> DEFINE T == Seqs(jrows) \union {0}
<1>1. T \subseteq given \union {0} /\ T # {} /\ \A r \in jrows : r.seq \in T
  BY DEF RowsOK, Seqs
<1>2. T \subseteq 0..appended /\ appended \in Nat
  <2>1. appended \in Nat /\ given \subseteq 1..appended
    BY JournalAssumption DEF GivenOK
  <2>2. \A n \in given \union {0} : n \in 0..appended
    BY <2>1
  <2> HIDE DEF T
  <2> QED BY <1>1, <2>1, <2>2
<1> HIDE DEF T
<1>3. Max(T) \in T /\ \A y \in T : y <= Max(T)
  BY <1>1, <1>2, GreatestElement
<1>4. NextSeq = Max(T) + 1
  BY DEF NextSeq, T
<1>5. PICK m \in 0..appended : m = Max(T)
  BY <1>2, <1>3
<1>6. \A r \in jrows : r.seq \in 0..appended /\ r.seq <= m
  BY <1>1, <1>2, <1>3, <1>5
<1>7. NextSeq = m + 1 /\ m \in given \union {0}
  BY <1>1, <1>3, <1>4, <1>5
<1> QED BY <1>2, <1>5, <1>6, <1>7

\* An empty journal, and a reader that has read nothing.
LEMMA JournalInitHolds == JournalInit => JournalInv
<1> SUFFICES ASSUME JournalInit PROVE JournalInv
  OBVIOUS
<1>1. RowsOK(jrows)
  BY FS_EmptySet DEF JournalInit, RowsOK
<1> QED BY <1>1, JournalAssumption DEF JournalInit, JournalInv, GivenOK, ReaderOK, OnlyReusedNumbersAreMissed

\* Rows go, or stay with another mark.
LEMMA RowsGoOrStay ==
    ASSUME JournalInv, RowsOK(jrows'), UNCHANGED <<appended, reused, given, cursor, seen>>,
           \A r \in jrows' : \E q \in jrows : q.seq = r.seq /\ q.id = r.id
    PROVE  JournalInv'
<1>1. RowsOK(jrows)'
  BY DEF RowsOK
<1>2. GivenOK' /\ ReaderOK'
  BY DEF JournalInv, GivenOK, ReaderOK
<1>3. OnlyReusedNumbersAreMissed'
  BY DEF JournalInv, OnlyReusedNumbersAreMissed
<1> QED BY <1>1, <1>2, <1>3 DEF JournalInv

\* Some of the rows.
LEMMA FewerRows ==
    ASSUME NEW R, RowsOK(R), NEW Q, Q \subseteq R PROVE RowsOK(Q)
<1>1. IsFiniteSet(Q)
  BY FS_Subset DEF RowsOK
<1> QED BY <1>1 DEF RowsOK

\* What compaction leaves is some of the rows.
LEMMA CompactedIsFewer ==
    /\ \A R, cutoff, ack : Compacted(R, cutoff, ack) \subseteq R
    /\ \A R, e : AutoCompacted(R, e) \subseteq R
  BY DEF Compacted, AutoCompacted

\* One row is marked as applied, or found damaged.
LEMMA MarkedRows ==
    ASSUME JournalInv, NEW s, MarkApplied(s, 2) \/ RowDecays(s)
    PROVE  JournalInv'
<1> DEFINE a(r) == IF r.seq = s THEN [r EXCEPT !.applied = 2] ELSE r
           d(r) == IF r.seq = s THEN [r EXCEPT !.good = FALSE] ELSE r
<1>1. ASSUME NEW r \in JournalRows
      PROVE  /\ a(r) \in JournalRows /\ a(r).seq = r.seq /\ a(r).id = r.id
             /\ d(r) \in JournalRows /\ d(r).seq = r.seq /\ d(r).id = r.id
  <2>1. /\ [r EXCEPT !.applied = 2] \in JournalRows
        /\ [r EXCEPT !.applied = 2].seq = r.seq /\ [r EXCEPT !.applied = 2].id = r.id
    BY DEF JournalRows
  <2>2. /\ [r EXCEPT !.good = FALSE] \in JournalRows
        /\ [r EXCEPT !.good = FALSE].seq = r.seq /\ [r EXCEPT !.good = FALSE].id = r.id
    BY DEF JournalRows
  <2> QED BY <2>1, <2>2
<1>2. /\ UNCHANGED <<appended, reused, given, cursor, seen>>
      /\ jrows' = {a(r) : r \in jrows} \/ jrows' = {d(r) : r \in jrows}
  BY DEF MarkApplied, RowDecays
<1>3. jrows \subseteq JournalRows /\ IsFiniteSet(jrows)
  BY DEF JournalInv, RowsOK
<1>4. IsFiniteSet({a(r) : r \in jrows})
  <2>1. [r \in jrows |-> a(r)] \in Surjection(jrows, {a(r) : r \in jrows})
    BY DEF Surjection
  <2> QED BY <1>3, <2>1, FS_Surjection
<1>5. IsFiniteSet({d(r) : r \in jrows})
  <2>1. [r \in jrows |-> d(r)] \in Surjection(jrows, {d(r) : r \in jrows})
    BY DEF Surjection
  <2> QED BY <1>3, <2>1, FS_Surjection
<1> HIDE DEF a, d
<1>6. RowsOK(jrows')
  <2>1. CASE jrows' = {a(r) : r \in jrows}
    BY <1>1, <1>3, <1>4, <2>1 DEF JournalInv, RowsOK
  <2>2. CASE jrows' = {d(r) : r \in jrows}
    BY <1>1, <1>3, <1>5, <2>2 DEF JournalInv, RowsOK
  <2> QED BY <1>2, <2>1, <2>2
<1>7. \A r \in jrows' : \E q \in jrows : q.seq = r.seq /\ q.id = r.id
  BY <1>1, <1>2, <1>3
<1> QED BY <1>2, <1>6, <1>7, RowsGoOrStay

\* append, with or without the compaction behind it.
LEMMA AppendKeeps ==
    ASSUME JournalInv, NEW wall \in 0..MaxWall, NEW applied \in 1..2, NEW batch \in Batches,
           JournalAppend(wall, applied, batch)
    PROVE  JournalInv'
<1> USE JournalAssumption
<1>1. PICK n \in 1..(appended + 1) : /\ n = NextSeq /\ n - 1 \in given \union {0}
                                     /\ \A r \in jrows : r.seq < n
  BY NextSeqIs DEF JournalInv
<1>2. PICK e : e = [seq |-> n, wall |-> wall, applied |-> applied, batch |-> batch,
                    good |-> TRUE, id |-> appended + 1]
  OBVIOUS
<1>3. /\ appended \in Nat /\ appended < MaxAppends /\ appended' = appended + 1
      /\ given' = given \union {n} /\ reused' = IF n \in given THEN reused \union {n} ELSE reused
      /\ cursor' = cursor /\ seen' = seen
  BY <1>1 DEF JournalAppend, JournalInv, GivenOK
<1>4. jrows' \subseteq jrows \union {e}
  <2>1. jrows' \in {jrows \union {e}, AutoCompacted(jrows \union {e}, e)}
    BY <1>1, <1>2 DEF JournalAppend
  <2> QED BY <2>1, CompactedIsFewer
<1>5. e \in JournalRows /\ e.seq = n /\ e.id = appended + 1
  BY <1>1, <1>2, <1>3 DEF JournalRows
<1>6. GivenOK'
  <2>1. \A k \in given : k \in 1..appended
    BY DEF JournalInv, GivenOK
  <2>2. given' \subseteq 1..appended' /\ appended' \in 0..MaxAppends
    BY <1>1, <1>3, <2>1
  <2>3. reused' \subseteq given'
    BY <1>3 DEF JournalInv, GivenOK
  <2>4. ASSUME NEW k \in given', NEW m \in 1..k PROVE m \in given'
    <3>1. CASE k \in given
      BY <1>3, <3>1 DEF JournalInv, GivenOK
    <3>2. CASE k = n
      <4>1. m = n \/ (m \in 1..(n - 1) /\ n - 1 # 0)
        BY <1>1, <1>3, <2>4, <3>2
      <4> QED BY <1>1, <1>3, <4>1 DEF JournalInv, GivenOK
    <3> QED BY <1>3, <3>1, <3>2
  <2> QED BY <2>2, <2>3, <2>4 DEF GivenOK
<1>7. ReaderOK'
  BY <1>3 DEF JournalInv, ReaderOK
<1>8. RowsOK(jrows)'
  <2>1. IsFiniteSet(jrows \union {e})
    BY FS_AddElement DEF JournalInv, RowsOK
  <2>2. IsFiniteSet(jrows')
    BY <1>4, <2>1, FS_Subset
  <2>3. jrows' \subseteq JournalRows
    BY <1>4, <1>5 DEF JournalInv, RowsOK
  <2>4. \A r \in jrows' : r.seq \in given' /\ r.id <= appended'
    <3>1. \A r \in jrows : r.id \in Nat /\ r.id <= appended /\ r.seq \in given
      BY DEF JournalInv, RowsOK, JournalRows
    <3> QED BY <1>3, <1>4, <1>5, <3>1
  <2>5. \A r, q \in jrows' : r.seq = q.seq => r = q
    <3>1. \A r \in jrows : r.seq # n
      BY <1>1 DEF JournalInv, RowsOK, JournalRows
    <3> QED BY <1>4, <1>5, <3>1 DEF JournalInv, RowsOK
  <2> QED BY <2>2, <2>3, <2>4, <2>5 DEF RowsOK
<1>9. OnlyReusedNumbersAreMissed'
  <2> SUFFICES ASSUME NEW r \in jrows', r.seq <= cursor PROVE r.id \in seen \/ r.seq \in reused'
    BY <1>3 DEF OnlyReusedNumbersAreMissed
  <2>1. CASE r \in jrows
    BY <1>3, <2>1 DEF JournalInv, OnlyReusedNumbersAreMissed
  <2>2. CASE r = e
    <3>1. cursor \in given /\ n \in 1..cursor
      <4>1. cursor \in given \union {0} /\ given \subseteq 1..appended
        BY DEF JournalInv, ReaderOK, GivenOK
      <4> QED BY <1>1, <1>3, <1>5, <2>2, <4>1
    <3>2. n \in given
      BY <3>1 DEF JournalInv, GivenOK
    <3> QED BY <1>3, <1>5, <2>2, <3>2
  <2> QED BY <1>4, <2>1, <2>2
<1> QED BY <1>6, <1>7, <1>8, <1>9 DEF JournalInv

\* The reader takes the next page.
LEMMA ReaderKeeps == ASSUME JournalInv, ReaderReads PROVE JournalInv'
<1> USE JournalAssumption
<1> DEFINE Within(s) == {q \in jrows : q.seq \in cursor + 1 .. s}
           page == {r \in jrows : r.seq > cursor /\ Cardinality(Within(r.seq)) <= ReadLimit}
<1>1. EntriesAfter(cursor) = page /\ page # {}
  BY DEF ReaderReads, EntriesAfter
<1>2. \A r \in jrows : r.seq \in 1..appended /\ r.seq \in given /\ r.id \in 1..appended
  <2>1. \A r \in jrows : r.id \in Nat \ {0} /\ r.id <= appended /\ r.seq \in given
    BY DEF JournalInv, RowsOK, JournalRows
  <2>2. appended \in Nat /\ given \subseteq 1..appended
    BY DEF JournalInv, GivenOK
  <2>3. \A r \in jrows : r.seq \in 1..appended
    BY <2>1, <2>2
  <2>4. \A r \in jrows : r.id \in 1..appended
    BY <2>1, <2>2
  <2> QED BY <2>1, <2>3, <2>4
<1>3. appended \in Nat /\ cursor \in Nat /\ IsFiniteSet(jrows)
  <2>1. appended \in Nat /\ given \subseteq 1..appended /\ cursor \in given \union {0}
    BY DEF JournalInv, GivenOK, ReaderOK
  <2> QED BY <2>1 DEF JournalInv, RowsOK
<1>4. Seqs(page) \subseteq 0..appended /\ Seqs(page) # {}
  <2>1. page \subseteq jrows /\ \A r \in jrows : r.seq \in 0..appended
    BY <1>2, <1>3
  <2> HIDE DEF page
  <2> QED BY <1>1, <2>1 DEF Seqs
<1>5. Max(Seqs(page)) \in Seqs(page) /\ \A y \in Seqs(page) : y <= Max(Seqs(page))
  BY <1>3, <1>4, GreatestElement
<1>6. PICK m \in page : m.seq = Max(Seqs(page))
  BY <1>5 DEF Seqs
<1>7. /\ cursor' = m.seq /\ seen' = seen \union {r.id : r \in page}
      /\ UNCHANGED <<jrows, appended, reused, given>>
  BY <1>1, <1>6 DEF ReaderReads
<1>8. RowsOK(jrows)' /\ GivenOK'
  BY <1>7 DEF JournalInv, RowsOK, GivenOK
<1>9. ReaderOK'
  <2>1. seen \subseteq 1..appended
    BY DEF JournalInv, ReaderOK
  <2> QED BY <1>2, <1>7, <2>1 DEF ReaderOK
<1>10. ASSUME NEW r \in jrows, r.seq <= m.seq, r.seq > cursor PROVE r \in page
  <2>1. Within(r.seq) \subseteq Within(m.seq)
    BY <1>2, <1>3, <1>10
  <2>2. IsFiniteSet(Within(m.seq))
    BY <1>3, FS_Subset
  <2>3. Cardinality(Within(m.seq)) <= ReadLimit
    OBVIOUS
  <2> HIDE DEF Within
  <2>4. /\ IsFiniteSet(Within(r.seq)) /\ Cardinality(Within(r.seq)) <= Cardinality(Within(m.seq))
        /\ Cardinality(Within(r.seq)) \in Nat /\ Cardinality(Within(m.seq)) \in Nat
    BY <2>1, <2>2, FS_Subset, FS_CardinalityType
  <2>5. Cardinality(Within(r.seq)) <= ReadLimit
    BY <2>3, <2>4
  <2> QED BY <1>10, <2>5
<1>11. OnlyReusedNumbersAreMissed'
  <2> SUFFICES ASSUME NEW r \in jrows, r.seq <= m.seq PROVE r.id \in seen' \/ r.seq \in reused
    BY <1>7 DEF OnlyReusedNumbersAreMissed
  <2>1. CASE r.seq <= cursor
    BY <1>7, <2>1 DEF JournalInv, OnlyReusedNumbersAreMissed
  <2>2. CASE r.seq > cursor
    <3>1. r \in page
      BY <1>10, <2>2
    <3> QED BY <1>7, <3>1
  <2> QED BY <1>2, <1>3, <2>1, <2>2
<1> QED BY <1>8, <1>9, <1>11 DEF JournalInv

\* Every step of the journal and its reader keeps the invariant.
LEMMA JournalNextKeeps == JournalInv /\ [JournalNext]_journalVars => JournalInv'
<1> SUFFICES ASSUME JournalInv, [JournalNext]_journalVars PROVE JournalInv'
  OBVIOUS
<1>1. ASSUME jrows' \subseteq jrows, UNCHANGED <<appended, reused, given, cursor, seen>> PROVE JournalInv'
  <2>1. RowsOK(jrows')
    BY <1>1, FewerRows DEF JournalInv
  <2> QED BY <1>1, <2>1, RowsGoOrStay
<1>2. ASSUME NEW b \in Batches, RollbackBatch(b) PROVE JournalInv'
  BY <1>1, <1>2 DEF RollbackBatch
<1>3. ASSUME NEW cutoff, NEW ack, Compact(cutoff, ack) PROVE JournalInv'
  BY <1>1, <1>3, CompactedIsFewer DEF Compact
<1>4. CASE UNCHANGED journalVars
  BY <1>1, <1>4 DEF journalVars
<1> QED BY <1>2, <1>3, <1>4, AppendKeeps, MarkedRows, ReaderKeeps DEF JournalNext

\* The invariant says what JournalSafety says.
LEMMA JournalInvIsSafe == JournalInv => JournalSafety
<1> SUFFICES ASSUME JournalInv PROVE JournalSafety
  OBVIOUS
<1>1. \A r \in jrows : /\ r.seq \in given /\ r.wall \in 0..MaxWall /\ r.applied \in 1..2
                       /\ r.batch \in Batches /\ r.good \in BOOLEAN /\ r.id \in 1..appended
  <2>1. \A r \in jrows : r \in JournalRows /\ r.seq \in given /\ r.id <= appended
    BY DEF JournalInv, RowsOK
  <2>2. appended \in Nat
    BY DEF JournalInv, GivenOK
  <2> QED BY <2>1, <2>2 DEF JournalRows
<1>2. Cardinality(Seqs(jrows)) = Cardinality(jrows)
  <2> DEFINE f == [r \in jrows |-> r.seq]
  <2>1. f \in [jrows -> Seqs(jrows)] /\ \A s \in Seqs(jrows) : \E r \in jrows : f[r] = s
    BY DEF Seqs
  <2>2. \A r, q \in jrows : f[r] = f[q] => r = q
    BY DEF JournalInv, RowsOK
  <2>3. f \in Bijection(jrows, Seqs(jrows))
    BY <2>1, <2>2 DEF Bijection, Injection, Surjection, IsInjective
  <2>4. ExistsBijection(jrows, Seqs(jrows))
    BY <2>3 DEF ExistsBijection
  <2> QED BY <2>4, FS_Bijection DEF JournalInv, RowsOK
<1>3. reused \subseteq given /\ given \subseteq 1..MaxAppends /\ cursor \in 0..MaxAppends /\ seen \subseteq 1..appended
  <2>1. \A n \in 1..appended : n \in 1..MaxAppends
    BY JournalAssumption DEF JournalInv, GivenOK
  <2> QED BY <2>1, JournalAssumption DEF JournalInv, GivenOK, ReaderOK
<1> QED BY <1>1, <1>2, <1>3 DEF JournalInv, JournalSafety, JournalTypeOK

\* For any appends, rollbacks, compactions and damage: rows never share a number,
\* and a reader that follows the journal misses only entries whose number had
\* been given out before.
THEOREM JournalIsSafe == JournalSpec => []JournalSafety
  BY JournalInitHolds, JournalNextKeeps, JournalInvIsSafe, PTL DEF JournalSpec

\* The compaction behind append takes neither the new entry nor one within its
\* retention, whatever the clocks and the retention are.
THEOREM AppendKeepsRecent == JournalSpec => AppendKeepsRecentEntries
<1>1. ASSUME JournalInv, [JournalNext]_journalVars, appended' > appended
      PROVE  LET newest == {r \in jrows' : r.id = appended'}
             IN  /\ newest # {}
                 /\ \A r \in jrows, e \in newest : r.wall + retention_ms >= e.wall => r \in jrows'
  <2> USE JournalAssumption
  <2>1. PICK wall \in 0..MaxWall, applied \in 1..2, b \in Batches : JournalAppend(wall, applied, b)
    BY <1>1 DEF JournalNext, RollbackBatch, MarkApplied, RowDecays, Compact, ReaderReads, journalVars,
                JournalInv, GivenOK
  <2>2. PICK e : e = [seq |-> NextSeq, wall |-> wall, applied |-> applied, batch |-> b,
                      good |-> TRUE, id |-> appended + 1]
    OBVIOUS
  <2>3. e.wall = wall /\ e.id = appended' /\ wall \in Nat /\ retention_ms \in Nat /\ appended' = appended + 1
    BY <2>1, <2>2 DEF JournalAppend
  <2>4. jrows' = jrows \union {e} \/ jrows' = AutoCompacted(jrows \union {e}, e)
    BY <2>1, <2>2 DEF JournalAppend
  <2>5. ASSUME NEW r \in jrows \union {e}, r.wall \in Nat, r.wall + retention_ms >= wall PROVE r \in jrows'
    <3>1. ~(r.wall < CutoffWall(e.wall))
      BY <2>3, <2>5 DEF CutoffWall
    <3> QED BY <2>4, <3>1 DEF AutoCompacted, Compacted
  <2>6. \A r \in jrows : r.wall \in Nat /\ r.id \in Nat /\ r.id <= appended
    BY <1>1 DEF JournalInv, RowsOK, JournalRows
  <2>7. appended \in Nat
    BY <1>1 DEF JournalInv, GivenOK
  <2>8. e \in jrows'
    BY <2>3, <2>5
  <2>9. jrows' \subseteq jrows \union {e}
    BY <2>4, CompactedIsFewer
  <2>10. \A r \in jrows' : r.id = appended' => r = e
    BY <2>3, <2>6, <2>7, <2>9
  <2> QED BY <2>3, <2>5, <2>6, <2>8, <2>10
<1>2. JournalInv /\ [JournalNext]_journalVars => [appended' > appended =>
         LET newest == {r \in jrows' : r.id = appended'}
         IN  /\ newest # {}
             /\ \A r \in jrows, e \in newest : r.wall + retention_ms >= e.wall => r \in jrows'
      ]_journalVars
  BY <1>1
<1> QED BY <1>2, JournalInitHolds, JournalNextKeeps, PTL DEF JournalSpec, AppendKeepsRecentEntries

-----------------------------------------------------------------------------
(* CRDTs *)

\* An update that was made, and the history of n of them.
Updates == [site : Sites, what : {"up", "down", "set", "add", "remove"}, element : Elements \cup {"none"}]
Histories(n) == [1..n -> Updates]

Regs == [value : Elements, stamp : Stamps]
Tags == [element : Elements, site : Sites, n : Nat]
Counts == [Sites -> Nat]

Counters == [ups : SUBSET Nat, pos : Counts, neg : Counts]
Registers == [ups : SUBSET Nat, reg : Regs \cup {NoReg}]
TagSets == [ups : SUBSET Nat, tags : SUBSET Tags, counters : Counts]

StatesOf(k) == CASE k = "counter" -> Counters [] k = "register" -> Registers [] k = "set" -> TagSets

Busy == {w \in Workers : work[w] # NoWork}
Live == sent \cup {work[w].value : w \in Busy}
Count == Cardinality(DOMAIN history)

CrdtTyped ==
    /\ kind \in {"counter", "register", "set"}
    /\ Count \in 0..MaxUpdates /\ history \in Histories(Count)
    /\ stored \in [Sites -> sent] /\ Live \subseteq StatesOf(kind)
    /\ \A v \in Live : v.ups \subseteq 1..Count
    /\ work \in [Workers -> {NoWork} \cup [value : StatesOf(kind), fresh : BOOLEAN]]
    /\ clock \in [Sites -> Stamps] /\ stamps \subseteq Stamps
    /\ torn \in BOOLEAN /\ late \in BOOLEAN

\* The updates of one site and sort among ups; m is the largest rank of S.
Of(h, ups, s, what) == {i \in ups : h[i].site = s /\ h[i].what = what}
Tops(m, S, r) == (\A i \in S : r[i] <= m) /\ (m = 0 \/ \E i \in S : r[i] = m)

\* Every update of a counter has a rank, the count it led to, and a state counts
\* as far as the highest ranked update it includes.
Ranks(n) == {r \in [1..n -> Nat] : \A i \in 1..n : r[i] \in 1..i}

Tally(c, h, ups, what, r) == \A s \in Sites : Tops(c[s], Of(h, ups, s, what), r)

CounterGood(v, h, r) == Tally(v.pos, h, v.ups, "up", r) /\ Tally(v.neg, h, v.ups, "down", r)

\* Every addition to a set has its tag, and a state has the tags of the
\* additions it includes but for the elements it includes a removal of.
TagOf(h, r, i) == [element |-> h[i].element, site |-> h[i].site, n |-> r[i]]

SetGood(v, h, r) ==
    /\ Tally(v.counters, h, v.ups, "add", r)
    /\ \A t \in v.tags : \E i \in v.ups : h[i].what = "add" /\ t = TagOf(h, r, i)
    /\ \A i \in v.ups :
          h[i].what = "add" /\ (\A j \in v.ups : h[j].what = "remove" => h[j].element # h[i].element)
             => TagOf(h, r, i) \in v.tags

\* Every setting of a register has its stamp, and a state has the value of the
\* latest one it includes.
RegisterGood(v, h, r) ==
    IF v.ups = {} THEN v.reg = NoReg
    ELSE \E i \in v.ups : /\ v.reg = [value |-> h[i].element, stamp |-> r[i]]
                          /\ \A j \in v.ups : j # i => HlcAfter(r[i], r[j])

CounterInv == \E r \in Ranks(Count) : \A v \in Live : CounterGood(v, history, r)

SetInv == \E r \in Ranks(Count) : \A v \in Live : SetGood(v, history, r)

RegisterInv ==
    /\ \A i \in 1..Count : history[i].element \in Elements
    /\ \E r \in [1..Count -> stamps] :
          /\ \A i, j \in 1..Count : i # j => r[i] # r[j]
          /\ \A v \in Live : RegisterGood(v, history, r)

Numbers(c, h, ups, what) == \A s \in Sites : c[s] = Cardinality(Of(h, ups, s, what))

Exact(v, h) == Numbers(v.pos, h, v.ups, "up") /\ Numbers(v.neg, h, v.ups, "down")

\* While no save overwrote a row it had not loaded, the updates of a site that
\* states include are linearly ordered by inclusion, and the site's row has all.
Part(h, ups, s) == {i \in ups : h[i].site = s}

Ordered(h, A, B) == \A s \in Sites : Part(h, A, s) \subseteq Part(h, B, s) \/ Part(h, B, s) \subseteq Part(h, A, s)

Chain(h) ==
    /\ \A u, v \in sent : Ordered(h, u.ups, v.ups)
    /\ \A u \in sent, s \in Sites : Part(h, u.ups, s) \subseteq Part(h, stored[s].ups, s)

\* What a worker of site s is about to save has of the other sites what some
\* state has, and of its own site no less than the row if that is still the one
\* it loaded.
FromOthers(h, ups, s) == \A q \in Sites : q # s => \E u \in sent : Part(h, ups, q) = Part(h, u.ups, q)
NotLess(h, ups, s) == Part(h, stored[s].ups, s) \subseteq Part(h, ups, s)

Loaded(h, w) ==
    /\ FromOthers(h, work[w].value.ups, SiteOf[w])
    /\ work[w].fresh => NotLess(h, work[w].value.ups, SiteOf[w])

ExactInv ==
    /\ \A v \in Live : Exact(v, history)
    /\ Chain(history)
    /\ \A w \in Busy : Loaded(history, w)

CrdtInv ==
    /\ CrdtTyped
    /\ kind = "counter" => CounterInv
    /\ kind = "counter" /\ ~torn => ExactInv
    /\ kind = "set" => SetInv
    /\ kind = "register" /\ ~late => RegisterInv

(* Merging states. *)

\* The larger of two largest ranks is the largest of both sets.
LEMMA LargerTops ==
    ASSUME NEW a \in Nat, NEW b \in Nat, NEW n \in Nat, NEW S, NEW T, S \subseteq 1..n, T \subseteq 1..n,
           NEW r \in Ranks(n), Tops(a, S, r), Tops(b, T, r)
    PROVE  Tops(Larger(a, b), S \cup T, r)
<1>1. \A i \in 1..n : r[i] \in Nat
  BY DEF Ranks
<1> QED BY <1>1 DEF Tops, Larger

\* The updates of a union.
LEMMA OfUnion ==
    ASSUME NEW h, NEW A, NEW B, NEW C, C = A \cup B, NEW s, NEW what
    PROVE  Of(h, C, s, what) = Of(h, A, s, what) \cup Of(h, B, s, what)
  BY DEF Of

\* Merged counts.
LEMMA MergeCountsTyped ==
    ASSUME NEW a \in Counts, NEW b \in Counts
    PROVE  /\ MergeCounts(a, b) \in Counts
           /\ \A s \in Sites : MergeCounts(a, b)[s] = Larger(a[s], b[s])
  BY DEF MergeCounts, Counts, Larger

\* Counts that are merged go as far as the updates of both.
LEMMA MergeTally ==
    ASSUME NEW n \in Nat, NEW h, NEW r \in Ranks(n), NEW a \in Counts, NEW b \in Counts, NEW what,
           NEW A, NEW B, A \subseteq 1..n, B \subseteq 1..n, Tally(a, h, A, what, r), Tally(b, h, B, what, r)
    PROVE  Tally(MergeCounts(a, b), h, A \cup B, what, r)
<1> SUFFICES ASSUME NEW s \in Sites PROVE Tops(MergeCounts(a, b)[s], Of(h, A \cup B, s, what), r)
  BY DEF Tally
<1>1. a[s] \in Nat /\ b[s] \in Nat
  BY DEF Counts
<1>2. Of(h, A, s, what) \subseteq 1..n /\ Of(h, B, s, what) \subseteq 1..n
  BY DEF Of
<1>3. Tops(a[s], Of(h, A, s, what), r) /\ Tops(b[s], Of(h, B, s, what), r)
  BY DEF Tally
<1>4. Tops(Larger(a[s], b[s]), Of(h, A, s, what) \cup Of(h, B, s, what), r)
  BY <1>1, <1>2, <1>3, LargerTops
<1>5. PICK C : C = A \cup B
  OBVIOUS
<1>6. Of(h, C, s, what) = Of(h, A, s, what) \cup Of(h, B, s, what)
  BY <1>5, OfUnion
<1>7. MergeCounts(a, b)[s] = Larger(a[s], b[s])
  BY MergeCountsTyped
<1> QED BY <1>4, <1>5, <1>6, <1>7

\* The parts of a merged counter.
LEMMA MergeCounterFields ==
    ASSUME NEW a \in Counters, NEW b \in Counters
    PROVE  /\ MergeCounter(a, b) \in Counters
           /\ MergeCounter(a, b).ups = a.ups \cup b.ups
           /\ MergeCounter(a, b).pos = MergeCounts(a.pos, b.pos)
           /\ MergeCounter(a, b).neg = MergeCounts(a.neg, b.neg)
<1>1. /\ a.pos \in Counts /\ a.neg \in Counts /\ b.pos \in Counts /\ b.neg \in Counts
      /\ a.ups \subseteq Nat /\ b.ups \subseteq Nat
  BY DEF Counters
<1>2. MergeCounts(a.pos, b.pos) \in Counts /\ MergeCounts(a.neg, b.neg) \in Counts
  BY <1>1, MergeCountsTyped
<1> QED BY <1>1, <1>2 DEF MergeCounter, Counters

\* A merge of counters keeps the ranks.
LEMMA MergeCounterGood ==
    ASSUME NEW n \in Nat, NEW h, NEW r \in Ranks(n), NEW a \in Counters, NEW b \in Counters,
           a.ups \subseteq 1..n, b.ups \subseteq 1..n, CounterGood(a, h, r), CounterGood(b, h, r)
    PROVE  CounterGood(MergeCounter(a, b), h, r)
<1>1. /\ a.pos \in Counts /\ a.neg \in Counts /\ b.pos \in Counts /\ b.neg \in Counts
  BY DEF Counters
<1>2. Tally(MergeCounts(a.pos, b.pos), h, a.ups \cup b.ups, "up", r)
  BY <1>1, MergeTally DEF CounterGood
<1>3. Tally(MergeCounts(a.neg, b.neg), h, a.ups \cup b.ups, "down", r)
  BY <1>1, MergeTally DEF CounterGood
<1> QED BY <1>2, <1>3, MergeCounterFields DEF CounterGood

\* The parts of a merged set.
LEMMA MergeSetFields ==
    ASSUME NEW a \in TagSets, NEW b \in TagSets
    PROVE  /\ MergeSet(a, b) \in TagSets
           /\ MergeSet(a, b).ups = a.ups \cup b.ups /\ MergeSet(a, b).tags = a.tags \cup b.tags
           /\ MergeSet(a, b).counters = MergeCounts(a.counters, b.counters)
<1>1. /\ a.counters \in Counts /\ b.counters \in Counts
      /\ a.ups \subseteq Nat /\ b.ups \subseteq Nat /\ a.tags \subseteq Tags /\ b.tags \subseteq Tags
  BY DEF TagSets
<1>2. MergeCounts(a.counters, b.counters) \in Counts
  BY <1>1, MergeCountsTyped
<1> QED BY <1>1, <1>2 DEF MergeSet, MergeTags, TagSets

\* A merge of sets keeps the tags.
LEMMA MergeSetGood ==
    ASSUME NEW n \in Nat, NEW h, NEW r \in Ranks(n), NEW a \in TagSets, NEW b \in TagSets,
           a.ups \subseteq 1..n, b.ups \subseteq 1..n, SetGood(a, h, r), SetGood(b, h, r)
    PROVE  SetGood(MergeSet(a, b), h, r)
<1> DEFINE m == MergeSet(a, b)
<1>0. /\ m.ups = a.ups \cup b.ups /\ m.tags = a.tags \cup b.tags
      /\ m.counters = MergeCounts(a.counters, b.counters)
  BY MergeSetFields
<1>1. Tally(m.counters, h, m.ups, "add", r)
  <2>1. a.counters \in Counts /\ b.counters \in Counts
    BY DEF TagSets
  <2>2. Tally(MergeCounts(a.counters, b.counters), h, a.ups \cup b.ups, "add", r)
    BY <2>1, MergeTally DEF SetGood
  <2> QED BY <1>0, <2>2
<1>2. \A t \in m.tags : \E i \in m.ups : h[i].what = "add" /\ t = TagOf(h, r, i)
  BY <1>0 DEF SetGood
<1>3. \A i \in m.ups :
          h[i].what = "add" /\ (\A j \in m.ups : h[j].what = "remove" => h[j].element # h[i].element)
             => TagOf(h, r, i) \in m.tags
  BY <1>0 DEF SetGood
<1> HIDE DEF m
<1>4. SetGood(m, h, r)
  BY <1>1, <1>2, <1>3 DEF SetGood
<1> QED BY <1>4 DEF m

\* The parts of a merged register.
LEMMA MergeRegisterFields ==
    ASSUME NEW a \in Registers, NEW b \in Registers
    PROVE  /\ MergeRegister(a, b) \in Registers
           /\ MergeRegister(a, b).ups = a.ups \cup b.ups
           /\ b.reg = NoReg => MergeRegister(a, b).reg = a.reg
           /\ b.reg # NoReg /\ a.reg = NoReg => MergeRegister(a, b).reg = b.reg
           /\ b.reg # NoReg /\ a.reg # NoReg => MergeRegister(a, b).reg = Latest(a.reg, b.reg)
<1>1. /\ a.reg \in Regs \cup {NoReg} /\ b.reg \in Regs \cup {NoReg}
      /\ a.ups \subseteq Nat /\ b.ups \subseteq Nat
  BY DEF Registers
<1>2. PICK g \in Regs \cup {NoReg} :
         g = IF b.reg = NoReg THEN a.reg ELSE IF a.reg = NoReg THEN b.reg ELSE Latest(a.reg, b.reg)
  BY <1>1 DEF Latest
<1>3. MergeRegister(a, b) = [ups |-> a.ups \cup b.ups, reg |-> g]
  BY <1>2 DEF MergeRegister
<1>4. /\ MergeRegister(a, b) \in Registers /\ MergeRegister(a, b).ups = a.ups \cup b.ups
      /\ MergeRegister(a, b).reg = g
  BY <1>1, <1>3 DEF Registers
<1> QED BY <1>2, <1>4

\* Stamps are totally ordered.
LEMMA StampOrder ==
    ASSUME NEW x \in Stamps, NEW y \in Stamps
    PROVE  /\ x = y \/ HlcAfter(x, y) \/ HlcAfter(y, x)
           /\ ~(HlcAfter(x, y) /\ HlcAfter(y, x)) /\ ~HlcAfter(x, x)
<1>1. /\ x.wall \in Nat /\ x.counter \in Nat /\ x.site \in Nat
      /\ y.wall \in Nat /\ y.counter \in Nat /\ y.site \in Nat
  BY CrdtAssumption DEF Stamps
<1>2. x.wall = y.wall /\ x.counter = y.counter /\ x.site = y.site => x = y
  BY DEF Stamps
<1> QED BY <1>1, <1>2 DEF HlcAfter

\* The order of stamps is transitive.
LEMMA StampTransitive ==
    ASSUME NEW x \in Stamps, NEW y \in Stamps, NEW z \in Stamps, HlcAfter(x, y), HlcAfter(y, z)
    PROVE  HlcAfter(x, z)
<1>1. /\ x.wall \in Nat /\ x.counter \in Nat /\ x.site \in Nat
      /\ y.wall \in Nat /\ y.counter \in Nat /\ y.site \in Nat
      /\ z.wall \in Nat /\ z.counter \in Nat /\ z.site \in Nat
  BY CrdtAssumption DEF Stamps
<1> QED BY <1>1 DEF HlcAfter

\* A state of a register is initialized once it includes an update.
LEMMA RegisterSet ==
    ASSUME NEW n \in Nat, NEW h, NEW r \in [1..n -> Stamps], NEW a \in Registers, a.ups \subseteq 1..n,
           \A i \in 1..n : h[i].element \in Elements, RegisterGood(a, h, r)
    PROVE  (a.reg = NoReg) <=> (a.ups = {})
<1>1. ASSUME NEW i \in 1..n PROVE [value |-> h[i].element, stamp |-> r[i]] # NoReg
  <2>1. h[i].element \in Elements /\ r[i] \in Stamps
    OBVIOUS
  <2>2. [value |-> h[i].element, stamp |-> r[i]] \in [value : Elements, stamp : Stamps]
    BY <2>1
  <2> QED BY <2>2, CrdtAssumption
<1> QED BY <1>1 DEF RegisterGood

\* A merge of registers keeps the latest.
LEMMA MergeRegisterGood ==
    ASSUME NEW n \in Nat, NEW h, NEW r \in [1..n -> Stamps], NEW a \in Registers, NEW b \in Registers,
           a.ups \subseteq 1..n, b.ups \subseteq 1..n, \A i \in 1..n : h[i].element \in Elements,
           \A i, j \in 1..n : i # j => r[i] # r[j], RegisterGood(a, h, r), RegisterGood(b, h, r)
    PROVE  RegisterGood(MergeRegister(a, b), h, r)
<1> DEFINE m == MergeRegister(a, b)
<1>0. m.ups = a.ups \cup b.ups
  BY MergeRegisterFields
<1>1. CASE b.ups = {}
  <2>1. b.reg = NoReg
    BY <1>1, RegisterSet
  <2>2. m.ups = a.ups /\ m.reg = a.reg
    BY <1>0, <1>1, <2>1, MergeRegisterFields
  <2> QED BY <2>2 DEF RegisterGood
<1>2. CASE b.ups # {} /\ a.ups = {}
  <2>1. b.reg # NoReg /\ a.reg = NoReg
    BY <1>2, RegisterSet
  <2>2. m.ups = b.ups /\ m.reg = b.reg
    BY <1>0, <1>2, <2>1, MergeRegisterFields
  <2> QED BY <2>2 DEF RegisterGood
<1>3. CASE b.ups # {} /\ a.ups # {}
  <2>1. b.reg # NoReg /\ a.reg # NoReg /\ m.ups # {}
    BY <1>0, <1>3, RegisterSet
  <2>2. m.reg = Latest(a.reg, b.reg)
    BY <2>1, MergeRegisterFields
  <2>3. PICK i \in a.ups : /\ a.reg = [value |-> h[i].element, stamp |-> r[i]]
                           /\ \A j \in a.ups : j # i => HlcAfter(r[i], r[j])
    BY <1>3 DEF RegisterGood
  <2>4. PICK k \in b.ups : /\ b.reg = [value |-> h[k].element, stamp |-> r[k]]
                           /\ \A j \in b.ups : j # k => HlcAfter(r[k], r[j])
    BY <1>3 DEF RegisterGood
  <2>5. \A j \in 1..n : r[j] \in Stamps
    OBVIOUS
  <2>6. i \in 1..n /\ k \in 1..n /\ a.reg.stamp = r[i] /\ b.reg.stamp = r[k]
    BY <2>3, <2>4
  <2>7. CASE HlcAfter(r[k], r[i])
    <3>1. m.reg = b.reg
      BY <2>2, <2>6, <2>7 DEF Latest
    <3>2. ASSUME NEW j \in m.ups, j # k PROVE HlcAfter(r[k], r[j])
      <4>1. CASE j \in b.ups
        BY <2>4, <3>2, <4>1
      <4>2. CASE j \in a.ups /\ j = i
        BY <2>7, <4>2
      <4>3. CASE j \in a.ups /\ j # i
        BY <2>3, <2>5, <2>6, <2>7, <4>3, StampTransitive
      <4> QED BY <1>0, <4>1, <4>2, <4>3
    <3>3. k \in m.ups
      BY <1>0
    <3> HIDE DEF m
    <3> QED BY <2>1, <2>4, <3>1, <3>2, <3>3 DEF RegisterGood, m
  <2>8. CASE ~HlcAfter(r[k], r[i])
    <3>1. m.reg = a.reg
      BY <2>2, <2>6, <2>8 DEF Latest
    <3>a. i = k \/ HlcAfter(r[i], r[k])
      BY <2>5, <2>6, <2>8, StampOrder
    <3>2. ASSUME NEW j \in m.ups, j # i PROVE HlcAfter(r[i], r[j])
      <4>1. CASE j \in a.ups
        BY <2>3, <3>2, <4>1
      <4>2. CASE j \in b.ups /\ j = k
        BY <3>a, <3>2, <4>2
      <4>3. CASE j \in b.ups /\ j # k
        BY <2>4, <2>5, <2>6, <3>a, <4>3, StampTransitive
      <4> QED BY <1>0, <4>1, <4>2, <4>3
    <3>3. i \in m.ups
      BY <1>0
    <3> HIDE DEF m
    <3> QED BY <2>1, <2>3, <3>1, <3>2, <3>3 DEF RegisterGood, m
  <2> QED BY <2>7, <2>8
<1> QED BY <1>1, <1>2, <1>3

(* Extending the history by one update. *)

\* h2 and r2 go on where h and r end.
Extends(h, r, h2, r2, n) == \A i \in 1..n : h2[i] = h[i] /\ r2[i] = r[i]

\* The updates ups and one more; tags without those of an element; the new
\* update counted at its site.
Grown(ups, more, n) == ups \subseteq 1..n /\ more = ups \cup {n + 1}
Without(T, U, e) == U = {t \in T : t.element # e}
Counted(h2, r2, n, s, what, c, d) ==
    /\ h2[n + 1].site = s /\ h2[n + 1].what = what
    /\ r2[n + 1] = c[s] + 1 /\ d = [c EXCEPT ![s] = c[s] + 1]

\* The updates of a site and sort, once there is one more.
LEMMA OfExtends ==
    ASSUME NEW n \in Nat, NEW h, NEW r, NEW h2, NEW r2, Extends(h, r, h2, r2, n),
           NEW ups, NEW more, Grown(ups, more, n), NEW s, NEW what
    PROVE  /\ Of(h, ups, s, what) \subseteq 1..n
           /\ h2[n + 1].site = s /\ h2[n + 1].what = what =>
                Of(h2, more, s, what) = Of(h, ups, s, what) \cup {n + 1}
           /\ ~(h2[n + 1].site = s /\ h2[n + 1].what = what) =>
                Of(h2, more, s, what) = Of(h, ups, s, what)
  BY DEF Of, Extends, Grown

\* The largest rank, once there is one more.
LEMMA TopsExtends ==
    ASSUME NEW n \in Nat, NEW h, NEW r \in Ranks(n), NEW h2, NEW r2, Extends(h, r, h2, r2, n),
           NEW m \in Nat, NEW S, S \subseteq 1..n, Tops(m, S, r)
    PROVE  /\ Tops(m, S, r2) /\ m <= n
           /\ r2[n + 1] = m + 1 => Tops(m + 1, S \cup {n + 1}, r2)
<1>1. \A i \in 1..n : r[i] \in 1..i /\ r[i] \in Nat
  BY DEF Ranks
<1>2. ASSUME NEW i \in S PROVE r2[i] = r[i] /\ r[i] \in Nat /\ r[i] <= n
  <2>1. i \in 1..n /\ r[i] \in 1..i
    BY <1>1
  <2>2. r2[i] = r[i]
    BY <2>1 DEF Extends
  <2> QED BY <2>1, <2>2
<1> QED BY <1>2 DEF Tops

\* Ranks, with one for the new update.
LEMMA RanksExtend ==
    ASSUME NEW n \in Nat, NEW r \in Ranks(n), NEW m \in 0..n
    PROVE  [i \in 1..(n + 1) |-> IF i = n + 1 THEN m + 1 ELSE r[i]] \in Ranks(n + 1)
<1>1. \A i \in 1..n : r[i] \in 1..i /\ r[i] \in Nat
  BY DEF Ranks
<1> QED BY <1>1 DEF Ranks

\* Counts whose updates do not go on.
LEMMA TallyStays ==
    ASSUME NEW n \in Nat, NEW h, NEW r \in Ranks(n), NEW h2, NEW r2, Extends(h, r, h2, r2, n),
           NEW c \in Counts, NEW ups, ups \subseteq 1..n, NEW what, Tally(c, h, ups, what, r)
    PROVE  Tally(c, h2, ups, what, r2)
<1> SUFFICES ASSUME NEW s \in Sites PROVE Tops(c[s], Of(h2, ups, s, what), r2)
  BY DEF Tally
<1>1. c[s] \in Nat /\ Tops(c[s], Of(h, ups, s, what), r)
  BY DEF Counts, Tally
<1>2. Of(h2, ups, s, what) = Of(h, ups, s, what) /\ Of(h, ups, s, what) \subseteq 1..n
  BY DEF Of, Extends
<1>3. Tops(c[s], Of(h, ups, s, what), r2)
  BY <1>1, <1>2, TopsExtends
<1> QED BY <1>2, <1>3

\* Counts whose updates go on with one of another sort.
LEMMA TallySkips ==
    ASSUME NEW n \in Nat, NEW h, NEW r \in Ranks(n), NEW h2, NEW r2, Extends(h, r, h2, r2, n),
           NEW c \in Counts, NEW ups, NEW more, Grown(ups, more, n), NEW what, Tally(c, h, ups, what, r),
           h2[n + 1].what # what
    PROVE  Tally(c, h2, more, what, r2)
<1> SUFFICES ASSUME NEW s \in Sites PROVE Tops(c[s], Of(h2, more, s, what), r2)
  BY DEF Tally
<1>1. c[s] \in Nat /\ Tops(c[s], Of(h, ups, s, what), r)
  BY DEF Counts, Tally
<1>2. Of(h2, more, s, what) = Of(h, ups, s, what) /\ Of(h, ups, s, what) \subseteq 1..n
  BY OfExtends
<1>3. Tops(c[s], Of(h, ups, s, what), r2)
  BY <1>1, <1>2, TopsExtends
<1> QED BY <1>2, <1>3

\* Counts that count one more of a site's updates.
LEMMA TallyCounts ==
    ASSUME NEW n \in Nat, NEW h, NEW r \in Ranks(n), NEW h2, NEW r2, Extends(h, r, h2, r2, n),
           NEW c \in Counts, NEW ups, NEW more, Grown(ups, more, n), NEW what, Tally(c, h, ups, what, r),
           NEW s \in Sites, NEW d, Counted(h2, r2, n, s, what, c, d)
    PROVE  Tally(d, h2, more, what, r2)
<1> SUFFICES ASSUME NEW q \in Sites PROVE Tops(d[q], Of(h2, more, q, what), r2)
  BY DEF Tally
<1>1. c[q] \in Nat /\ Tops(c[q], Of(h, ups, q, what), r) /\ Of(h, ups, q, what) \subseteq 1..n
  BY OfExtends DEF Counts, Tally
<1>2. CASE q = s
  <2>1. Of(h2, more, q, what) = Of(h, ups, q, what) \cup {n + 1}
    BY <1>2, OfExtends DEF Counted
  <2>2. d[q] = c[q] + 1
    BY <1>2 DEF Counts, Counted
  <2>3. Tops(c[q] + 1, Of(h, ups, q, what) \cup {n + 1}, r2)
    BY <1>1, <1>2, TopsExtends DEF Counted
  <2> QED BY <2>1, <2>2, <2>3
<1>3. CASE q # s
  <2>1. Of(h2, more, q, what) = Of(h, ups, q, what)
    BY <1>3, OfExtends DEF Counted
  <2>2. d[q] = c[q]
    BY <1>3 DEF Counts, Counted
  <2>3. Tops(c[q], Of(h, ups, q, what), r2)
    BY <1>1, TopsExtends
  <2> QED BY <2>1, <2>2, <2>3
<1> QED BY <1>2, <1>3

\* A counter that does not include the new update.
LEMMA CounterExtends ==
    ASSUME NEW n \in Nat, NEW h, NEW r \in Ranks(n), NEW h2, NEW r2, Extends(h, r, h2, r2, n),
           NEW v \in Counters, v.ups \subseteq 1..n, CounterGood(v, h, r)
    PROVE  CounterGood(v, h2, r2)
<1>1. v.pos \in Counts /\ v.neg \in Counts
  BY DEF Counters
<1>2. Tally(v.pos, h2, v.ups, "up", r2)
  BY <1>1, TallyStays DEF CounterGood
<1>3. Tally(v.neg, h2, v.ups, "down", r2)
  BY <1>1, TallyStays DEF CounterGood
<1> QED BY <1>2, <1>3 DEF CounterGood

\* A set that does not include the new update.
LEMMA SetExtends ==
    ASSUME NEW n \in Nat, NEW h, NEW r \in Ranks(n), NEW h2, NEW r2, Extends(h, r, h2, r2, n),
           NEW v \in TagSets, v.ups \subseteq 1..n, SetGood(v, h, r)
    PROVE  SetGood(v, h2, r2)
<1>1. Tally(v.counters, h2, v.ups, "add", r2)
  <2>1. v.counters \in Counts
    BY DEF TagSets
  <2> QED BY <2>1, TallyStays DEF SetGood
<1>2. \A i \in v.ups : h2[i] = h[i] /\ TagOf(h2, r2, i) = TagOf(h, r, i)
  BY DEF Extends, TagOf
<1>3. \A t \in v.tags : \E i \in v.ups : h2[i].what = "add" /\ t = TagOf(h2, r2, i)
  BY <1>2 DEF SetGood
<1>4. \A i \in v.ups :
          h2[i].what = "add" /\ (\A j \in v.ups : h2[j].what = "remove" => h2[j].element # h2[i].element)
             => TagOf(h2, r2, i) \in v.tags
  BY <1>2 DEF SetGood
<1> QED BY <1>1, <1>3, <1>4 DEF SetGood

\* A register that does not include the new update.
LEMMA RegisterExtends ==
    ASSUME NEW n \in Nat, NEW h, NEW r, NEW h2, NEW r2, Extends(h, r, h2, r2, n),
           NEW v \in Registers, v.ups \subseteq 1..n, RegisterGood(v, h, r)
    PROVE  RegisterGood(v, h2, r2)
<1>1. \A i \in v.ups : h2[i] = h[i] /\ r2[i] = r[i]
  BY DEF Extends
<1>2. CASE v.ups = {}
  BY <1>2 DEF RegisterGood
<1>3. CASE v.ups # {}
  <2>1. PICK i \in v.ups : /\ v.reg = [value |-> h[i].element, stamp |-> r[i]]
                           /\ \A j \in v.ups : j # i => HlcAfter(r[i], r[j])
    BY <1>3 DEF RegisterGood
  <2>2. /\ v.reg = [value |-> h2[i].element, stamp |-> r2[i]]
        /\ \A j \in v.ups : j # i => HlcAfter(r2[i], r2[j])
    BY <1>1, <2>1
  <2> QED BY <1>3, <2>2 DEF RegisterGood
<1> QED BY <1>2, <1>3

\* A counter counts one more, up or down, at the site of the update.
LEMMA CountUp ==
    ASSUME NEW n \in Nat, NEW h, NEW r \in Ranks(n), NEW h2, NEW r2, Extends(h, r, h2, r2, n),
           NEW v \in Counters, CounterGood(v, h, r),
           NEW s \in Sites, NEW u \in Counters, Grown(v.ups, u.ups, n), u.neg = v.neg,
           Counted(h2, r2, n, s, "up", v.pos, u.pos)
    PROVE  CounterGood(u, h2, r2)
<1>1. v.pos \in Counts /\ v.neg \in Counts
  BY DEF Counters
<1>a. Tally(v.pos, h, v.ups, "up", r) /\ Tally(v.neg, h, v.ups, "down", r)
  BY DEF CounterGood
<1>2. Tally(u.pos, h2, u.ups, "up", r2)
  BY <1>1, <1>a, TallyCounts
<1>3. Tally(u.neg, h2, u.ups, "down", r2)
  BY <1>1, <1>a, TallySkips DEF Counted
<1> QED BY <1>2, <1>3 DEF CounterGood

\* The same, downwards.
LEMMA CountDown ==
    ASSUME NEW n \in Nat, NEW h, NEW r \in Ranks(n), NEW h2, NEW r2, Extends(h, r, h2, r2, n),
           NEW v \in Counters, CounterGood(v, h, r),
           NEW s \in Sites, NEW u \in Counters, Grown(v.ups, u.ups, n), u.pos = v.pos,
           Counted(h2, r2, n, s, "down", v.neg, u.neg)
    PROVE  CounterGood(u, h2, r2)
<1>1. v.pos \in Counts /\ v.neg \in Counts
  BY DEF Counters
<1>a. Tally(v.pos, h, v.ups, "up", r) /\ Tally(v.neg, h, v.ups, "down", r)
  BY DEF CounterGood
<1>2. Tally(u.neg, h2, u.ups, "down", r2)
  BY <1>1, <1>a, TallyCounts
<1>3. Tally(u.pos, h2, u.ups, "up", r2)
  BY <1>1, <1>a, TallySkips DEF Counted
<1> QED BY <1>2, <1>3 DEF CounterGood

\* An addition to a set gets the site's next tag.
LEMMA AddGood ==
    ASSUME NEW n \in Nat, NEW h, NEW r \in Ranks(n), NEW h2, NEW r2, Extends(h, r, h2, r2, n),
           NEW v \in TagSets, SetGood(v, h, r),
           NEW s \in Sites, NEW u \in TagSets, Grown(v.ups, u.ups, n), u.tags = v.tags \cup {TagOf(h2, r2, n + 1)},
           Counted(h2, r2, n, s, "add", v.counters, u.counters)
    PROVE  SetGood(u, h2, r2)
<1>1. Tally(u.counters, h2, u.ups, "add", r2)
  <2>1. v.counters \in Counts
    BY DEF TagSets
  <2>2. Tally(v.counters, h, v.ups, "add", r)
    BY DEF SetGood
  <2> QED BY <2>1, <2>2, TallyCounts
<1>0. v.ups \subseteq 1..n /\ u.ups = v.ups \cup {n + 1}
  BY DEF Grown
<1>2. \A i \in v.ups : h2[i] = h[i] /\ TagOf(h2, r2, i) = TagOf(h, r, i)
  BY <1>0 DEF Extends, TagOf
<1>3. ASSUME NEW t \in u.tags PROVE \E i \in u.ups : h2[i].what = "add" /\ t = TagOf(h2, r2, i)
  <2>1. CASE t \in v.tags
    BY <1>0, <1>2, <2>1 DEF SetGood
  <2>2. CASE t = TagOf(h2, r2, n + 1)
    BY <1>0, <2>2 DEF Counted
  <2> QED BY <2>1, <2>2
<1>4. ASSUME NEW i \in u.ups, h2[i].what = "add",
             \A j \in u.ups : h2[j].what = "remove" => h2[j].element # h2[i].element
      PROVE  TagOf(h2, r2, i) \in u.tags
  <2>1. CASE i = n + 1
    BY <2>1
  <2>2. CASE i \in v.ups
    <3>1. h[i].what = "add" /\ \A j \in v.ups : h[j].what = "remove" => h[j].element # h[i].element
      BY <1>0, <1>2, <1>4, <2>2
    <3>2. TagOf(h, r, i) \in v.tags
      BY <2>2, <3>1 DEF SetGood
    <3> QED BY <1>2, <2>2, <3>2
  <2> QED BY <1>0, <2>1, <2>2
<1> QED BY <1>1, <1>3, <1>4 DEF SetGood

\* A removal erases the tags of its element and no other.
LEMMA RemoveGood ==
    ASSUME NEW n \in Nat, NEW h, NEW r \in Ranks(n), NEW h2, NEW r2, Extends(h, r, h2, r2, n),
           NEW v \in TagSets, SetGood(v, h, r),
           NEW e, h2[n + 1].what = "remove", h2[n + 1].element = e,
           NEW u \in TagSets, Grown(v.ups, u.ups, n), Without(v.tags, u.tags, e),
           u.counters = v.counters
    PROVE  SetGood(u, h2, r2)
<1>1. Tally(u.counters, h2, u.ups, "add", r2)
  <2>1. v.counters \in Counts
    BY DEF TagSets
  <2> QED BY <2>1, TallySkips DEF SetGood
<1>0. v.ups \subseteq 1..n /\ u.ups = v.ups \cup {n + 1}
  BY DEF Grown
<1>2. \A i \in v.ups : /\ h2[i] = h[i] /\ TagOf(h2, r2, i) = TagOf(h, r, i)
                       /\ TagOf(h, r, i).element = h[i].element
  BY <1>0 DEF Extends, TagOf
<1>3. \A t \in u.tags : \E i \in u.ups : h2[i].what = "add" /\ t = TagOf(h2, r2, i)
  BY <1>0, <1>2 DEF SetGood, Without
<1>4. ASSUME NEW i \in u.ups, h2[i].what = "add",
             \A j \in u.ups : h2[j].what = "remove" => h2[j].element # h2[i].element
      PROVE  TagOf(h2, r2, i) \in u.tags
  <2>1. i \in v.ups /\ h2[i].element # e
    <3>1. i # n + 1 /\ n + 1 \in u.ups
      BY <1>0, <1>4
    <3> QED BY <1>0, <1>4, <3>1
  <2>2. h[i].what = "add" /\ \A j \in v.ups : h[j].what = "remove" => h[j].element # h[i].element
    <3>1. \A j \in v.ups : j \in u.ups
      BY <1>0
    <3> QED BY <1>2, <1>4, <2>1, <3>1
  <2>3. TagOf(h, r, i) \in v.tags
    BY <2>1, <2>2 DEF SetGood
  <2> QED BY <1>2, <2>1, <2>3 DEF Without
<1> QED BY <1>1, <1>3, <1>4 DEF SetGood

\* A register is set with a stamp after the one it has.
LEMMA SetRegisterGood ==
    ASSUME NEW n \in Nat, NEW h, NEW r \in [1..n -> Stamps], NEW h2, NEW r2, Extends(h, r, h2, r2, n),
           NEW v \in Registers, v.ups \subseteq 1..n, RegisterGood(v, h, r),
           NEW stamp \in Stamps, r2[n + 1] = stamp, v.reg # NoReg => HlcAfter(stamp, v.reg.stamp),
           \A i \in 1..n : h[i].element \in Elements,
           NEW u \in Registers, u.ups = v.ups \cup {n + 1},
           u.reg = [value |-> h2[n + 1].element, stamp |-> stamp]
    PROVE  RegisterGood(u, h2, r2)
<1>1. ASSUME NEW j \in u.ups, j # n + 1 PROVE HlcAfter(r2[n + 1], r2[j])
  <2>0. j \in v.ups /\ j \in 1..n /\ r2[j] = r[j]
    BY <1>1 DEF Extends
  <2>1. PICK i \in v.ups : /\ v.reg = [value |-> h[i].element, stamp |-> r[i]]
                           /\ \A k \in v.ups : k # i => HlcAfter(r[i], r[k])
    BY <2>0 DEF RegisterGood
  <2>2. HlcAfter(stamp, r[i])
    <3>1. v.reg # NoReg /\ v.reg.stamp = r[i]
      BY <2>0, <2>1, RegisterSet
    <3> QED BY <3>1
  <2>3. CASE j = i
    BY <2>0, <2>2, <2>3
  <2>4. CASE j # i
    <3>1. HlcAfter(r[i], r[j]) /\ r[i] \in Stamps /\ r[j] \in Stamps
      BY <2>0, <2>1, <2>4
    <3> QED BY <2>0, <2>2, <3>1, StampTransitive
  <2> QED BY <2>3, <2>4
<1>2. n + 1 \in u.ups /\ u.ups # {}
  OBVIOUS
<1> QED BY <1>1, <1>2 DEF RegisterGood

(* Counters that are exact. *)

\* Updates of a history are finitely many.
LEMMA FiniteOf ==
    ASSUME NEW n \in Nat, NEW h, NEW ups, ups \subseteq 1..n, NEW s, NEW what
    PROVE  IsFiniteSet(Of(h, ups, s, what)) /\ Cardinality(Of(h, ups, s, what)) \in Nat
<1>1. IsFiniteSet(1..n)
  BY FS_Interval
<1>2. Of(h, ups, s, what) \subseteq 1..n
  BY DEF Of
<1> QED BY <1>1, <1>2, FS_Subset, FS_CardinalityType

\* Exact counts whose updates do not go on.
LEMMA NumbersExtend ==
    ASSUME NEW n \in Nat, NEW h, NEW r, NEW h2, NEW r2, Extends(h, r, h2, r2, n),
           NEW c \in Counts, NEW ups, ups \subseteq 1..n, NEW what, Numbers(c, h, ups, what)
    PROVE  Numbers(c, h2, ups, what)
<1>1. ASSUME NEW s \in Sites PROVE Of(h2, ups, s, what) = Of(h, ups, s, what)
  BY DEF Of, Extends
<1> QED BY <1>1 DEF Numbers

\* Counts whose updates go on with one of another sort.
LEMMA NumbersSkip ==
    ASSUME NEW n \in Nat, NEW h, NEW r, NEW h2, NEW r2, Extends(h, r, h2, r2, n),
           NEW c \in Counts, NEW ups, NEW more, Grown(ups, more, n), NEW what, Numbers(c, h, ups, what),
           h2[n + 1].what # what
    PROVE  Numbers(c, h2, more, what)
<1>1. ASSUME NEW s \in Sites PROVE Of(h2, more, s, what) = Of(h, ups, s, what)
  BY OfExtends
<1> QED BY <1>1 DEF Numbers

\* Counts that count one more of a site's updates.
LEMMA NumbersCount ==
    ASSUME NEW n \in Nat, NEW h, NEW r, NEW h2, NEW r2, Extends(h, r, h2, r2, n),
           NEW c \in Counts, NEW ups, NEW more, Grown(ups, more, n), NEW what, Numbers(c, h, ups, what),
           NEW s \in Sites, NEW d, Counted(h2, r2, n, s, what, c, d)
    PROVE  Numbers(d, h2, more, what)
<1> SUFFICES ASSUME NEW q \in Sites PROVE d[q] = Cardinality(Of(h2, more, q, what))
  BY DEF Numbers
<1>0. ups \subseteq 1..n
  BY DEF Grown
<1>1. c[q] \in Nat /\ c[q] = Cardinality(Of(h, ups, q, what))
  BY DEF Counts, Numbers
<1>2. CASE q = s
  <2>1. Of(h2, more, q, what) = Of(h, ups, q, what) \cup {n + 1}
    BY <1>2, OfExtends DEF Counted
  <2>2. d[q] = c[q] + 1
    BY <1>2 DEF Counts, Counted
  <2>3. n + 1 \notin Of(h, ups, q, what)
    BY <1>0 DEF Of
  <2>4. Cardinality(Of(h, ups, q, what) \cup {n + 1}) = Cardinality(Of(h, ups, q, what)) + 1
    BY <1>0, <2>3, FiniteOf, FS_AddElement
  <2> QED BY <1>1, <2>1, <2>2, <2>4
<1>3. CASE q # s
  <2>1. Of(h2, more, q, what) = Of(h, ups, q, what)
    BY <1>3, OfExtends DEF Counted
  <2>2. d[q] = c[q]
    BY <1>3 DEF Counts, Counted
  <2> QED BY <1>1, <2>1, <2>2
<1> QED BY <1>2, <1>3

\* Merged counts are exact when of every site one state has all the other has.
LEMMA NumbersMerge ==
    ASSUME NEW n \in Nat, NEW h, NEW a \in Counts, NEW b \in Counts, NEW A, NEW B, NEW what,
           A \subseteq 1..n, B \subseteq 1..n, Numbers(a, h, A, what), Numbers(b, h, B, what), Ordered(h, A, B)
    PROVE  Numbers(MergeCounts(a, b), h, A \cup B, what)
<1> SUFFICES ASSUME NEW s \in Sites PROVE MergeCounts(a, b)[s] = Cardinality(Of(h, A \cup B, s, what))
  BY DEF Numbers
<1>1. MergeCounts(a, b)[s] = Larger(a[s], b[s])
  BY MergeCountsTyped
<1>2. PICK S, T : S = Of(h, A, s, what) /\ T = Of(h, B, s, what)
  OBVIOUS
<1>3. Of(h, A \cup B, s, what) = S \cup T
  BY <1>2 DEF Of
<1>4. IsFiniteSet(S) /\ IsFiniteSet(T) /\ Cardinality(S) \in Nat /\ Cardinality(T) \in Nat
  BY <1>2, FiniteOf
<1>5. a[s] = Cardinality(S) /\ b[s] = Cardinality(T)
  BY <1>2 DEF Numbers
<1>6. S \subseteq T \/ T \subseteq S
  BY <1>2 DEF Ordered, Part, Of
<1>7. CASE S \subseteq T
  <2>1. S \cup T = T /\ Cardinality(S) <= Cardinality(T)
    BY <1>4, <1>7, FS_Subset
  <2>2. Larger(a[s], b[s]) = b[s]
    BY <1>4, <1>5, <2>1 DEF Larger
  <2> QED BY <1>1, <1>3, <1>5, <2>1, <2>2
<1>8. CASE T \subseteq S
  <2>1. S \cup T = S /\ Cardinality(T) <= Cardinality(S)
    BY <1>4, <1>8, FS_Subset
  <2>2. Larger(a[s], b[s]) = a[s]
    BY <1>4, <1>5, <2>1 DEF Larger
  <2> QED BY <1>1, <1>3, <1>5, <2>1, <2>2
<1> QED BY <1>6, <1>7, <1>8

\* The updates of a site, in a longer history.
LEMMA PartExtends ==
    ASSUME NEW n \in Nat, NEW h, NEW r, NEW h2, NEW r2, Extends(h, r, h2, r2, n), NEW s, NEW ups
    PROVE  ups \subseteq 1..n => Part(h2, ups, s) = Part(h, ups, s)
  BY DEF Part, Extends

(* The store. *)

Whats == {"up", "down", "set", "add", "remove"}

\* What the type invariant says of the history and of a row.
LEMMA TypedFacts ==
    ASSUME CrdtTyped
    PROVE  /\ Count \in Nat /\ Count <= MaxUpdates /\ Id = Count + 1
           /\ DOMAIN history = 1..Count /\ history \in [1..Count -> Updates]
           /\ \A s \in Sites : stored[s] \in sent /\ stored[s] \in Live /\ stored[s] \in StatesOf(kind)
           /\ \A v \in Live : v \in StatesOf(kind) /\ v.ups \subseteq 1..Count
  BY DEF CrdtTyped, Histories, Count, Id, Live

\* The states of each kind.
LEMMA KindStates ==
    /\ kind = "counter" => StatesOf(kind) = Counters
    /\ kind = "register" => StatesOf(kind) = Registers
    /\ kind = "set" => StatesOf(kind) = TagSets
  BY DEF StatesOf

\* An update is put at the end of the history.
LEMMA Recorded ==
    ASSUME CrdtTyped, NEW s \in Sites, NEW what \in Whats, NEW e \in Elements \cup {"none"},
           Record(s, what, e), Id <= MaxUpdates
    PROVE  /\ Count' = Count + 1 /\ Count' \in 0..MaxUpdates /\ history' \in Histories(Count + 1)
           /\ history'[Count + 1] = [site |-> s, what |-> what, element |-> e]
           /\ \A i \in 1..Count : history'[i] = history[i]
<1>1. PICK n \in Nat : n = Count /\ Id = n + 1 /\ history \in [1..n -> Updates]
  BY TypedFacts
<1>2. PICK x \in Updates : x = [site |-> s, what |-> what, element |-> e]
  BY DEF Updates, Whats
<1>3. history' = [i \in 1..(n + 1) |-> IF i = n + 1 THEN x ELSE history[i]]
  BY <1>1, <1>2 DEF Record
<1>4. DOMAIN history' = 1..(n + 1)
  BY <1>3
<1>5. Count' = n + 1
  <2>1. Cardinality(1..(n + 1)) = n + 1
    BY FS_Interval
  <2> QED BY <1>4, <2>1 DEF Count
<1>6. history' \in [1..(n + 1) -> Updates]
  BY <1>3, <1>1
<1>7. history'[n + 1] = x /\ \A i \in 1..n : history'[i] = history[i]
  BY <1>3
<1>8. n + 1 \in 0..MaxUpdates
  BY <1>1, CrdtAssumption
<1> QED BY <1>1, <1>2, <1>5, <1>6, <1>7, <1>8 DEF Histories

\* A worker holds a state it is about to save.
LEMMA HoldsLive ==
    ASSUME CrdtTyped, NEW w \in Workers, NEW v \in StatesOf(kind), Holds(w, v), UNCHANGED <<sent, kind>>
    PROVE  /\ Live' \subseteq Live \cup {v}
           /\ work' \in [Workers -> {NoWork} \cup [value : StatesOf(kind), fresh : BOOLEAN]]
           /\ \A x \in Workers : x # w => work'[x] = work[x]
           /\ work'[w] = [value |-> v, fresh |-> TRUE]
           /\ Busy' \subseteq Busy \cup {w}
<1>1. work \in [Workers -> {NoWork} \cup [value : StatesOf(kind), fresh : BOOLEAN]]
  BY DEF CrdtTyped
<1>2. PICK k : k = [value |-> v, fresh |-> TRUE]
  OBVIOUS
<1>3. k.value = v /\ k \in [value : StatesOf(kind), fresh : BOOLEAN]
  BY <1>2
<1>4. work' = [work EXCEPT ![w] = k]
  BY <1>2 DEF Holds
<1>5. work'[w] = k /\ \A x \in Workers : x # w => work'[x] = work[x]
  BY <1>1, <1>4
<1>6. work' \in [Workers -> {NoWork} \cup [value : StatesOf(kind), fresh : BOOLEAN]]
  BY <1>1, <1>3, <1>4
<1>7. Busy' \subseteq Busy \cup {w}
  BY <1>5 DEF Busy
<1>8. Live' \subseteq Live \cup {v}
  BY <1>3, <1>5 DEF Busy, Live
<1> QED BY <1>2, <1>5, <1>6, <1>7, <1>8

\* The types after an update.
LEMMA UpdateTyped ==
    ASSUME CrdtTyped, NEW w \in Workers, NEW s \in Sites, NEW what \in Whats, NEW e \in Elements \cup {"none"},
           Record(s, what, e), Id <= MaxUpdates, NEW v \in StatesOf(kind), Holds(w, v),
           v.ups \subseteq 1..(Count + 1), UNCHANGED <<kind, stored, sent>>,
           clock' \in [Sites -> Stamps], stamps' \subseteq Stamps, torn' \in BOOLEAN, late' \in BOOLEAN
    PROVE  CrdtTyped'
<1>1. /\ Count' = Count + 1 /\ Count' \in 0..MaxUpdates /\ history' \in Histories(Count + 1)
  BY Recorded
<1>2. /\ Live' \subseteq Live \cup {v}
      /\ work' \in [Workers -> {NoWork} \cup [value : StatesOf(kind), fresh : BOOLEAN]]
  BY HoldsLive
<1>3. /\ Live \subseteq StatesOf(kind) /\ \A x \in Live : x.ups \subseteq 1..Count
      /\ stored \in [Sites -> sent] /\ kind \in {"counter", "register", "set"}
  BY DEF CrdtTyped
<1>4. Count \in Nat
  BY TypedFacts
<1>5. StatesOf(kind)' = StatesOf(kind)
  BY DEF StatesOf
<1>6. Live' \subseteq StatesOf(kind) /\ \A x \in Live' : x.ups \subseteq 1..(Count + 1)
  BY <1>2, <1>3, <1>4
<1> QED BY <1>1, <1>2, <1>3, <1>5, <1>6 DEF CrdtTyped

\* The types after a step that makes no update and holds no other state.
LEMMA QuietTyped ==
    ASSUME CrdtTyped, UNCHANGED <<kind, history, stamps, late>>, clock' \in [Sites -> Stamps],
           Live' \subseteq Live, stored' \in [Sites -> sent'], torn' \in BOOLEAN,
           work' \in [Workers -> {NoWork} \cup [value : StatesOf(kind), fresh : BOOLEAN]]
    PROVE  CrdtTyped'
<1>1. StatesOf(kind)' = StatesOf(kind) /\ Count' = Count
  BY DEF StatesOf, Count
<1> QED BY <1>1 DEF CrdtTyped

\* What the states say stays true when there are no more of them.
LEMMA QuietKeeps ==
    ASSUME CrdtInv, UNCHANGED <<kind, history, stamps, late>>, Live' \subseteq Live
    PROVE  /\ (kind = "counter" => CounterInv)' /\ (kind = "set" => SetInv)'
           /\ (kind = "register" /\ ~late => RegisterInv)'
<1>1. Count' = Count
  BY DEF Count
<1> QED BY <1>1 DEF CrdtInv, CounterInv, SetInv, RegisterInv

\* A site counts up or down: the new update has the rank that its count reaches.
LEMMA AddToCounterKeeps ==
    ASSUME CrdtInv, NEW w \in Workers, NEW up \in BOOLEAN, AddToCounter(SiteOf[w], w, up)
    PROVE  CrdtTyped' /\ CounterInv' /\ (~torn => ExactInv')
<1>1. PICK s \in Sites : s = SiteOf[w]
  BY CrdtAssumption
<1>2. PICK n \in Nat : n = Count /\ Id = n + 1 /\ CrdtTyped
  BY TypedFacts DEF CrdtInv
<1>3. kind = "counter" /\ StatesOf(kind) = Counters
  BY KindStates DEF AddToCounter
<1>4. PICK a \in Counters : a = stored[s] /\ a \in Live /\ a.ups \subseteq 1..n
  BY <1>2, <1>3, TypedFacts
<1>5. PICK v : v = [a EXCEPT !.ups = @ \union {n + 1}]
  OBVIOUS
<1>6. PICK u : u = IF up THEN [v EXCEPT !.pos[s] = @ + 1] ELSE [v EXCEPT !.neg[s] = @ + 1]
  OBVIOUS
<1>7. PICK what \in Whats : what = IF up THEN "up" ELSE "down"
  BY DEF Whats
<1>8. /\ u \in Counters /\ u.ups = a.ups \union {n + 1}
      /\ up => u.neg = a.neg /\ u.pos = [a.pos EXCEPT ![s] = a.pos[s] + 1]
      /\ ~up => u.pos = a.pos /\ u.neg = [a.neg EXCEPT ![s] = a.neg[s] + 1]
  <2>1. a.pos \in Counts /\ a.neg \in Counts /\ a.ups \subseteq Nat
    BY DEF Counters
  <2>2. PICK p \in Counts, q \in Counts : /\ p = [a.pos EXCEPT ![s] = a.pos[s] + 1]
                                         /\ q = [a.neg EXCEPT ![s] = a.neg[s] + 1]
    <3>1. [a.pos EXCEPT ![s] = a.pos[s] + 1] \in Counts /\ [a.neg EXCEPT ![s] = a.neg[s] + 1] \in Counts
      BY <2>1 DEF Counts
    <3> QED BY <3>1
  <2>3. v \in Counters /\ v.ups = a.ups \union {n + 1} /\ v.pos = a.pos /\ v.neg = a.neg
    BY <1>5, <2>1 DEF Counters
  <2>4. CASE up
    <3>1. u = [v EXCEPT !.pos = p]
      BY <1>6, <2>2, <2>3, <2>4 DEF Counters
    <3> QED BY <2>2, <2>3, <2>4, <3>1 DEF Counters
  <2>5. CASE ~up
    <3>1. u = [v EXCEPT !.neg = q]
      BY <1>6, <2>2, <2>3, <2>5 DEF Counters
    <3> QED BY <2>2, <2>3, <2>5, <3>1 DEF Counters
  <2> QED BY <2>4, <2>5
<1>9. /\ Holds(w, u) /\ Record(s, what, "none") /\ Id <= MaxUpdates
      /\ UNCHANGED <<kind, stored, sent, clock, torn, stamps, late>>
  BY <1>1, <1>2, <1>4, <1>5, <1>6, <1>7 DEF AddToCounter
<1>10. u.ups \subseteq 1..(n + 1) /\ Grown(a.ups, u.ups, n)
  BY <1>4, <1>8 DEF Grown
<1>11. CrdtTyped'
  BY <1>2, <1>3, <1>8, <1>9, <1>10, UpdateTyped DEF CrdtTyped
<1>12. /\ Count' = n + 1 /\ history'[n + 1] = [site |-> s, what |-> what, element |-> "none"]
       /\ \A i \in 1..n : history'[i] = history[i]
  BY <1>2, <1>9, Recorded
<1>13. Live' \subseteq Live \cup {u}
  BY <1>2, <1>3, <1>8, <1>9, HoldsLive
<1>14. PICK r \in Ranks(n) : \A x \in Live : CounterGood(x, history, r)
  BY <1>2, <1>3 DEF CrdtInv, CounterInv
<1>15. PICK m \in 0..n : m = IF up THEN a.pos[s] ELSE a.neg[s]
  <2>1. a.pos[s] \in Nat /\ a.neg[s] \in Nat
    BY DEF Counters, Counts
  <2>2. \A i \in 1..n : r[i] \in 1..i
    BY DEF Ranks
  <2>3. Tops(a.pos[s], Of(history, a.ups, s, "up"), r) /\ Tops(a.neg[s], Of(history, a.ups, s, "down"), r)
    BY <1>4, <1>14 DEF CounterGood, Tally
  <2>4. Of(history, a.ups, s, "up") \subseteq 1..n /\ Of(history, a.ups, s, "down") \subseteq 1..n
    BY <1>4 DEF Of
  <2> QED BY <2>1, <2>2, <2>3, <2>4 DEF Tops
<1>16. PICK r2 : r2 = [i \in 1..(n + 1) |-> IF i = n + 1 THEN m + 1 ELSE r[i]]
  OBVIOUS
<1>17. r2 \in Ranks(n + 1) /\ r2[n + 1] = m + 1 /\ Extends(history, r, history', r2, n)
  <2>1. r2 \in Ranks(n + 1)
    BY <1>16, RanksExtend
  <2>2. r2[n + 1] = m + 1 /\ \A i \in 1..n : r2[i] = r[i]
    BY <1>16
  <2>3. Extends(history, r, history', r2, n)
    BY <1>12, <2>2 DEF Extends
  <2> QED BY <2>1, <2>2, <2>3
<1>18. CounterGood(u, history', r2)
  <2>1. CounterGood(a, history, r)
    BY <1>4, <1>14
  <2>2. CASE up
    <3>1. Counted(history', r2, n, s, "up", a.pos, u.pos) /\ u.neg = a.neg
      BY <1>7, <1>8, <1>12, <1>15, <1>17, <2>2 DEF Counted
    <3> QED BY <1>8, <1>10, <1>17, <2>1, <3>1, CountUp
  <2>3. CASE ~up
    <3>1. Counted(history', r2, n, s, "down", a.neg, u.neg) /\ u.pos = a.pos
      BY <1>7, <1>8, <1>12, <1>15, <1>17, <2>3 DEF Counted
    <3> QED BY <1>8, <1>10, <1>17, <2>1, <3>1, CountDown
  <2> QED BY <2>2, <2>3
<1>19. ASSUME NEW x \in Live PROVE CounterGood(x, history', r2)
  <2>1. x \in Counters /\ x.ups \subseteq 1..n
    BY <1>2, <1>3, TypedFacts
  <2> QED BY <1>14, <1>17, <2>1, CounterExtends
<1>20. CounterInv'
  BY <1>12, <1>13, <1>17, <1>18, <1>19 DEF CounterInv
<1>21. ASSUME ~torn PROVE ExactInv'
  <2>1. ExactInv
    BY <1>3, <1>21 DEF CrdtInv
  <2>2. Exact(u, history')
    <3>1. Exact(a, history) /\ a.pos \in Counts /\ a.neg \in Counts
      BY <1>4, <2>1 DEF ExactInv, Counters
    <3>2. Numbers(a.pos, history, a.ups, "up") /\ Numbers(a.neg, history, a.ups, "down")
      BY <3>1 DEF Exact
    <3>3. CASE up
      <4>1. Counted(history', r2, n, s, "up", a.pos, u.pos) /\ u.neg = a.neg /\ history'[n + 1].what # "down"
        BY <1>7, <1>8, <1>12, <1>15, <1>17, <3>3 DEF Counted
      <4>2. Numbers(u.pos, history', u.ups, "up")
        BY <1>10, <1>17, <3>1, <3>2, <4>1, NumbersCount
      <4>3. Numbers(a.neg, history', u.ups, "down")
        BY <1>10, <1>17, <3>1, <3>2, <4>1, NumbersSkip
      <4> QED BY <4>1, <4>2, <4>3 DEF Exact
    <3>4. CASE ~up
      <4>1. Counted(history', r2, n, s, "down", a.neg, u.neg) /\ u.pos = a.pos /\ history'[n + 1].what # "up"
        BY <1>7, <1>8, <1>12, <1>15, <1>17, <3>4 DEF Counted
      <4>2. Numbers(u.neg, history', u.ups, "down")
        BY <1>10, <1>17, <3>1, <3>2, <4>1, NumbersCount
      <4>3. Numbers(a.pos, history', u.ups, "up")
        BY <1>10, <1>17, <3>1, <3>2, <4>1, NumbersSkip
      <4> QED BY <4>1, <4>2, <4>3 DEF Exact
    <3> QED BY <3>3, <3>4
  <2>3. ASSUME NEW x \in Live PROVE Exact(x, history')
    <3>0. x \in Counters /\ x.ups \subseteq 1..n
      BY <1>2, <1>3, TypedFacts
    <3>1. x.ups \subseteq 1..n /\ x.pos \in Counts /\ x.neg \in Counts
      BY <3>0 DEF Counters
    <3>2. Numbers(x.pos, history, x.ups, "up") /\ Numbers(x.neg, history, x.ups, "down")
      BY <2>1 DEF ExactInv, Exact
    <3>3. Numbers(x.pos, history', x.ups, "up")
      BY <1>17, <3>1, <3>2, NumbersExtend
    <3>4. Numbers(x.neg, history', x.ups, "down")
      BY <1>17, <3>1, <3>2, NumbersExtend
    <3> QED BY <3>3, <3>4 DEF Exact
  <2>4. \A x \in Live, q \in Sites : Part(history', x.ups, q) = Part(history, x.ups, q)
    BY <1>2, <1>17, TypedFacts, PartExtends
  <2>5. sent \subseteq Live /\ stored' = stored /\ sent' = sent /\ \A q \in Sites : stored[q] \in sent
    BY <1>2, <1>9, TypedFacts DEF Live
  <2>6. Chain(history)'
    BY <2>1, <2>4, <2>5, SMTT(60) DEF ExactInv, Chain, Ordered
  <2>7. ASSUME NEW x \in Busy' PROVE Loaded(history, x)'
    <3>1. CASE x = w
      <4>0. work'[w] = [value |-> u, fresh |-> TRUE]
        BY <1>2, <1>3, <1>8, <1>9, HoldsLive
      <4>1. work'[w].value = u /\ SiteOf[w] = s
        BY <1>1, <4>0
      <4>2. \A q \in Sites : q # s => Part(history', u.ups, q) = Part(history', a.ups, q)
        <5>1. history'[n + 1].site = s
          BY <1>12
        <5>2. \A q \in Sites : q # s => Part(history', u.ups, q) = Part(history, a.ups, q)
          BY <1>10, <1>17, <5>1 DEF Part, Extends, Grown
        <5> QED BY <1>4, <2>4, <5>2
      <4>3. Part(history', a.ups, s) \subseteq Part(history', u.ups, s)
        BY <1>8 DEF Part
      <4> QED BY <1>4, <2>5, <3>1, <4>1, <4>2, <4>3 DEF Loaded, FromOthers, NotLess
    <3>2. CASE x # w
      <4>1. x \in Busy /\ work'[x] = work[x] /\ x \in Workers
        BY <1>2, <1>3, <1>8, <1>9, <3>2, HoldsLive DEF Busy
      <4>2. work[x].value \in Live /\ Loaded(history, x) /\ SiteOf[x] \in Sites
        BY <2>1, <4>1, CrdtAssumption DEF Live, ExactInv
      <4>3. FromOthers(history, work[x].value.ups, SiteOf[x])'
        BY <2>4, <2>5, <4>1, <4>2 DEF Loaded, FromOthers
      <4>4. work[x].fresh => NotLess(history, work[x].value.ups, SiteOf[x])'
        BY <2>4, <2>5, <4>1, <4>2 DEF Loaded, NotLess
      <4> QED BY <4>1, <4>3, <4>4 DEF Loaded
    <3> QED BY <3>1, <3>2
  <2> QED BY <1>13, <2>2, <2>3, <2>6, <2>7 DEF ExactInv
<1> QED BY <1>11, <1>20, <1>21

\* An addition to a set: the new update has the number of its tag.
LEMMA AddElementKeeps ==
    ASSUME CrdtInv, NEW w \in Workers, NEW e \in Elements, AddElement(SiteOf[w], w, e)
    PROVE  CrdtTyped' /\ SetInv'
<1>1. PICK s \in Sites : s = SiteOf[w]
  BY CrdtAssumption
<1>2. PICK n \in Nat : n = Count /\ Id = n + 1 /\ CrdtTyped
  BY TypedFacts DEF CrdtInv
<1>3. kind = "set" /\ StatesOf(kind) = TagSets
  BY KindStates DEF AddElement
<1>4. PICK a \in TagSets : a = stored[s] /\ a \in Live /\ a.ups \subseteq 1..n
  BY <1>2, <1>3, TypedFacts
<1>5. a.counters \in Counts /\ a.counters[s] \in Nat /\ a.tags \subseteq Tags
  BY DEF TagSets, Counts
<1>6. PICK g \in Tags : g = [element |-> e, site |-> s, n |-> a.counters[s] + 1]
  <2>1. [element |-> e, site |-> s, n |-> a.counters[s] + 1] \in Tags
    BY <1>5 DEF Tags
  <2> QED BY <2>1
<1>7. PICK d \in Counts : d = [a.counters EXCEPT ![s] = a.counters[s] + 1]
  <2>1. [a.counters EXCEPT ![s] = a.counters[s] + 1] \in Counts
    BY <1>5 DEF Counts
  <2> QED BY <2>1
<1>8. PICK u : u = [ups |-> a.ups \union {n + 1}, tags |-> a.tags \union {g}, counters |-> d]
  OBVIOUS
<1>9. /\ u \in TagSets /\ u.ups = a.ups \union {n + 1} /\ u.tags = a.tags \union {g} /\ u.counters = d
  BY <1>4, <1>5, <1>8 DEF TagSets
<1>10. /\ Holds(w, u) /\ Record(s, "add", e) /\ Id <= MaxUpdates
       /\ UNCHANGED <<kind, stored, sent, clock, torn, stamps, late>>
  BY <1>1, <1>2, <1>4, <1>6, <1>7, <1>8 DEF AddElement
<1>11. u.ups \subseteq 1..(n + 1) /\ Grown(a.ups, u.ups, n)
  BY <1>4, <1>9 DEF Grown
<1>12. CrdtTyped'
  BY <1>2, <1>3, <1>9, <1>10, <1>11, UpdateTyped DEF CrdtTyped, Whats
<1>13. /\ Count' = n + 1 /\ history'[n + 1] = [site |-> s, what |-> "add", element |-> e]
       /\ \A i \in 1..n : history'[i] = history[i]
  BY <1>2, <1>10, Recorded DEF Whats
<1>14. Live' \subseteq Live \cup {u}
  BY <1>2, <1>3, <1>9, <1>10, HoldsLive
<1>15. PICK r \in Ranks(n) : \A x \in Live : SetGood(x, history, r)
  BY <1>2, <1>3 DEF CrdtInv, SetInv
<1>16. PICK m \in 0..n : m = a.counters[s]
  <2>2. \A i \in 1..n : r[i] \in 1..i
    BY DEF Ranks
  <2>3. Tops(a.counters[s], Of(history, a.ups, s, "add"), r)
    BY <1>4, <1>15 DEF SetGood, Tally
  <2>4. Of(history, a.ups, s, "add") \subseteq 1..n
    BY <1>4 DEF Of
  <2> QED BY <1>5, <2>2, <2>3, <2>4 DEF Tops
<1>17. PICK r2 : r2 = [i \in 1..(n + 1) |-> IF i = n + 1 THEN m + 1 ELSE r[i]]
  OBVIOUS
<1>18. r2 \in Ranks(n + 1) /\ r2[n + 1] = m + 1 /\ Extends(history, r, history', r2, n)
  <2>1. r2 \in Ranks(n + 1)
    BY <1>17, RanksExtend
  <2>2. r2[n + 1] = m + 1 /\ \A i \in 1..n : r2[i] = r[i]
    BY <1>17
  <2>3. Extends(history, r, history', r2, n)
    BY <1>13, <2>2 DEF Extends
  <2> QED BY <2>1, <2>2, <2>3
<1>19. SetGood(u, history', r2)
  <2>1. SetGood(a, history, r)
    BY <1>4, <1>15
  <2>2. Counted(history', r2, n, s, "add", a.counters, u.counters)
    BY <1>7, <1>9, <1>13, <1>16, <1>18 DEF Counted
  <2>3. u.tags = a.tags \cup {TagOf(history', r2, n + 1)}
    BY <1>6, <1>9, <1>13, <1>16, <1>18 DEF TagOf
  <2> QED BY <1>9, <1>11, <1>18, <2>1, <2>2, <2>3, AddGood
<1>20. ASSUME NEW x \in Live PROVE SetGood(x, history', r2)
  <2>1. x \in TagSets /\ x.ups \subseteq 1..n
    BY <1>2, <1>3, TypedFacts
  <2> QED BY <1>15, <1>18, <2>1, SetExtends
<1>21. SetInv'
  BY <1>13, <1>14, <1>18, <1>19, <1>20 DEF SetInv
<1> QED BY <1>12, <1>21

\* A removal: its rank plays no part.
LEMMA RemoveElementKeeps ==
    ASSUME CrdtInv, NEW w \in Workers, NEW e \in Elements, RemoveElement(SiteOf[w], w, e)
    PROVE  CrdtTyped' /\ SetInv'
<1>1. PICK s \in Sites : s = SiteOf[w]
  BY CrdtAssumption
<1>2. PICK n \in Nat : n = Count /\ Id = n + 1 /\ CrdtTyped
  BY TypedFacts DEF CrdtInv
<1>3. kind = "set" /\ StatesOf(kind) = TagSets
  BY KindStates DEF RemoveElement
<1>4. PICK a \in TagSets : a = stored[s] /\ a \in Live /\ a.ups \subseteq 1..n
  BY <1>2, <1>3, TypedFacts
<1>5. a.counters \in Counts /\ a.tags \subseteq Tags
  BY DEF TagSets
<1>6. PICK T : T = {t \in a.tags : t.element # e}
  OBVIOUS
<1>7. PICK u : u = [a EXCEPT !.ups = @ \union {n + 1}, !.tags = T]
  OBVIOUS
<1>8. /\ u \in TagSets /\ u.ups = a.ups \union {n + 1} /\ u.tags = T /\ u.counters = a.counters
  <2>1. T \subseteq Tags /\ a.ups \union {n + 1} \subseteq Nat
    BY <1>4, <1>5, <1>6
  <2>2. PICK x : x = [a EXCEPT !.ups = a.ups \union {n + 1}]
    OBVIOUS
  <2>3. x \in TagSets /\ x.ups = a.ups \union {n + 1} /\ x.tags = a.tags /\ x.counters = a.counters
    BY <2>1, <2>2 DEF TagSets
  <2>4. u = [x EXCEPT !.tags = T]
    BY <1>7, <2>2 DEF TagSets
  <2> QED BY <2>1, <2>3, <2>4 DEF TagSets
<1>9. u = [stored[s] EXCEPT !.ups = @ \union {Id}, !.tags = {t \in @ : t.element # e}]
  BY <1>2, <1>4, <1>6, <1>7
<1>10. /\ Holds(w, u) /\ Record(s, "remove", e) /\ Id <= MaxUpdates
       /\ UNCHANGED <<kind, stored, sent, clock, torn, stamps, late>>
  BY <1>1, <1>9 DEF RemoveElement
<1>11. u.ups \subseteq 1..(n + 1) /\ Grown(a.ups, u.ups, n)
  BY <1>4, <1>8 DEF Grown
<1>12. CrdtTyped'
  BY <1>2, <1>3, <1>8, <1>10, <1>11, UpdateTyped DEF CrdtTyped, Whats
<1>13. /\ Count' = n + 1 /\ history'[n + 1] = [site |-> s, what |-> "remove", element |-> e]
       /\ \A i \in 1..n : history'[i] = history[i]
  BY <1>2, <1>10, Recorded DEF Whats
<1>14. Live' \subseteq Live \cup {u}
  BY <1>2, <1>3, <1>8, <1>10, HoldsLive
<1>15. PICK r \in Ranks(n) : \A x \in Live : SetGood(x, history, r)
  BY <1>2, <1>3 DEF CrdtInv, SetInv
<1>16. PICK m \in 0..n : m = 0
  OBVIOUS
<1>17. PICK r2 : r2 = [i \in 1..(n + 1) |-> IF i = n + 1 THEN m + 1 ELSE r[i]]
  OBVIOUS
<1>18. r2 \in Ranks(n + 1) /\ Extends(history, r, history', r2, n)
  <2>1. r2 \in Ranks(n + 1)
    BY <1>17, RanksExtend
  <2>2. r2[n + 1] = m + 1 /\ \A i \in 1..n : r2[i] = r[i]
    BY <1>17
  <2>3. Extends(history, r, history', r2, n)
    BY <1>13, <2>2 DEF Extends
  <2> QED BY <2>1, <2>2, <2>3
<1>19. SetGood(u, history', r2)
  <2>1. SetGood(a, history, r) /\ history'[n + 1].what = "remove" /\ history'[n + 1].element = e
    BY <1>4, <1>13, <1>15
  <2>2. Without(a.tags, u.tags, e)
    BY <1>6, <1>8 DEF Without
  <2> QED BY <1>8, <1>11, <1>18, <2>1, <2>2, RemoveGood
<1>20. ASSUME NEW x \in Live PROVE SetGood(x, history', r2)
  <2>1. x \in TagSets /\ x.ups \subseteq 1..n
    BY <1>2, <1>3, TypedFacts
  <2> QED BY <1>15, <1>18, <2>1, SetExtends
<1>21. SetInv'
  BY <1>13, <1>14, <1>18, <1>19, <1>20 DEF SetInv
<1> QED BY <1>12, <1>21

\* The clock's next stamps.
LEMMA ClockTyped ==
    ASSUME CrdtTyped, NEW s \in Sites, NEW now \in Nat, NEW remote \in Stamps
    PROVE  OnLocalEvent(s, now) \in Stamps /\ OnRemoteEvent(s, remote, now) \in Stamps
<1>1. PICK c \in Stamps : c = clock[s]
  BY DEF CrdtTyped
<1>2. /\ c.wall \in Nat /\ c.counter \in Nat /\ c.site \in Sites
      /\ remote.wall \in Nat /\ remote.counter \in Nat
  BY DEF Stamps
<1>3. \A x, y \in Nat : Larger(x, y) \in Nat
  BY DEF Larger
<1>4. ASSUME NEW x \in Nat, NEW y \in Nat PROVE [c EXCEPT !.wall = x, !.counter = y] \in Stamps
  BY <1>2 DEF Stamps
<1>5. OnLocalEvent(s, now) = [c EXCEPT !.wall = Larger(c.wall, now), !.counter = c.counter + 1]
  BY <1>1 DEF OnLocalEvent
<1>6. PICK wall \in Nat : wall = Larger(Larger(c.wall, remote.wall), now)
  BY <1>2, <1>3
<1>7. PICK k \in Nat : k = IF wall = remote.wall THEN Larger(c.counter, remote.counter) + 1 ELSE 0
  BY <1>2 DEF Larger
<1>8. OnRemoteEvent(s, remote, now) = [c EXCEPT !.wall = wall, !.counter = k]
  BY <1>1, <1>6, <1>7 DEF OnRemoteEvent
<1>9. [c EXCEPT !.wall = wall, !.counter = k] \in Stamps
  BY <1>4
<1>10. Larger(c.wall, now) \in Nat /\ c.counter + 1 \in Nat
  BY <1>2 DEF Larger
<1>11. [c EXCEPT !.wall = Larger(c.wall, now), !.counter = c.counter + 1] \in Stamps
  BY <1>4, <1>10
<1> QED BY <1>5, <1>8, <1>9, <1>11

\* A register is set: the new update has the stamp it was given.
LEMMA SetRegisterKeeps ==
    ASSUME CrdtInv, NEW w \in Workers, NEW e \in Elements, NEW now \in 0..MaxClock,
           SetRegister(SiteOf[w], w, e, now)
    PROVE  CrdtTyped' /\ (~late' => RegisterInv')
<1>1. PICK s \in Sites : s = SiteOf[w]
  BY CrdtAssumption
<1>2. PICK n \in Nat : n = Count /\ Id = n + 1 /\ CrdtTyped
  BY TypedFacts DEF CrdtInv
<1>3. kind = "register" /\ StatesOf(kind) = Registers
  BY KindStates DEF SetRegister
<1>4. PICK a \in Registers : a = stored[s] /\ a \in Live /\ a.ups \subseteq 1..n
  BY <1>2, <1>3, TypedFacts
<1>5. PICK stamp \in Stamps : stamp = OnLocalEvent(s, now)
  <2>1. now \in Nat
    BY CrdtAssumption
  <2>2. clock[s] \in Stamps
    BY <1>2 DEF CrdtTyped
  <2> QED BY <1>2, <2>1, <2>2, ClockTyped
<1>6. PICK g \in Regs : g = [value |-> e, stamp |-> stamp]
  <2>1. [value |-> e, stamp |-> stamp] \in Regs
    BY DEF Regs
  <2> QED BY <2>1
<1>7. PICK u : u = [ups |-> a.ups \union {n + 1}, reg |-> g]
  OBVIOUS
<1>8. u \in Registers /\ u.ups = a.ups \union {n + 1} /\ u.reg = g
  BY <1>4, <1>7 DEF Registers
<1>9. /\ Holds(w, u) /\ Record(s, "set", e) /\ Id <= MaxUpdates
      /\ clock' = [clock EXCEPT ![s] = stamp] /\ stamps' = stamps \union {stamp}
      /\ late' = (late \/ ~NewAndLater(stamp, a.reg))
      /\ UNCHANGED <<kind, stored, sent, torn>>
  BY <1>1, <1>2, <1>4, <1>5, <1>6, <1>7 DEF SetRegister
<1>10. u.ups \subseteq 1..(n + 1)
  BY <1>4, <1>8
<1>11. CrdtTyped'
  <2>1. clock' \in [Sites -> Stamps] /\ stamps' \subseteq Stamps /\ torn' \in BOOLEAN
    BY <1>2, <1>9 DEF CrdtTyped
  <2>2. late' \in BOOLEAN
    BY <1>9
  <2> QED BY <1>2, <1>3, <1>8, <1>9, <1>10, <2>1, <2>2, UpdateTyped DEF Whats
<1>12. /\ Count' = n + 1 /\ history'[n + 1] = [site |-> s, what |-> "set", element |-> e]
       /\ \A i \in 1..n : history'[i] = history[i]
  BY <1>2, <1>9, Recorded DEF Whats
<1>13. Live' \subseteq Live \cup {u}
  BY <1>2, <1>3, <1>8, <1>9, HoldsLive
<1>14. ASSUME ~late' PROVE RegisterInv'
  <2>1. ~late /\ stamp \notin stamps /\ (a.reg # NoReg => HlcAfter(stamp, a.reg.stamp))
    BY <1>9, <1>14 DEF NewAndLater
  <2>2. RegisterInv
    BY <1>3, <2>1 DEF CrdtInv
  <2>3. PICK r \in [1..n -> stamps] : /\ \A i, j \in 1..n : i # j => r[i] # r[j]
                                      /\ \A v \in Live : RegisterGood(v, history, r)
    BY <1>2, <2>2 DEF RegisterInv
  <2>4. PICK r2 : r2 = [i \in 1..(n + 1) |-> IF i = n + 1 THEN stamp ELSE r[i]]
    OBVIOUS
  <2>5. /\ r2 \in [1..(n + 1) -> stamps'] /\ r2[n + 1] = stamp
        /\ \A i \in 1..n : r2[i] = r[i] /\ r2[i] \in stamps
    BY <1>9, <2>3, <2>4
  <2>6. \A i, j \in 1..(n + 1) : i # j => r2[i] # r2[j]
    <3>1. \A i \in 1..(n + 1) : i = n + 1 \/ i \in 1..n
      OBVIOUS
    <3> QED BY <2>1, <2>3, <2>5, <3>1
  <2>7. \A i \in 1..n : history[i].element \in Elements
    BY <1>2, <2>2 DEF RegisterInv
  <2>8. \A i \in 1..(n + 1) : history'[i].element \in Elements
    <3>1. \A i \in 1..(n + 1) : i = n + 1 \/ i \in 1..n
      OBVIOUS
    <3> QED BY <1>12, <2>7, <3>1
  <2>9. r \in [1..n -> Stamps] /\ Extends(history, r, history', r2, n)
    BY <1>2, <1>12, <2>5 DEF CrdtTyped, Extends
  <2>10. RegisterGood(u, history', r2)
    <3>1. u.reg = [value |-> history'[n + 1].element, stamp |-> stamp]
      BY <1>6, <1>8, <1>12
    <3> QED BY <1>4, <1>8, <2>1, <2>3, <2>5, <2>7, <2>9, <3>1, SetRegisterGood, SMTT(60)
  <2>11. ASSUME NEW x \in Live PROVE RegisterGood(x, history', r2)
    <3>1. x \in Registers /\ x.ups \subseteq 1..n
      BY <1>2, <1>3, TypedFacts
    <3> QED BY <2>3, <2>9, <3>1, RegisterExtends
  <2> QED BY <1>12, <1>13, <2>5, <2>6, <2>8, <2>10, <2>11 DEF RegisterInv
<1> QED BY <1>11, <1>14

\* A merge of two live states: nothing was made, and the new state is as good.
LEMMA LoadAndMergeKeeps ==
    ASSUME CrdtInv, NEW w \in Workers, NEW remote \in sent, LoadAndMerge(SiteOf[w], w, remote)
    PROVE  /\ CrdtTyped' /\ (kind = "counter" => CounterInv)' /\ (kind = "set" => SetInv)'
           /\ (kind = "register" /\ ~late => RegisterInv)'
<1>1. PICK s \in Sites : s = SiteOf[w]
  BY CrdtAssumption
<1>2. PICK n \in Nat : n = Count /\ CrdtTyped
  BY TypedFacts DEF CrdtInv
<1>3. PICK a \in StatesOf(kind) : a = stored[s] /\ a \in Live /\ a.ups \subseteq 1..n
  BY <1>2, TypedFacts
<1>4. PICK b \in StatesOf(kind) : b = remote /\ b \in Live /\ b.ups \subseteq 1..n
  BY <1>2, TypedFacts DEF Live
<1>5. PICK m : m = MergeStates(a, b)
  OBVIOUS
<1>6. Holds(w, m) /\ UNCHANGED <<kind, stored, sent, clock, history, torn, stamps, late>>
  BY <1>1, <1>3, <1>4, <1>5 DEF LoadAndMerge
<1>7. /\ kind = "counter" => StatesOf(kind) = Counters /\ m = MergeCounter(a, b)
      /\ kind = "register" => StatesOf(kind) = Registers /\ m = MergeRegister(a, b)
      /\ kind = "set" => StatesOf(kind) = TagSets /\ m = MergeSet(a, b)
  BY <1>5, KindStates DEF MergeStates
<1>8. m \in StatesOf(kind) /\ m.ups = a.ups \cup b.ups
  <2>1. kind \in {"counter", "register", "set"}
    BY <1>2 DEF CrdtTyped
  <2>2. CASE kind = "counter"
    BY <1>7, <2>2, MergeCounterFields
  <2>3. CASE kind = "register"
    BY <1>7, <2>3, MergeRegisterFields
  <2>4. CASE kind = "set"
    BY <1>7, <2>4, MergeSetFields
  <2> QED BY <2>1, <2>2, <2>3, <2>4
<1>9. /\ Live' \subseteq Live \cup {m}
      /\ work' \in [Workers -> {NoWork} \cup [value : StatesOf(kind), fresh : BOOLEAN]]
  BY <1>2, <1>6, <1>8, HoldsLive
<1>10. Count' = n
  BY <1>2, <1>6 DEF Count
<1>11. CrdtTyped'
  <2>1. StatesOf(kind)' = StatesOf(kind)
    BY <1>6 DEF StatesOf
  <2>2. m.ups \subseteq 1..n
    BY <1>3, <1>4, <1>8
  <2> QED BY <1>2, <1>6, <1>8, <1>9, <1>10, <2>1, <2>2 DEF CrdtTyped
<1>12. ASSUME kind = "counter" PROVE CounterInv'
  <2>1. PICK r \in Ranks(n) : \A v \in Live : CounterGood(v, history, r)
    BY <1>2, <1>12 DEF CrdtInv, CounterInv
  <2>2. CounterGood(a, history, r) /\ CounterGood(b, history, r) /\ a \in Counters /\ b \in Counters
    BY <1>3, <1>4, <1>7, <1>12, <2>1
  <2>3. CounterGood(m, history, r)
    BY <1>3, <1>4, <1>7, <1>12, <2>2, MergeCounterGood
  <2> QED BY <1>6, <1>9, <1>10, <2>1, <2>3 DEF CounterInv
<1>13. ASSUME kind = "set" PROVE SetInv'
  <2>1. PICK r \in Ranks(n) : \A v \in Live : SetGood(v, history, r)
    BY <1>2, <1>13 DEF CrdtInv, SetInv
  <2>2. SetGood(a, history, r) /\ SetGood(b, history, r) /\ a \in TagSets /\ b \in TagSets
    BY <1>3, <1>4, <1>7, <1>13, <2>1
  <2>3. SetGood(m, history, r)
    BY <1>3, <1>4, <1>7, <1>13, <2>2, MergeSetGood
  <2> QED BY <1>6, <1>9, <1>10, <2>1, <2>3 DEF SetInv
<1>14. ASSUME kind = "register", ~late PROVE RegisterInv'
  <2>1. RegisterInv
    BY <1>14 DEF CrdtInv
  <2>2. PICK r \in [1..n -> stamps] : /\ \A i, j \in 1..n : i # j => r[i] # r[j]
                                      /\ \A v \in Live : RegisterGood(v, history, r)
    BY <1>2, <2>1 DEF RegisterInv
  <2>3. \A i \in 1..n : history[i].element \in Elements
    BY <1>2, <2>1 DEF RegisterInv
  <2>4. /\ RegisterGood(a, history, r) /\ RegisterGood(b, history, r)
        /\ a \in Registers /\ b \in Registers /\ r \in [1..n -> Stamps]
    BY <1>2, <1>3, <1>4, <1>7, <1>14, <2>2 DEF CrdtTyped
  <2>5. RegisterGood(m, history, r)
    BY <1>3, <1>4, <1>7, <1>14, <2>2, <2>3, <2>4, MergeRegisterGood
  <2> QED BY <1>6, <1>9, <1>10, <2>2, <2>3, <2>5 DEF RegisterInv
<1> QED BY <1>6, <1>11, <1>12, <1>13, <1>14

\* A save: the state that is stored was live.
LEMMA SaveStateLive ==
    ASSUME CrdtTyped, NEW w \in Workers, SaveState(SiteOf[w], w)
    PROVE  /\ Live' \subseteq Live /\ CrdtTyped' /\ Busy' \subseteq Busy \ {w}
           /\ work[w].value \in Live /\ sent' = sent \union {work[w].value}
           /\ stored' = [stored EXCEPT ![SiteOf[w]] = work[w].value]
           /\ \A x \in Busy' : /\ work'[x].value = work[x].value
                               /\ work'[x].fresh => work[x].fresh
                               /\ work'[x].fresh /\ SiteOf[x] = SiteOf[w] => stored'[SiteOf[w]] = stored[SiteOf[w]]
<1>1. PICK s \in Sites : s = SiteOf[w]
  BY CrdtAssumption
<1>2. PICK W : W = [value : StatesOf(kind), fresh : BOOLEAN]
  OBVIOUS
<1>3. work \in [Workers -> {NoWork} \cup W] /\ work[w] # NoWork
  BY <1>2 DEF CrdtTyped, SaveState
<1>4. work[w].value \in Live /\ work[w].value \in StatesOf(kind)
  BY <1>2, <1>3 DEF Live, Busy
<1>5. \A k \in W : /\ [k EXCEPT !.fresh = FALSE] \in W /\ [k EXCEPT !.fresh = FALSE].value = k.value
                   /\ [k EXCEPT !.fresh = FALSE].fresh = FALSE
  BY <1>2
<1>6. work' = [x \in Workers |->
                 IF x = w THEN NoWork
                 ELSE IF SiteOf[x] = s /\ work[x] # NoWork /\ stored'[s] # stored[s]
                 THEN [work[x] EXCEPT !.fresh = FALSE]
                 ELSE work[x]]
  BY <1>1 DEF SaveState
<1>7. /\ work'[w] = NoWork
      /\ \A x \in Workers : x # w => \/ work'[x] = work[x] /\ ~(SiteOf[x] = s /\ work[x] # NoWork /\ stored'[s] # stored[s])
                                     \/ work[x] # NoWork /\ work'[x] = [work[x] EXCEPT !.fresh = FALSE]
  BY <1>6
<1>8. work' \in [Workers -> {NoWork} \cup W]
  <2>1. \A x \in Workers : work'[x] \in {NoWork} \cup W
    BY <1>3, <1>5, <1>7, ZenonT(60)
  <2> QED BY <1>6, <2>1
<1>9. \A x \in Busy' : x \in Busy /\ x # w /\ work[x] \in W
  BY <1>3, <1>7 DEF Busy
<1>10. \A x \in Busy' : /\ work'[x].value = work[x].value
                        /\ work'[x].fresh => work[x].fresh
                        /\ work'[x].fresh /\ SiteOf[x] = s => stored'[s] = stored[s]
  <2> SUFFICES ASSUME NEW x \in Busy'
               PROVE  /\ work'[x].value = work[x].value
                      /\ work'[x].fresh => work[x].fresh
                      /\ work'[x].fresh /\ SiteOf[x] = s => stored'[s] = stored[s]
    OBVIOUS
  <2>1. x \in Workers /\ x # w /\ work[x] \in W /\ work[x] # NoWork
    BY <1>9 DEF Busy
  <2>2. CASE work'[x] = work[x] /\ ~(SiteOf[x] = s /\ work[x] # NoWork /\ stored'[s] # stored[s])
    BY <2>1, <2>2
  <2>3. CASE work'[x] = [work[x] EXCEPT !.fresh = FALSE]
    BY <1>5, <2>1, <2>3
  <2> QED BY <1>7, <2>1, <2>2, <2>3
<1>11. sent' = sent \union {work[w].value} /\ stored' = [stored EXCEPT ![s] = work[w].value]
  BY <1>1 DEF SaveState
<1>12. Live' \subseteq Live
  <2> SUFFICES ASSUME NEW v \in Live' PROVE v \in Live
    OBVIOUS
  <2>1. CASE v \in sent'
    BY <1>4, <1>11, <2>1 DEF Live
  <2>2. CASE \E x \in Busy' : v = work'[x].value
    <3>1. PICK x \in Busy' : v = work'[x].value
      BY <2>2
    <3>2. x \in Busy /\ v = work[x].value
      BY <1>9, <1>10, <3>1
    <3> QED BY <3>2 DEF Live
  <2> QED BY <2>1, <2>2 DEF Live
<1>13. CrdtTyped'
  <2>1. stored' \in [Sites -> sent'] /\ clock' \in [Sites -> Stamps]
    BY <1>11 DEF CrdtTyped, SaveState
  <2>2. torn' \in BOOLEAN /\ UNCHANGED <<kind, history, stamps, late>>
    BY DEF SaveState
  <2> QED BY <1>2, <1>8, <1>12, <2>1, <2>2, QuietTyped
<1>14. Busy' \subseteq Busy \ {w}
  BY <1>9
<1>15. \A x \in Busy' : /\ work'[x].value = work[x].value
                        /\ work'[x].fresh => work[x].fresh
                        /\ work'[x].fresh /\ SiteOf[x] = SiteOf[w] => stored'[SiteOf[w]] = stored[SiteOf[w]]
  BY <1>1, <1>10
<1>16. stored' = [stored EXCEPT ![SiteOf[w]] = work[w].value]
  BY <1>1, <1>11
<1>17. sent' = sent \union {work[w].value} /\ work[w].value \in Live
  BY <1>4, <1>11
<1> QED BY <1>12, <1>13, <1>14, <1>15, <1>16, <1>17

\* A save that fails leaves fewer states.
LEMMA SaveFailsLive ==
    ASSUME CrdtTyped, NEW w \in Workers, SaveFails(SiteOf[w], w)
    PROVE  /\ Live' \subseteq Live /\ CrdtTyped' /\ Busy' \subseteq Busy
           /\ \A x \in Busy' : work'[x] = work[x]
<1>1. /\ work' = [work EXCEPT ![w] = NoWork]
      /\ UNCHANGED <<kind, stored, sent, clock, history, torn, stamps, late>>
  BY DEF SaveFails
<1>2. PICK W : W = [value : StatesOf(kind), fresh : BOOLEAN]
  OBVIOUS
<1>3. work \in [Workers -> {NoWork} \cup W]
  BY <1>2 DEF CrdtTyped
<1>4. work' \in [Workers -> {NoWork} \cup W]
  BY <1>1, <1>3
<1>5. Busy' \subseteq Busy /\ \A x \in Busy' : work'[x] = work[x]
  BY <1>1, <1>3 DEF Busy
<1>6. Live' \subseteq Live
  BY <1>1, <1>5 DEF Live
<1>7. stored' \in [Sites -> sent'] /\ clock' \in [Sites -> Stamps] /\ torn' \in BOOLEAN
  BY <1>1 DEF CrdtTyped
<1>8. CrdtTyped'
  BY <1>1, <1>2, <1>4, <1>6, <1>7, QuietTyped
<1> QED BY <1>5, <1>6, <1>8

\* A clock that hears another's stamp.
LEMMA ClockHearsKeeps ==
    ASSUME CrdtInv, NEW s \in Sites, NEW remote \in stamps, NEW now \in 0..MaxClock, ClockHears(s, remote, now)
    PROVE  CrdtInv'
<1>1. CrdtTyped
  BY DEF CrdtInv
<1>2. remote \in Stamps /\ now \in Nat
  BY <1>1, CrdtAssumption DEF CrdtTyped
<1>3. /\ clock' = [clock EXCEPT ![s] = OnRemoteEvent(s, remote, now)] /\ kind = "register"
      /\ UNCHANGED <<kind, stored, sent, work, history, torn, stamps, late>>
  BY DEF ClockHears
<1>4. PICK k \in Stamps : k = OnRemoteEvent(s, remote, now)
  BY <1>1, <1>2, ClockTyped
<1>5. clock' \in [Sites -> Stamps]
  BY <1>1, <1>3, <1>4 DEF CrdtTyped
<1>6. Live' = Live /\ StatesOf(kind)' = StatesOf(kind) /\ Count' = Count
  BY <1>3 DEF Live, Busy, StatesOf, Count
<1>7. CrdtTyped'
  BY <1>1, <1>3, <1>5, <1>6 DEF CrdtTyped
<1> QED BY <1>3, <1>6, <1>7, QuietKeeps DEF CrdtInv

\* A merge keeps the counters exact: of every site one of the two states has all
\* the updates of the other.
LEMMA LoadAndMergeExact ==
    ASSUME CrdtInv, kind = "counter", ~torn, NEW w \in Workers, NEW remote \in sent,
           LoadAndMerge(SiteOf[w], w, remote)
    PROVE  ExactInv'
<1>1. PICK s \in Sites : s = SiteOf[w]
  BY CrdtAssumption
<1>2. PICK n \in Nat : n = Count /\ CrdtTyped
  BY TypedFacts DEF CrdtInv
<1>3. StatesOf(kind) = Counters /\ ExactInv
  BY KindStates DEF CrdtInv
<1>4. PICK a \in Counters : a = stored[s] /\ a \in sent /\ a \in Live /\ a.ups \subseteq 1..n
  BY <1>2, <1>3, TypedFacts
<1>5. PICK b \in Counters : b = remote /\ b \in sent /\ b \in Live /\ b.ups \subseteq 1..n
  BY <1>2, <1>3, TypedFacts DEF Live
<1>6. PICK m \in Counters : /\ m = MergeCounter(a, b) /\ m.ups = a.ups \cup b.ups
                            /\ m.pos = MergeCounts(a.pos, b.pos) /\ m.neg = MergeCounts(a.neg, b.neg)
  BY MergeCounterFields
<1>7. Holds(w, m) /\ UNCHANGED <<kind, stored, sent, clock, history, torn, stamps, late>>
  BY <1>1, <1>4, <1>5, <1>6 DEF LoadAndMerge, MergeStates
<1>8. /\ Live' \subseteq Live \cup {m} /\ work'[w] = [value |-> m, fresh |-> TRUE] /\ Busy' \subseteq Busy \cup {w}
      /\ \A x \in Workers : x # w => work'[x] = work[x]
  BY <1>2, <1>3, <1>7, HoldsLive
<1>9. Ordered(history, a.ups, b.ups)
  BY <1>3, <1>4, <1>5 DEF ExactInv, Chain
<1>10. Exact(m, history)
  <2>1. a.pos \in Counts /\ a.neg \in Counts /\ b.pos \in Counts /\ b.neg \in Counts
    BY DEF Counters
  <2>2. Exact(a, history) /\ Exact(b, history)
    BY <1>3, <1>4, <1>5 DEF ExactInv
  <2>3. Numbers(MergeCounts(a.pos, b.pos), history, a.ups \cup b.ups, "up")
    BY <1>4, <1>5, <1>9, <2>1, <2>2, NumbersMerge DEF Exact
  <2>4. Numbers(MergeCounts(a.neg, b.neg), history, a.ups \cup b.ups, "down")
    BY <1>4, <1>5, <1>9, <2>1, <2>2, NumbersMerge DEF Exact
  <2> QED BY <1>6, <2>3, <2>4 DEF Exact
<1>11. ASSUME NEW q \in Sites
       PROVE  /\ Part(history, m.ups, q) = Part(history, a.ups, q) \/ Part(history, m.ups, q) = Part(history, b.ups, q)
              /\ Part(history, a.ups, q) \subseteq Part(history, m.ups, q)
  <2>1. Part(history, m.ups, q) = Part(history, a.ups, q) \cup Part(history, b.ups, q)
    BY <1>6 DEF Part
  <2>2. \/ Part(history, a.ups, q) \subseteq Part(history, b.ups, q)
        \/ Part(history, b.ups, q) \subseteq Part(history, a.ups, q)
    BY <1>9 DEF Ordered
  <2> QED BY <2>1, <2>2
<1>12. ASSUME NEW x \in Busy' PROVE Loaded(history, x)'
  <2>1. CASE x = w
    <3>1. work'[w].value = m
      BY <1>8
    <3>2. FromOthers(history, m.ups, s)'
      BY <1>4, <1>5, <1>7, <1>11 DEF FromOthers
    <3>3. NotLess(history, m.ups, s)'
      BY <1>4, <1>7, <1>11 DEF NotLess
    <3> QED BY <1>1, <2>1, <3>1, <3>2, <3>3 DEF Loaded
  <2>2. CASE x # w
    <3>1. x \in Busy /\ work'[x] = work[x]
      BY <1>8, <2>2 DEF Busy
    <3>2. Loaded(history, x)
      BY <1>3, <3>1 DEF ExactInv
    <3> QED BY <1>7, <3>1, <3>2 DEF Loaded, FromOthers, NotLess
  <2> QED BY <2>1, <2>2
<1>13. \A v \in Live' : Exact(v, history')
  BY <1>3, <1>7, <1>8, <1>10 DEF ExactInv
<1>14. Chain(history)'
  BY <1>3, <1>7 DEF ExactInv, Chain
<1> QED BY <1>12, <1>13, <1>14 DEF ExactInv

\* A save of a row that is still the one that was loaded keeps the updates of
\* every site in a line.
LEMMA SaveStateExact ==
    ASSUME CrdtInv, kind = "counter", ~torn', NEW w \in Workers, SaveState(SiteOf[w], w)
    PROVE  ExactInv'
<1>1. PICK s \in Sites : s = SiteOf[w]
  BY CrdtAssumption
<1>2. CrdtTyped /\ work[w] # NoWork /\ w \in Busy /\ UNCHANGED <<kind, history>>
  BY DEF CrdtInv, SaveState, Busy
<1>3. ~torn /\ work[w].fresh /\ ExactInv
  BY DEF SaveState, CrdtInv
<1>4. PICK x : x = work[w].value
  OBVIOUS
<1>5. /\ Live' \subseteq Live /\ Busy' \subseteq Busy \ {w}
      /\ x \in Live /\ sent' = sent \union {x} /\ stored' = [stored EXCEPT ![s] = x]
  BY <1>1, <1>2, <1>4, SaveStateLive
<1>6. \A y \in Busy' : /\ work'[y].value = work[y].value
                       /\ work'[y].fresh => work[y].fresh
                       /\ work'[y].fresh /\ SiteOf[y] = s => stored'[s] = stored[s]
  BY <1>1, <1>2, SaveStateLive
<1>7. FromOthers(history, x.ups, s) /\ NotLess(history, x.ups, s)
  BY <1>1, <1>2, <1>3, <1>4 DEF ExactInv, Loaded
<1>8. /\ stored'[s] = x /\ \A q \in Sites : q # s => stored'[q] = stored[q]
  BY <1>2, <1>5 DEF CrdtTyped
<1>9. /\ \A u, v \in sent : Ordered(history, u.ups, v.ups)
      /\ \A u \in sent, q \in Sites : Part(history, u.ups, q) \subseteq Part(history, stored[q].ups, q)
  BY <1>3 DEF ExactInv, Chain
<1>10. ASSUME NEW u \in sent PROVE Ordered(history, u.ups, x.ups) /\ Ordered(history, x.ups, u.ups)
  <2>1. ASSUME NEW q \in Sites
        PROVE  \/ Part(history, u.ups, q) \subseteq Part(history, x.ups, q)
               \/ Part(history, x.ups, q) \subseteq Part(history, u.ups, q)
    <3>1. CASE q = s
      BY <1>7, <1>9, <3>1 DEF NotLess
    <3>2. CASE q # s
      <4>1. PICK v \in sent : Part(history, x.ups, q) = Part(history, v.ups, q)
        BY <1>7, <3>2 DEF FromOthers
      <4>2. Ordered(history, u.ups, v.ups)
        BY <1>9
      <4> QED BY <4>1, <4>2 DEF Ordered
    <3> QED BY <3>1, <3>2
  <2> QED BY <2>1 DEF Ordered
<1>11. Ordered(history, x.ups, x.ups)
  BY DEF Ordered
<1>12. ASSUME NEW u \in sent', NEW q \in Sites
       PROVE  Part(history, u.ups, q) \subseteq Part(history, stored'[q].ups, q)
  <2>1. CASE q = s
    <3>1. Part(history, stored[s].ups, s) \subseteq Part(history, x.ups, s)
      BY <1>7 DEF NotLess
    <3>2. CASE u = x
      BY <1>8, <2>1, <3>2
    <3>3. CASE u \in sent
      <4>1. Part(history, u.ups, s) \subseteq Part(history, stored[s].ups, s)
        BY <1>9, <3>3
      <4> QED BY <1>8, <2>1, <3>1, <4>1
    <3> QED BY <1>5, <3>2, <3>3
  <2>2. CASE q # s
    <3>1. stored'[q] = stored[q]
      BY <1>8, <2>2
    <3>2. PICK v \in sent : Part(history, u.ups, q) = Part(history, v.ups, q)
      BY <1>5, <1>7, <2>2 DEF FromOthers
    <3> QED BY <1>9, <3>1, <3>2
  <2> QED BY <2>1, <2>2
<1>13. Chain(history)'
  <2>1. \A u, v \in sent' : Ordered(history, u.ups, v.ups)
    BY <1>5, <1>9, <1>10, <1>11
  <2>2. history' = history
    BY <1>2
  <2> QED BY <1>12, <2>1, <2>2 DEF Chain
<1>14. ASSUME NEW y \in Busy' PROVE Loaded(history, y)'
  <2>1. y \in Busy /\ Loaded(history, y) /\ SiteOf[y] \in Sites /\ history' = history
    BY <1>2, <1>3, <1>5, CrdtAssumption DEF ExactInv, Busy
  <2>2. work'[y].value = work[y].value
    BY <1>6
  <2>3. FromOthers(history, work[y].value.ups, SiteOf[y])'
    BY <1>5, <2>1, <2>2 DEF Loaded, FromOthers
  <2>4. ASSUME work'[y].fresh PROVE NotLess(history, work[y].value.ups, SiteOf[y])'
    <3>1. work[y].fresh /\ stored'[SiteOf[y]] = stored[SiteOf[y]]
      BY <1>6, <1>8, <2>1, <2>4
    <3> QED BY <2>1, <2>2, <3>1 DEF Loaded, NotLess
  <2> QED BY <2>2, <2>3, <2>4 DEF Loaded
<1>15. \A v \in Live' : Exact(v, history')
  BY <1>2, <1>3, <1>5 DEF ExactInv
<1> QED BY <1>13, <1>14, <1>15 DEF ExactInv

\* A save that fails takes a state away.
LEMMA SaveFailsExact ==
    ASSUME CrdtInv, kind = "counter", ~torn, NEW w \in Workers, SaveFails(SiteOf[w], w)
    PROVE  ExactInv'
<1>1. CrdtTyped /\ ExactInv
  BY DEF CrdtInv
<1>2. Live' \subseteq Live /\ Busy' \subseteq Busy /\ \A x \in Busy' : work'[x] = work[x]
  BY <1>1, SaveFailsLive
<1>3. UNCHANGED <<stored, sent, history>>
  BY DEF SaveFails
<1>4. Chain(history)' /\ \A v \in Live' : Exact(v, history')
  BY <1>1, <1>2, <1>3 DEF ExactInv, Chain
<1>5. ASSUME NEW x \in Busy' PROVE Loaded(history, x)'
  <2>1. Loaded(history, x) /\ work'[x] = work[x]
    BY <1>1, <1>2 DEF ExactInv
  <2> QED BY <1>3, <2>1 DEF Loaded, FromOthers, NotLess
<1> QED BY <1>4, <1>5 DEF ExactInv

\* No update was made and every state is empty.
LEMMA CrdtInitHolds == CrdtInit => CrdtInv
<1> SUFFICES ASSUME CrdtInit PROVE CrdtInv
  OBVIOUS
<1>1. DOMAIN history = {} /\ Count = 0
  BY FS_EmptySet DEF CrdtInit, Count
<1>2. Busy = {} /\ Live = {EmptyState(kind)}
  BY DEF CrdtInit, Busy, Live
<1>3. PICK v : v = EmptyState(kind)
  OBVIOUS
<1>4. Zero \in Counts /\ \A s \in Sites : Zero[s] = 0
  BY DEF Zero, Counts
<1>5. /\ v \in StatesOf(kind) /\ v.ups = {}
      /\ kind = "counter" => v.pos = Zero /\ v.neg = Zero
      /\ kind = "set" => v.tags = {} /\ v.counters = Zero
      /\ kind = "register" => v.reg = NoReg
  <2>1. CASE kind = "counter"
    BY <1>3, <1>4, <2>1 DEF EmptyState, StatesOf, Counters
  <2>2. CASE kind = "register"
    BY <1>3, <2>2 DEF EmptyState, StatesOf, Registers
  <2>3. CASE kind = "set"
    BY <1>3, <1>4, <2>3 DEF EmptyState, StatesOf, TagSets
  <2> QED BY <2>1, <2>2, <2>3 DEF CrdtInit
<1>6. clock \in [Sites -> Stamps]
  <2>1. \A s \in Sites : [wall |-> 0, counter |-> 0, site |-> s] \in Stamps
    BY DEF Stamps
  <2> QED BY <2>1 DEF CrdtInit
<1>7. CrdtTyped
  <2>1. history \in Histories(0) /\ 0 \in 0..MaxUpdates
    BY <1>1, CrdtAssumption DEF CrdtInit, Histories
  <2>2. stored \in [Sites -> sent]
    BY DEF CrdtInit
  <2>3. work \in [Workers -> {NoWork} \cup [value : StatesOf(kind), fresh : BOOLEAN]]
    BY DEF CrdtInit
  <2>4. Live \subseteq StatesOf(kind) /\ \A x \in Live : x.ups \subseteq 1..Count
    BY <1>2, <1>3, <1>5
  <2> QED BY <1>1, <1>6, <2>1, <2>2, <2>3, <2>4 DEF CrdtTyped, CrdtInit
<1>8. PICK r : r = [i \in 1..0 |-> 1]
  OBVIOUS
<1>9. r \in Ranks(0) /\ r \in [1..0 -> stamps]
  BY <1>8 DEF Ranks
<1>10. \A what : Tally(Zero, history, {}, what, r) /\ Numbers(Zero, history, {}, what)
  <2>1. \A s, what : Of(history, {}, s, what) = {}
    BY DEF Of
  <2>2. Cardinality({}) = 0
    BY FS_EmptySet
  <2> QED BY <1>4, <2>1, <2>2 DEF Tally, Tops, Numbers
<1>11. kind = "counter" => CounterInv
  BY <1>1, <1>2, <1>3, <1>5, <1>9, <1>10 DEF CounterInv, CounterGood
<1>12. kind = "set" => SetInv
  BY <1>1, <1>2, <1>3, <1>5, <1>9, <1>10 DEF SetInv, SetGood
<1>13. kind = "register" => RegisterInv
  <2> SUFFICES ASSUME kind = "register" PROVE RegisterInv
    OBVIOUS
  <2>1. RegisterGood(v, history, r)
    BY <1>5 DEF RegisterGood
  <2>2. 1..Count = {}
    BY <1>1
  <2>3. \A x \in Live : RegisterGood(x, history, r)
    BY <1>2, <1>3, <2>1
  <2>4. r \in [1..Count -> stamps]
    BY <1>1, <1>9
  <2> QED BY <2>2, <2>3, <2>4 DEF RegisterInv
<1>14. kind = "counter" => ExactInv
  <2> SUFFICES ASSUME kind = "counter" PROVE ExactInv
    OBVIOUS
  <2>1. Exact(v, history)
    BY <1>5, <1>10 DEF Exact
  <2>2. sent = {v} /\ \A s \in Sites : stored[s] = v
    BY <1>3 DEF CrdtInit
  <2>3. Chain(history)
    BY <2>2 DEF Chain, Ordered
  <2> QED BY <1>2, <1>3, <2>1, <2>3 DEF ExactInv
<1> QED BY <1>7, <1>11, <1>12, <1>13, <1>14 DEF CrdtInv

\* Every step of the store keeps the invariant.
LEMMA CrdtNextKeeps == CrdtInv /\ [CrdtNext]_crdtVars => CrdtInv'
<1> SUFFICES ASSUME CrdtInv, [CrdtNext]_crdtVars PROVE CrdtInv'
  OBVIOUS
<1>1. ASSUME NEW w \in Workers, NEW up \in BOOLEAN, AddToCounter(SiteOf[w], w, up) PROVE CrdtInv'
  <2>1. kind' = "counter" /\ torn' = torn
    BY <1>1 DEF AddToCounter
  <2> QED BY <1>1, <2>1, AddToCounterKeeps DEF CrdtInv
<1>2. ASSUME NEW w \in Workers, NEW e \in Elements, AddElement(SiteOf[w], w, e) PROVE CrdtInv'
  <2>1. kind' = "set"
    BY <1>2 DEF AddElement
  <2> QED BY <1>2, <2>1, AddElementKeeps DEF CrdtInv
<1>3. ASSUME NEW w \in Workers, NEW e \in Elements, RemoveElement(SiteOf[w], w, e) PROVE CrdtInv'
  <2>1. kind' = "set"
    BY <1>3 DEF RemoveElement
  <2> QED BY <1>3, <2>1, RemoveElementKeeps DEF CrdtInv
<1>4. ASSUME NEW w \in Workers, NEW e \in Elements, NEW now \in 0..MaxClock, SetRegister(SiteOf[w], w, e, now)
      PROVE  CrdtInv'
  <2>1. kind' = "register"
    BY <1>4 DEF SetRegister
  <2> QED BY <1>4, <2>1, SetRegisterKeeps DEF CrdtInv
<1>5. ASSUME NEW w \in Workers, NEW remote \in sent, LoadAndMerge(SiteOf[w], w, remote) PROVE CrdtInv'
  <2>1. UNCHANGED <<kind, torn, late>>
    BY <1>5 DEF LoadAndMerge
  <2>2. kind = "counter" /\ ~torn => ExactInv'
    BY <1>5, LoadAndMergeExact
  <2> QED BY <1>5, <2>1, <2>2, LoadAndMergeKeeps DEF CrdtInv
<1>6. ASSUME NEW w \in Workers, SaveState(SiteOf[w], w) PROVE CrdtInv'
  <2>1. UNCHANGED <<kind, history, stamps, late>> /\ CrdtTyped
    BY <1>6 DEF SaveState, CrdtInv
  <2>2. CrdtTyped' /\ Live' \subseteq Live
    BY <1>6, <2>1, SaveStateLive
  <2>3. kind = "counter" /\ ~torn' => ExactInv'
    BY <1>6, SaveStateExact
  <2> QED BY <2>1, <2>2, <2>3, QuietKeeps DEF CrdtInv
<1>7. ASSUME NEW w \in Workers, SaveFails(SiteOf[w], w) PROVE CrdtInv'
  <2>1. UNCHANGED <<kind, history, stamps, late, torn>> /\ CrdtTyped
    BY <1>7 DEF SaveFails, CrdtInv
  <2>2. CrdtTyped' /\ Live' \subseteq Live
    BY <1>7, <2>1, SaveFailsLive
  <2>3. kind = "counter" /\ ~torn => ExactInv'
    BY <1>7, SaveFailsExact
  <2> QED BY <2>1, <2>2, <2>3, QuietKeeps DEF CrdtInv
<1>8. ASSUME NEW s \in Sites, NEW remote \in stamps, NEW now \in 0..MaxClock, ClockHears(s, remote, now)
      PROVE  CrdtInv'
  BY <1>8, ClockHearsKeeps
<1>9. CASE UNCHANGED crdtVars
  BY <1>9 DEF crdtVars, CrdtInv, CrdtTyped, CounterInv, SetInv, RegisterInv, ExactInv, Live, Busy, Count,
              StatesOf, Chain, Loaded, FromOthers, NotLess
<1> QED BY <1>1, <1>2, <1>3, <1>4, <1>5, <1>6, <1>7, <1>8, <1>9 DEF CrdtNext, WorkerStep

\* The largest rank of a set is one number.
LEMMA TopsUnique ==
    ASSUME NEW n \in Nat, NEW r \in Ranks(n), NEW S, S \subseteq 1..n, NEW a \in Nat, NEW b \in Nat,
           Tops(a, S, r), Tops(b, S, r)
    PROVE  a = b /\ a <= n
<1>1. \A i \in S : r[i] \in Nat /\ r[i] >= 1 /\ r[i] <= n
  BY DEF Ranks
<1> QED BY <1>1 DEF Tops

\* Counts of the same updates are the same counts.
LEMMA TallyUnique ==
    ASSUME NEW n \in Nat, NEW h, NEW r \in Ranks(n), NEW a \in Counts, NEW b \in Counts, NEW ups,
           ups \subseteq 1..n, NEW what, Tally(a, h, ups, what, r), Tally(b, h, ups, what, r)
    PROVE  a = b /\ \A s \in Sites : a[s] \in 0..n
<1>1. ASSUME NEW s \in Sites PROVE a[s] = b[s] /\ a[s] \in 0..n
  <2>1. a[s] \in Nat /\ b[s] \in Nat /\ Of(h, ups, s, what) \subseteq 1..n
    BY DEF Counts, Of
  <2>2. Tops(a[s], Of(h, ups, s, what), r) /\ Tops(b[s], Of(h, ups, s, what), r)
    BY DEF Tally
  <2> QED BY <2>1, <2>2, TopsUnique
<1> QED BY <1>1 DEF Counts

\* The invariant says what CrdtSafety says.
LEMMA CrdtInvIsSafe == CrdtInv => CrdtSafety
<1> SUFFICES ASSUME CrdtInv PROVE CrdtSafety
  OBVIOUS
<1>1. PICK n \in Nat : /\ n = Count /\ n <= MaxUpdates /\ CrdtTyped /\ Ids = 1..n
                       /\ history \in [1..n -> Updates]
  BY TypedFacts DEF CrdtInv, Ids
<1>2. \A v \in sent : v \in Live /\ v \in StatesOf(kind) /\ v.ups \subseteq 1..n
  BY <1>1, TypedFacts DEF Live
<1>3. ASSUME kind = "counter"
      PROVE  /\ \A v \in sent : v.pos \in [Sites -> 0..MaxUpdates] /\ v.neg \in [Sites -> 0..MaxUpdates]
             /\ \A a, b \in sent : a.ups = b.ups => a = b
  <2>1. PICK r \in Ranks(n) : \A v \in Live : CounterGood(v, history, r)
    BY <1>1, <1>3 DEF CrdtInv, CounterInv
  <2>2. ASSUME NEW v \in sent
        PROVE  /\ v \in Counters /\ v.pos \in Counts /\ v.neg \in Counts /\ v.ups \subseteq 1..n
               /\ Tally(v.pos, history, v.ups, "up", r) /\ Tally(v.neg, history, v.ups, "down", r)
    <3>1. v \in Counters /\ v.ups \subseteq 1..n /\ CounterGood(v, history, r)
      BY <1>2, <1>3, <2>1, KindStates
    <3> QED BY <3>1 DEF Counters, CounterGood
  <2>3. ASSUME NEW v \in sent PROVE v.pos \in [Sites -> 0..MaxUpdates] /\ v.neg \in [Sites -> 0..MaxUpdates]
    <3>1. \A s \in Sites : v.pos[s] \in 0..n
      BY <2>2, TallyUnique
    <3>2. \A s \in Sites : v.neg[s] \in 0..n
      BY <2>2, TallyUnique
    <3>3. \A i \in 0..n : i \in 0..MaxUpdates
      BY <1>1, CrdtAssumption
    <3>4. v.pos \in [Sites -> Nat] /\ v.neg \in [Sites -> Nat]
      BY <2>2 DEF Counts
    <3> QED BY <3>1, <3>2, <3>3, <3>4
  <2>4. ASSUME NEW a \in sent, NEW b \in sent, a.ups = b.ups PROVE a = b
    <3>1. a.pos = b.pos
      <4>1. Tally(a.pos, history, a.ups, "up", r) /\ Tally(b.pos, history, a.ups, "up", r)
        BY <2>2, <2>4
      <4>2. a.pos \in Counts /\ b.pos \in Counts /\ a.ups \subseteq 1..n
        BY <2>2
      <4> QED BY <4>1, <4>2, TallyUnique, SMTT(60)
    <3>2. a.neg = b.neg
      <4>1. Tally(a.neg, history, a.ups, "down", r) /\ Tally(b.neg, history, a.ups, "down", r)
        BY <2>2, <2>4
      <4>2. a.neg \in Counts /\ b.neg \in Counts /\ a.ups \subseteq 1..n
        BY <2>2
      <4> QED BY <4>1, <4>2, TallyUnique
    <3>3. a \in Counters /\ b \in Counters
      BY <2>2
    <3> QED BY <2>4, <3>1, <3>2, <3>3 DEF Counters
  <2> QED BY <2>3, <2>4
<1>4. ASSUME kind = "set"
      PROVE  /\ \A v \in sent : \A t \in v.tags : t.n \in 1..v.counters[t.site]
             /\ \A a, b \in sent : a.ups = b.ups /\ (\A i \in a.ups : history[i].what # "remove") => a = b
             /\ AddedElementsStay
  <2>1. PICK r \in Ranks(n) : \A v \in Live : SetGood(v, history, r)
    BY <1>1, <1>4 DEF CrdtInv, SetInv
  <2>2. ASSUME NEW v \in sent
        PROVE  v \in TagSets /\ v.counters \in Counts /\ v.ups \subseteq 1..n /\ SetGood(v, history, r)
    <3>1. v \in TagSets /\ v.ups \subseteq 1..n /\ SetGood(v, history, r)
      BY <1>2, <1>4, <2>1, KindStates
    <3> QED BY <3>1 DEF TagSets
  <2>3. ASSUME NEW v \in sent, NEW t \in v.tags PROVE t.n \in 1..v.counters[t.site]
    <3>1. PICK i \in v.ups : history[i].what = "add" /\ t = TagOf(history, r, i)
      BY <2>2 DEF SetGood
    <3>2. i \in 1..n /\ history[i].site \in Sites /\ t.site = history[i].site /\ t.n = r[i]
      BY <1>1, <2>2, <3>1 DEF TagOf, Updates
    <3>3. PICK s \in Sites : s = history[i].site
      BY <3>2
    <3>4. Tops(v.counters[s], Of(history, v.ups, s, "add"), r) /\ v.counters[s] \in Nat
      BY <2>2 DEF SetGood, Tally, Counts
    <3>5. i \in Of(history, v.ups, s, "add")
      BY <3>1, <3>3 DEF Of
    <3>6. r[i] <= v.counters[s] /\ r[i] \in 1..i
      BY <3>2, <3>4, <3>5 DEF Tops, Ranks
    <3> QED BY <3>2, <3>3, <3>4, <3>6
  <2>4. ASSUME NEW a \in sent, NEW b \in sent, a.ups = b.ups, \A i \in a.ups : history[i].what # "remove" PROVE a = b
    <3>1. a.counters = b.counters
      <4>1. Tally(a.counters, history, a.ups, "add", r) /\ Tally(b.counters, history, a.ups, "add", r)
        BY <2>2, <2>4 DEF SetGood
      <4>2. PICK c \in Counts, d \in Counts : c = a.counters /\ d = b.counters
        BY <2>2
      <4>3. a.ups \subseteq 1..n
        BY <2>2
      <4>4. c = d
        BY <4>1, <4>2, <4>3, TallyUnique
      <4> QED BY <4>2, <4>4
    <3>2. ASSUME NEW v \in sent, v.ups = a.ups
          PROVE  v.tags = {TagOf(history, r, i) : i \in {j \in a.ups : history[j].what = "add"}}
      BY <2>2, <2>4, <3>2 DEF SetGood
    <3>3. a.tags = b.tags
      BY <2>4, <3>2
    <3>4. a \in TagSets /\ b \in TagSets
      BY <2>2
    <3> QED BY <2>4, <3>1, <3>3, <3>4 DEF TagSets
  <2>5. ASSUME NEW v \in sent, NEW i \in v.ups, history[i].what = "add",
               \A j \in Ids : ~(history[j].what = "remove" /\ history[j].element = history[i].element)
        PROVE  \E t \in v.tags : t.element = history[i].element
    <3>1. \A j \in v.ups : j \in Ids
      BY <1>1, <2>2
    <3>2. TagOf(history, r, i) \in v.tags
      BY <2>2, <2>5, <3>1 DEF SetGood
    <3>3. TagOf(history, r, i).element = history[i].element
      BY DEF TagOf
    <3> QED BY <3>2, <3>3
  <2>6. AddedElementsStay
    BY <2>5 DEF AddedElementsStay
  <2> QED BY <2>3, <2>4, <2>6
<1>5. ASSUME kind = "register", ~late, NEW a \in sent, NEW b \in sent, a.ups = b.ups PROVE a = b
  <2>1. PICK r \in [1..n -> stamps] : \A v \in Live : RegisterGood(v, history, r)
    BY <1>1, <1>5 DEF CrdtInv, RegisterInv
  <2>2. /\ a \in Registers /\ b \in Registers /\ a.ups \subseteq 1..n
        /\ RegisterGood(a, history, r) /\ RegisterGood(b, history, r)
    BY <1>2, <1>5, <2>1, KindStates
  <2>3. \A i \in 1..n : r[i] \in Stamps
    BY <1>1, <2>1 DEF CrdtTyped
  <2>4. a.reg = b.reg
    <3>1. CASE a.ups = {}
      BY <1>5, <2>2, <3>1 DEF RegisterGood
    <3>2. CASE a.ups # {}
      <4>1. PICK i \in a.ups : /\ a.reg = [value |-> history[i].element, stamp |-> r[i]]
                               /\ \A j \in a.ups : j # i => HlcAfter(r[i], r[j])
        BY <2>2, <3>2 DEF RegisterGood
      <4>2. PICK k \in a.ups : /\ b.reg = [value |-> history[k].element, stamp |-> r[k]]
                               /\ \A j \in a.ups : j # k => HlcAfter(r[k], r[j])
        BY <1>5, <2>2, <3>2 DEF RegisterGood
      <4>3. i = k
        BY <2>2, <2>3, <4>1, <4>2, StampOrder
      <4> QED BY <4>1, <4>2, <4>3
    <3> QED BY <3>1, <3>2
  <2> QED BY <1>5, <2>2, <2>4 DEF Registers
<1>6. kind \in {"counter", "register", "set"}
  BY <1>1 DEF CrdtTyped
<1>7. CrdtTypeOK
  <2>1. \A s \in Sites : stored[s] \in sent
    BY <1>1, TypedFacts
  <2>2. \A v \in sent : v.ups \subseteq Ids
    BY <1>1, <1>2
  <2> QED BY <1>3, <1>4, <2>1, <2>2 DEF CrdtTypeOK
<1>8. SameUpdatesSameState
  BY <1>3, <1>4, <1>5, <1>6 DEF SameUpdatesSameState
<1>9. CountersAreExact
  <2> SUFFICES ASSUME kind = "counter", ~torn, NEW v \in sent, NEW s \in Sites
               PROVE  /\ v.pos[s] = Cardinality(Of(history, v.ups, s, "up"))
                      /\ v.neg[s] = Cardinality(Of(history, v.ups, s, "down"))
    BY DEF CountersAreExact, Of
  <2>1. Exact(v, history)
    BY <1>2 DEF CrdtInv, ExactInv
  <2> QED BY <2>1 DEF Exact, Numbers
<1>10. AddedElementsStay
  BY <1>4 DEF AddedElementsStay
<1> QED BY <1>7, <1>8, <1>9, <1>10 DEF CrdtSafety

\* For any sites, workers and updates, however states are delayed, reordered,
\* repeated and lost: states that include the same updates are the same state, the
\* counters of workers that do not overlap are exact, and no added element is lost.
THEOREM CrdtIsSafe == CrdtSpec => []CrdtSafety
  BY CrdtInitHolds, CrdtNextKeeps, CrdtInvIsSafe, PTL DEF CrdtSpec

-----------------------------------------------------------------------------
(* The passphrase of the database *)

\* The files, secrets, processes and ghosts there can be.
Keyed == Passes \cup {NoPass}
DbFiles == [kind : {"missing", "plain", "sealed"}, key : Keyed, data : BOOLEAN]
AsideFiles == [temp : BOOLEAN, backup : BOOLEAN]
Secrets == [db : Keyed, token : Keyed]
Desks == [pc : {"down", "init", "export", "stage", "replace", "open", "start", "up"},
          mode : {"unlock", "setup"}, try : Keyed, attempt : 0..(kMaxUnlockAttempts - 1)]
Changes == [pc : {"idle", "rotate", "rotated", "rekeyed", "switched"}, cur : Keyed, next : Keyed]
Writers == [pc : {"idle", "opened", "sealed"}, kind : {"login", "refresh", "normalize"},
            acct : DbAccounts \cup {NoWriter.acct}, conn : Keyed, key : Keyed]
Ghosts == [had : BOOLEAN, causes : SUBSET {"crash", "rollback", "late write"}]

PassTyped ==
    /\ file \in DbFiles /\ aside \in AsideFiles
    /\ sealedBy \in [DbAccounts -> Passes \cup {"plain", "none"}]
    /\ saved \in Keyed /\ session \in Secrets /\ desk \in Desks
    /\ change \in Changes /\ writer \in Writers /\ ghost \in Ghosts

\* What the desktop is doing, and the files and secrets it has by then.
DeskOK ==
    /\ desk.pc \in {"init", "export", "stage", "replace", "open", "start"} => desk.try \in Passes
    /\ desk.pc \in {"export", "stage", "replace", "open", "start"} =>
         session.db = desk.try /\ session.token = desk.try
    /\ desk.pc \in {"export", "stage"} => file.kind = "plain"
    /\ desk.pc = "replace" => file.kind = "missing" /\ aside.backup
    /\ desk.pc = "start" => file.kind = "sealed" /\ file.key = session.db
    /\ desk.pc = "up" => file.kind = "sealed" /\ file.key \in Passes

\* How far a passphrase change is, and which of the two keys is where.
ChangeOK ==
    /\ change.pc # "idle" => desk.pc = "up" /\ change.cur \in Passes /\ change.next \in Passes
    /\ desk.pc = "up" /\ change.pc \in {"idle", "rotate", "rotated"} =>
         session.db = file.key /\ session.token = file.key
    /\ change.pc \in {"rotate", "rotated"} => change.cur = file.key
    /\ change.pc \in {"rekeyed", "switched"} => file.key = change.next
    /\ change.pc = "rekeyed" => session.db \in Passes /\ session.token \in Passes
    /\ change.pc = "switched" => session.db = change.next /\ session.token \in Passes

\* A worker writes with keys of the session, and only while it is up.
WriterOK ==
    /\ writer.pc # "idle" => desk.pc = "up" /\ writer.acct \in DbAccounts
    /\ writer.pc = "sealed" => writer.key \in Passes

\* A plaintext file has the user's data, and no token in it is sealed; the
\* tokens of an encrypted one are under its key, or the one it will be given.
TokensOK ==
    /\ file.kind = "plain" => file.data
    /\ file.kind # "sealed" => \A a \in DbAccounts : sealedBy[a] \in {"plain", "none"}
    /\ file.kind = "sealed" /\ ghost.causes = {} =>
         \A a \in DbAccounts :
            sealedBy[a] \in {"plain", "none", IF change.pc = "rotated" THEN change.next ELSE file.key}

PassInv == PassTyped /\ DeskOK /\ ChangeOK /\ WriterOK /\ TokensOK /\ DataIsKept

\* The records of what is not there or at rest.
LEMMA RestingRecords ==
    /\ MissingFile \in DbFiles /\ NoSession \in Secrets /\ DeskDown \in Desks
    /\ NoChange \in Changes /\ NoWriter \in Writers
    /\ MissingFile.kind = "missing" /\ DeskDown.pc = "down" /\ NoChange.pc = "idle" /\ NoWriter.pc = "idle"
  BY PassphraseAssumption DEF MissingFile, NoSession, DeskDown, NoChange, NoWriter, DbFiles, Secrets,
     Desks, Changes, Writers, Keyed

\* The application is down; the file is missing, plain or encrypted.
LEMMA PassInitHolds == PassphraseInit => PassInv
<1> SUFFICES ASSUME PassphraseInit PROVE PassInv
  OBVIOUS
<1> USE PassphraseAssumption
<1>1. /\ desk = DeskDown /\ session = NoSession /\ change = NoChange /\ writer = NoWriter
      /\ aside = [temp |-> FALSE, backup |-> FALSE]
      /\ ghost = [had |-> file.data, causes |-> {}] /\ saved \in Keyed
  BY DEF PassphraseInit, Keyed
<1>2. /\ file \in DbFiles /\ (file.kind = "plain" => file.data)
      /\ sealedBy \in [DbAccounts -> Passes \cup {"plain", "none"}]
      /\ file.kind # "sealed" => \A a \in DbAccounts : sealedBy[a] \in {"plain", "none"}
      /\ file.kind = "sealed" => \A a \in DbAccounts : sealedBy[a] \in {"plain", "none", file.key}
  <2>1. CASE file = MissingFile /\ sealedBy = [a \in DbAccounts |-> "none"]
    BY <2>1, RestingRecords
  <2>2. CASE /\ file = [kind |-> "plain", key |-> NoPass, data |-> TRUE]
             /\ sealedBy = [a \in DbAccounts |-> "plain"]
    <3>1. file \in DbFiles /\ file.kind = "plain" /\ file.data
      BY <2>2 DEF DbFiles, Keyed
    <3> QED BY <2>2, <3>1
  <2>3. ASSUME NEW p \in Passes, file = [kind |-> "sealed", key |-> p, data |-> TRUE],
               sealedBy \in [DbAccounts -> {"plain", p}]
        PROVE  /\ file \in DbFiles /\ (file.kind = "plain" => file.data)
               /\ sealedBy \in [DbAccounts -> Passes \cup {"plain", "none"}]
               /\ file.kind # "sealed" => \A a \in DbAccounts : sealedBy[a] \in {"plain", "none"}
               /\ file.kind = "sealed" => \A a \in DbAccounts : sealedBy[a] \in {"plain", "none", file.key}
    <3>1. file \in DbFiles /\ file.kind = "sealed" /\ file.key = p
      BY <2>3 DEF DbFiles, Keyed
    <3>2. \A a \in DbAccounts : sealedBy[a] \in {"plain", p}
      BY <2>3
    <3> QED BY <2>3, <3>1, <3>2
  <2> QED BY <2>1, <2>2, <2>3 DEF PassphraseInit
<1>3. ghost \in Ghosts /\ aside \in AsideFiles /\ ghost.had = file.data
  BY <1>1, <1>2 DEF Ghosts, AsideFiles, DbFiles
<1>4. PassTyped
  BY <1>1, <1>2, <1>3, RestingRecords DEF PassTyped
<1>5. DeskOK /\ ChangeOK /\ WriterOK
  BY <1>1, RestingRecords DEF DeskOK, ChangeOK, WriterOK
<1>6. TokensOK /\ DataIsKept
  BY <1>1, <1>2, <1>3, RestingRecords DEF TokensOK, DataIsKept
<1> QED BY <1>4, <1>5, <1>6 DEF PassInv

\* The desktop, the session and the saved passphrase change; the change and the
\* worker rest.
LEMMA StartupKeeps ==
    ASSUME PassInv, PassTyped', DeskOK', TokensOK', DataIsKept', desk.pc # "up", desk'.pc # "up",
           UNCHANGED <<change, writer>>
    PROVE  PassInv'
<1>1. change.pc = "idle" /\ writer.pc = "idle"
  BY DEF PassInv, ChangeOK, WriterOK
<1> QED BY <1>1 DEF PassInv, ChangeOK, WriterOK

\* The prompt ends, with a passphrase or without.
LEMMA SelectedDesk ==
    ASSUME NEW mode \in {"unlock", "setup"}, NEW p \in Keyed, NEW n \in 0..(kMaxUnlockAttempts - 1),
           Selected(mode, p, n)
    PROVE  /\ desk' \in Desks /\ desk'.pc \in {"down", "init"}
           /\ desk'.pc = "init" => desk'.try \in Passes
<1>1. CASE p = NoPass
  BY <1>1, RestingRecords DEF Selected
<1>2. CASE p # NoPass
  <2>1. PICK d : d = [pc |-> "init", mode |-> mode, try |-> p, attempt |-> n]
    OBVIOUS
  <2>2. d \in Desks /\ d.pc = "init" /\ d.try = p /\ p \in Passes
    BY <1>2, <2>1 DEF Desks, Keyed
  <2> QED BY <1>2, <2>1, <2>2 DEF Selected
<1> QED BY <1>1, <1>2

\* After a failed start the desktop asks again or is down.
LEMMA UnlockFailedDesk ==
    ASSUME PassInv, UnlockFailed
    PROVE  /\ desk' \in Desks /\ desk'.pc \in {"down", "init"}
           /\ desk'.pc = "init" => desk'.try \in Passes
           /\ session' = NoSession /\ saved' \in Keyed
<1>1. session' = NoSession /\ saved' \in Keyed
  BY DEF UnlockFailed, DeleteSavedPassphrase, PassInv, PassTyped, Keyed
<1>2. CASE desk' = DeskDown
  BY <1>1, <1>2, RestingRecords
<1>3. CASE desk' # DeskDown
  <2>1. PromptForUnlockPassphrase(desk.attempt + 1) /\ ~(desk.attempt + 1 >= kMaxUnlockAttempts)
    BY <1>3 DEF UnlockFailed
  <2>2. PICK p \in Keyed : Selected("unlock", p, desk.attempt + 1)
    BY <2>1 DEF PromptForUnlockPassphrase, ShowPassphrasePrompt, Keyed
  <2>3. desk.attempt + 1 \in 0..(kMaxUnlockAttempts - 1)
    BY <2>1, PassphraseAssumption DEF PassInv, PassTyped, Desks
  <2> QED BY <1>1, <2>2, <2>3, SelectedDesk
<1> QED BY <1>2, <1>3

\* A failed start leaves files and tokens as they are, or puts the backup back.
LEMMA UnlockFailedKeeps ==
    ASSUME PassInv, UnlockFailed, desk.pc # "up", UNCHANGED <<sealedBy, change, writer, ghost>>,
           file' \in DbFiles, aside' \in AsideFiles, file'.kind = "plain" => file'.data,
           (file'.kind = file.kind /\ file'.key = file.key) \/ (file.kind # "sealed" /\ file'.kind # "sealed"),
           DataIsKept'
    PROVE  PassInv'
<1>1. /\ desk' \in Desks /\ desk'.pc \in {"down", "init"} /\ (desk'.pc = "init" => desk'.try \in Passes)
      /\ session' = NoSession /\ saved' \in Keyed
  BY UnlockFailedDesk
<1>2. PassTyped'
  BY <1>1, RestingRecords DEF PassInv, PassTyped
<1>3. DeskOK'
  BY <1>1 DEF DeskOK
<1>4. change.pc = "idle"
  BY DEF PassInv, ChangeOK
<1>5. TokensOK'
  BY <1>4 DEF PassInv, TokensOK
<1> QED BY <1>1, <1>2, <1>3, <1>5, StartupKeeps

\* Only the desktop process moves, to another point of its start.
LEMMA DeskMoves ==
    ASSUME PassInv, NEW s \in {"export", "open", "stage", "replace", "start"},
           desk' = [desk EXCEPT !.pc = s]
    PROVE  desk' \in Desks /\ desk'.pc = s /\ desk'.try = desk.try
<1>1. desk \in Desks
  BY DEF PassInv, PassTyped
<1> QED BY <1>1 DEF Desks

\* A passphrase is asked for: nothing but the desktop process changes.
LEMMA RequestKeeps == PassInv /\ RequestDatabasePassphrase => PassInv'
<1> SUFFICES ASSUME PassInv, RequestDatabasePassphrase PROVE PassInv'
  OBVIOUS
<1>1. PICK mode \in {"unlock", "setup"}, p \in Keyed : Selected(mode, p, 0)
  <2>1. saved \in Keyed /\ NoPass \in Keyed
    BY DEF PassInv, PassTyped, Keyed
  <2> QED BY <2>1 DEF RequestDatabasePassphrase, LoadPassphrase, PromptForUnlockPassphrase,
             PromptForSetupPassphrase, ShowPassphrasePrompt, Keyed
<1>2. 0 \in 0..(kMaxUnlockAttempts - 1)
  BY PassphraseAssumption
<1>3. /\ desk' \in Desks /\ desk'.pc \in {"down", "init"} /\ (desk'.pc = "init" => desk'.try \in Passes)
  BY <1>1, <1>2, SelectedDesk
<1>4. desk.pc = "down" /\ UNCHANGED <<file, aside, sealedBy, saved, session, change, writer, ghost>>
  BY DEF RequestDatabasePassphrase
<1>5. PassTyped' /\ DeskOK'
  BY <1>3, <1>4 DEF PassInv, PassTyped, DeskOK
<1>6. TokensOK' /\ DataIsKept'
  BY <1>4 DEF PassInv, TokensOK, DataIsKept
<1> QED BY <1>3, <1>4, <1>5, <1>6, StartupKeeps

\* Both secrets are set, and the file is opened or migrated next.
LEMMA BridgeInitKeeps == PassInv /\ BridgeInit => PassInv'
<1> SUFFICES ASSUME PassInv, BridgeInit PROVE PassInv'
  OBVIOUS
<1>1. desk.pc = "init" /\ desk.try \in Passes /\ session \in Secrets
  BY DEF BridgeInit, PassInv, PassTyped, DeskOK
<1>2. session' \in Secrets /\ session'.db = desk.try /\ session'.token = desk.try
  <2>1. PICK s : s = [session EXCEPT !.token = desk.try]
    OBVIOUS
  <2>2. s \in Secrets /\ s.token = desk.try
    BY <1>1, <2>1 DEF Secrets, Keyed
  <2>3. session' = [s EXCEPT !.db = desk.try]
    BY <2>1 DEF BridgeInit, ConfigureTokenStorage
  <2> QED BY <1>1, <2>2, <2>3 DEF Secrets, Keyed
<1>4. /\ desk' \in Desks /\ desk'.try = desk.try /\ desk'.pc \in {"export", "open"}
      /\ desk'.pc = "export" => file.kind = "plain"
  <2>1. CASE file.kind = "plain"
    <3>1. desk' = [desk EXCEPT !.pc = "export"]
      BY <2>1 DEF BridgeInit
    <3>2. desk' \in Desks /\ desk'.pc = "export" /\ desk'.try = desk.try
      BY <3>1, DeskMoves
    <3> QED BY <2>1, <3>2
  <2>2. CASE file.kind # "plain"
    <3>1. desk' = [desk EXCEPT !.pc = "open"]
      BY <2>2 DEF BridgeInit
    <3>2. desk' \in Desks /\ desk'.pc = "open" /\ desk'.try = desk.try
      BY <3>1, DeskMoves
    <3> QED BY <3>2
  <2> QED BY <2>1, <2>2
<1>5. UNCHANGED <<file, aside, sealedBy, saved, change, writer, ghost>>
  BY DEF BridgeInit
<1>6. PassTyped' /\ DeskOK'
  <2>1. PassTyped'
    BY <1>2, <1>4, <1>5 DEF PassInv, PassTyped
  <2>2. desk'.pc \in {"export", "open"} /\ (desk'.pc = "export" => file'.kind = "plain")
    BY <1>4, <1>5
  <2>3. desk'.try \in Passes /\ session'.db = desk'.try /\ session'.token = desk'.try
    BY <1>1, <1>2, <1>4
  <2> QED BY <2>1, <2>2, <2>3 DEF DeskOK
<1>7. TokensOK' /\ DataIsKept'
  BY <1>5 DEF PassInv, TokensOK, DataIsKept
<1> QED BY <1>1, <1>4, <1>5, <1>6, <1>7, StartupKeeps

\* The pool opens the file with its key, creates it, or asks again.
LEMMA PoolOpenKeeps == PassInv /\ PoolOpen => PassInv'
<1> SUFFICES ASSUME PassInv, PoolOpen PROVE PassInv'
  OBVIOUS
<1>0. desk.pc = "open" /\ UNCHANGED <<aside, change, writer, ghost>> /\ file \in DbFiles
  BY DEF PoolOpen, PassInv, PassTyped
<1>1. CASE ApplySessionKey
  <2>1. /\ file' = [file EXCEPT !.kind = "sealed", !.key = session.db]
        /\ desk' = [desk EXCEPT !.pc = "start"]
        /\ sealedBy' = IF file.kind = "missing" THEN [a \in DbAccounts |-> "none"] ELSE sealedBy
        /\ UNCHANGED <<session, saved>>
    BY <1>1 DEF PoolOpen
  <2>2. desk.try \in Passes /\ session.db = desk.try /\ session.token = desk.try
    BY <1>0 DEF PassInv, DeskOK
  <2>3. file' \in DbFiles /\ file'.kind = "sealed" /\ file'.key = session.db /\ file'.data = file.data
    BY <1>0, <2>1, <2>2 DEF DbFiles, Keyed
  <2>4. desk' \in Desks /\ desk'.pc = "start" /\ desk'.try = desk.try
    BY <2>1, DeskMoves
  <2>5. sealedBy' \in [DbAccounts -> Passes \cup {"plain", "none"}]
    BY <2>1 DEF PassInv, PassTyped
  <2>6. PassTyped' /\ DeskOK'
    BY <1>0, <2>1, <2>2, <2>3, <2>4, <2>5 DEF PassInv, PassTyped, DeskOK
  <2>7. change.pc = "idle"
    BY <1>0 DEF PassInv, ChangeOK
  <2>8. ASSUME ghost.causes = {}
        PROVE  \A a \in DbAccounts : sealedBy'[a] \in {"plain", "none", file'.key}
    <3>1. CASE file.kind = "missing"
      BY <2>1, <3>1
    <3>2. CASE file.kind = "sealed" /\ file.key = session.db
      BY <2>1, <2>3, <2>7, <2>8, <3>2 DEF PassInv, TokensOK
    <3> QED BY <1>1, <3>1, <3>2 DEF ApplySessionKey
  <2>9. TokensOK' /\ DataIsKept'
    BY <1>0, <2>3, <2>7, <2>8 DEF PassInv, TokensOK, DataIsKept
  <2> QED BY <1>0, <2>4, <2>6, <2>9, StartupKeeps
<1>2. CASE ~ApplySessionKey
  <2>1. UnlockFailed /\ UNCHANGED <<file, sealedBy>>
    BY <1>2 DEF PoolOpen
  <2>2. DataIsKept' /\ aside' \in AsideFiles
    BY <1>0, <2>1 DEF PassInv, DataIsKept, PassTyped
  <2>3. file.kind = "plain" => file.data
    BY DEF PassInv, TokensOK
  <2> QED BY <1>0, <2>1, <2>2, <2>3, UnlockFailedKeeps
<1> QED BY <1>1, <1>2

\* The runtime comes up with the keys the file has, or the application ends.
LEMMA RuntimeStartsKeeps == PassInv /\ RuntimeStarts => PassInv'
<1> SUFFICES ASSUME PassInv, RuntimeStarts PROVE PassInv'
  OBVIOUS
<1>0. desk.pc = "start" /\ UNCHANGED <<file, aside, sealedBy, change, writer, ghost>> /\ desk \in Desks
  BY DEF RuntimeStarts, PassInv, PassTyped
<1>t. TokensOK' /\ DataIsKept'
  BY <1>0 DEF PassInv, TokensOK, DataIsKept
<1>k. /\ desk.try \in Passes /\ session.db = desk.try /\ session.token = desk.try
      /\ file.kind = "sealed" /\ file.key = session.db
  BY <1>0 DEF PassInv, DeskOK
<1>i. change.pc = "idle" /\ writer.pc = "idle"
  BY <1>0 DEF PassInv, ChangeOK, WriterOK
<1>1. CASE /\ SavePassphrase(desk.try)
           /\ desk' = [desk EXCEPT !.pc = "up", !.try = NoPass, !.attempt = 0]
           /\ UNCHANGED session
  <2>1. desk' \in Desks /\ desk'.pc = "up"
    <3>1. PICK d : d = [desk EXCEPT !.pc = "up", !.try = NoPass]
      OBVIOUS
    <3>2. d \in Desks /\ d.pc = "up"
      BY <1>0, <3>1 DEF Desks, Keyed
    <3>3. desk' = [d EXCEPT !.attempt = 0]
      BY <1>1, <3>1
    <3> QED BY <3>2, <3>3, PassphraseAssumption DEF Desks
  <2>2. saved' \in Keyed
    BY <1>1, <1>k DEF SavePassphrase, PassInv, PassTyped, Keyed
  <2>3. PassTyped' /\ DeskOK'
    BY <1>0, <1>1, <1>k, <2>1, <2>2 DEF PassInv, PassTyped, DeskOK
  <2>4. ChangeOK' /\ WriterOK'
    BY <1>0, <1>1, <1>k, <1>i DEF ChangeOK, WriterOK
  <2> QED BY <1>t, <2>3, <2>4 DEF PassInv
<1>2. CASE desk' = DeskDown /\ session' = NoSession /\ UNCHANGED saved
  <2>1. PassTyped' /\ DeskOK' /\ desk'.pc = "down"
    BY <1>0, <1>2, RestingRecords DEF PassInv, PassTyped, DeskOK
  <2> QED BY <1>0, <1>t, <2>1, StartupKeeps
<1> QED BY <1>1, <1>2 DEF RuntimeStarts

\* The encrypted copy is written beside the plaintext file.
LEMMA ExportKeeps == PassInv /\ ExportEncrypted => PassInv'
<1> SUFFICES ASSUME PassInv, ExportEncrypted PROVE PassInv'
  OBVIOUS
<1>0. desk.pc = "export" /\ UNCHANGED <<file, sealedBy, change, writer, ghost>> /\ aside \in AsideFiles
      /\ file \in DbFiles /\ file.kind = "plain" /\ file.data
  BY DEF ExportEncrypted, PassInv, PassTyped, DeskOK, TokensOK
<1>t. TokensOK' /\ DataIsKept'
  BY <1>0 DEF PassInv, TokensOK, DataIsKept
<1>1. CASE /\ aside' = [aside EXCEPT !.temp = TRUE] /\ desk' = [desk EXCEPT !.pc = "stage"]
           /\ UNCHANGED <<session, saved>>
  <2>1. aside' \in AsideFiles
    BY <1>0, <1>1 DEF AsideFiles
  <2>2. desk' \in Desks /\ desk'.pc = "stage" /\ desk'.try = desk.try
    BY <1>1, DeskMoves
  <2>3. PassTyped' /\ DeskOK'
    BY <1>0, <1>1, <2>1, <2>2 DEF PassInv, PassTyped, DeskOK
  <2> QED BY <1>0, <1>t, <2>2, <2>3, StartupKeeps
<1>2. CASE UnlockFailed /\ UNCHANGED aside
  BY <1>0, <1>t, <1>2, UnlockFailedKeeps
<1> QED BY <1>1, <1>2 DEF ExportEncrypted

\* The plaintext file becomes the backup.
LEMMA StageKeeps == PassInv /\ StagePlaintext => PassInv'
<1> SUFFICES ASSUME PassInv, StagePlaintext PROVE PassInv'
  OBVIOUS
<1>0. desk.pc = "stage" /\ UNCHANGED <<sealedBy, change, writer, ghost>> /\ aside \in AsideFiles
      /\ file \in DbFiles /\ file.kind = "plain" /\ file.data
  BY DEF StagePlaintext, PassInv, PassTyped, DeskOK, TokensOK
<1>1. CASE /\ aside' = [aside EXCEPT !.backup = TRUE] /\ file' = MissingFile
           /\ desk' = [desk EXCEPT !.pc = "replace"] /\ UNCHANGED <<session, saved>>
  <2>1. aside' \in AsideFiles /\ aside'.backup
    BY <1>0, <1>1 DEF AsideFiles
  <2>2. desk' \in Desks /\ desk'.pc = "replace" /\ desk'.try = desk.try
    BY <1>1, DeskMoves
  <2>3. file' \in DbFiles /\ file'.kind = "missing"
    BY <1>1, RestingRecords
  <2>4. PassTyped' /\ DeskOK'
    BY <1>0, <1>1, <2>1, <2>2, <2>3 DEF PassInv, PassTyped, DeskOK
  <2>5. TokensOK' /\ DataIsKept'
    BY <1>0, <2>1, <2>3 DEF PassInv, TokensOK, DataIsKept
  <2> QED BY <1>0, <2>2, <2>4, <2>5, StartupKeeps
<1>2. CASE UnlockFailed /\ aside' = [aside EXCEPT !.temp = FALSE] /\ UNCHANGED file
  <2>1. aside' \in AsideFiles
    BY <1>0, <1>2 DEF AsideFiles
  <2>2. DataIsKept'
    BY <1>0, <1>2 DEF DataIsKept
  <2> QED BY <1>0, <1>2, <2>1, <2>2, UnlockFailedKeeps
<1> QED BY <1>1, <1>2 DEF StagePlaintext

\* The copy takes the place of the file, or the backup is put back.
LEMMA ReplaceKeeps == PassInv /\ ReplacePlaintext => PassInv'
<1> SUFFICES ASSUME PassInv, ReplacePlaintext PROVE PassInv'
  OBVIOUS
<1>0. desk.pc = "replace" /\ UNCHANGED <<sealedBy, change, writer, ghost>> /\ aside \in AsideFiles
      /\ file \in DbFiles /\ file.kind = "missing" /\ aside.backup
  BY DEF ReplacePlaintext, PassInv, PassTyped, DeskOK
<1>k. /\ desk.try \in Passes /\ session.db = desk.try /\ session.token = desk.try
  BY <1>0 DEF PassInv, DeskOK
<1>1. CASE /\ file' = [kind |-> "sealed", key |-> session.db, data |-> TRUE]
           /\ aside' \in {[temp |-> FALSE, backup |-> b] : b \in BOOLEAN}
           /\ desk' = [desk EXCEPT !.pc = "open"]
           /\ UNCHANGED <<session, saved>>
  <2>1. aside' \in AsideFiles
    <3>1. PICK b \in BOOLEAN : aside' = [temp |-> FALSE, backup |-> b]
      BY <1>1
    <3> QED BY <3>1 DEF AsideFiles
  <2>2. desk' \in Desks /\ desk'.pc = "open" /\ desk'.try = desk.try
    BY <1>1, DeskMoves
  <2>3. file' \in DbFiles /\ file'.kind = "sealed" /\ file'.data
    BY <1>1, <1>k DEF DbFiles, Keyed
  <2>4. PassTyped' /\ DeskOK'
    BY <1>0, <1>1, <1>k, <2>1, <2>2, <2>3 DEF PassInv, PassTyped, DeskOK
  <2>5. TokensOK' /\ DataIsKept'
    BY <1>0, <2>3 DEF PassInv, TokensOK, DataIsKept
  <2> QED BY <1>0, <2>2, <2>4, <2>5, StartupKeeps
<1>2. CASE ReplacementFails
  <2>1. CASE /\ aside' = [temp |-> FALSE, backup |-> FALSE]
             /\ file' = [kind |-> "plain", key |-> NoPass, data |-> TRUE]
    <3>1. aside' \in AsideFiles
      BY <2>1 DEF AsideFiles
    <3>2. file' \in DbFiles /\ file'.kind = "plain" /\ file'.data
      BY <2>1 DEF DbFiles, Keyed
    <3>3. DataIsKept' /\ UnlockFailed
      BY <1>2, <3>2 DEF DataIsKept, ReplacementFails
    <3> QED BY <1>0, <3>1, <3>2, <3>3, UnlockFailedKeeps
  <2>2. CASE aside' = [aside EXCEPT !.temp = FALSE] /\ UNCHANGED file
    <3>1. aside' \in AsideFiles /\ aside'.backup
      BY <1>0, <2>2 DEF AsideFiles
    <3>2. DataIsKept' /\ UnlockFailed
      BY <1>2, <3>1 DEF DataIsKept, ReplacementFails
    <3> QED BY <1>0, <2>2, <3>1, <3>2, UnlockFailedKeeps
  <2> QED BY <1>2, <2>1, <2>2 DEF ReplacementFails
<1> QED BY <1>1, <1>2 DEF ReplacePlaintext

\* An orderly shutdown: the two secrets are forgotten.
LEMMA ShutdownKeeps == PassInv /\ BridgeShutdown => PassInv'
<1> SUFFICES ASSUME PassInv, BridgeShutdown PROVE PassInv'
  OBVIOUS
<1>1. /\ change.pc = "idle" /\ writer.pc = "idle" /\ desk' = DeskDown /\ session' = NoSession
      /\ UNCHANGED <<file, aside, sealedBy, saved, change, writer, ghost>>
  BY DEF BridgeShutdown, BeforeQuit
<1>2. PassTyped' /\ DeskOK' /\ ChangeOK' /\ WriterOK'
  BY <1>1, RestingRecords DEF PassInv, PassTyped, DeskOK, ChangeOK, WriterOK
<1>3. TokensOK' /\ DataIsKept'
  BY <1>1 DEF PassInv, TokensOK, DataIsKept
<1> QED BY <1>2, <1>3 DEF PassInv

\* A cause is recorded and what there was to keep is not forgotten.
LEMMA CauseRecorded ==
    ASSUME PassInv, NEW c \in {"crash", "rollback", "late write"},
           ghost' = [ghost EXCEPT !.causes = @ \cup {c}]
    PROVE  ghost' \in Ghosts /\ ghost'.causes # {} /\ ghost'.had = ghost.had
<1>1. ghost \in Ghosts
  BY DEF PassInv, PassTyped
<1> QED BY <1>1 DEF Ghosts

\* A crash forgets the change and the worker; between the rotation and the
\* rekey it orphans the tokens, which the ghost records.
LEMMA CrashKeeps == PassInv /\ Crash => PassInv'
<1> SUFFICES ASSUME PassInv, Crash PROVE PassInv'
  OBVIOUS
<1>1. /\ desk' = DeskDown /\ session' = NoSession /\ change' = NoChange /\ writer' = NoWriter
      /\ UNCHANGED <<file, aside, sealedBy, saved>>
  BY DEF Crash
<1>2. /\ ghost' \in Ghosts /\ ghost'.had = ghost.had
      /\ ghost'.causes = {} => change.pc # "rotated" /\ ghost.causes = {}
  <2>1. CASE change.pc = "rotated"
    BY <2>1, CauseRecorded DEF Crash
  <2>2. CASE change.pc # "rotated"
    BY <2>2 DEF Crash, PassInv, PassTyped
  <2> QED BY <2>1, <2>2
<1>3. PassTyped' /\ DeskOK' /\ ChangeOK' /\ WriterOK'
  BY <1>1, <1>2, RestingRecords DEF PassInv, PassTyped, DeskOK, ChangeOK, WriterOK
<1>4. TokensOK' /\ DataIsKept'
  BY <1>1, <1>2, RestingRecords DEF PassInv, TokensOK, DataIsKept
<1> QED BY <1>3, <1>4 DEF PassInv

\* The conjuncts a step of the running application can disturb, when it leaves
\* the files, the desktop process and the ghost alone.
LEMMA RunningKeeps ==
    ASSUME PassInv, PassTyped', ChangeOK', WriterOK', desk.pc = "up",
           UNCHANGED <<desk, aside>>, file'.kind = "sealed", file'.key \in Passes,
           file'.data = file.data, ghost'.had = ghost.had,
           ghost'.causes = {} =>
              \A a \in DbAccounts : sealedBy'[a] \in
                 {"plain", "none", IF change'.pc = "rotated" THEN change'.next ELSE file'.key}
    PROVE  PassInv'
<1>1. DeskOK'
  BY DEF DeskOK
<1>2. TokensOK'
  BY DEF TokensOK
<1>3. DataIsKept'
  BY DEF PassInv, DataIsKept
<1> QED BY <1>1, <1>2, <1>3 DEF PassInv

\* The parts of the state the steps of the running application speak of.
LEMMA PassStateTyped ==
    ASSUME PassInv
    PROVE  /\ file \in DbFiles /\ aside \in AsideFiles
           /\ sealedBy \in [DbAccounts -> Passes \cup {"plain", "none"}]
           /\ saved \in Keyed /\ session \in Secrets /\ desk \in Desks
           /\ change \in Changes /\ writer \in Writers /\ ghost \in Ghosts
  BY DEF PassInv, PassTyped

\* While the application runs, the file is encrypted under a passphrase, the
\* tokens no cause has orphaned are under the key named here, and so is every
\* token that is sealed now.
LEMMA RunningState ==
    ASSUME PassInv, desk.pc = "up"
    PROVE  /\ file.kind = "sealed" /\ file.key \in Passes
           /\ session.db \in Passes /\ session.token \in Passes
           /\ ghost.causes = {} =>
                \A a \in DbAccounts : sealedBy[a] \in
                   {"plain", "none", IF change.pc = "rotated" THEN change.next ELSE file.key}
           /\ RotatedTo = IF change.pc = "rotated" THEN change.next ELSE file.key
<1>1. file.kind = "sealed" /\ file.key \in Passes
  BY DEF PassInv, DeskOK
<1>2. change.pc \in {"idle", "rotate", "rotated", "rekeyed", "switched"}
  BY PassStateTyped DEF Changes
<1>3. session.db \in Passes /\ session.token \in Passes
  BY <1>1, <1>2 DEF PassInv, ChangeOK
<1>4. RotatedTo = IF change.pc = "rotated" THEN change.next ELSE file.key
  BY <1>2 DEF PassInv, ChangeOK, RotatedTo
<1> QED BY <1>1, <1>3, <1>4 DEF PassInv, TokensOK

\* A change of the passphrase begins: the current one is the key of the file.
LEMMA ChangeKeeps == PassInv /\ ChangeDatabasePassphrase => PassInv'
<1> SUFFICES ASSUME PassInv, ChangeDatabasePassphrase PROVE PassInv'
  OBVIOUS
<1>1. /\ desk.pc = "up" /\ change.pc = "idle"
      /\ UNCHANGED <<file, aside, sealedBy, saved, session, desk, writer, ghost>>
  BY DEF ChangeDatabasePassphrase
<1>2. PICK cur, next \in Passes : /\ session.db = cur
                                 /\ change' = [pc |-> "rotate", cur |-> cur, next |-> next]
  BY DEF ChangeDatabasePassphrase
<1>3. change' \in Changes /\ change'.pc = "rotate" /\ change'.cur = cur /\ change'.next = next
  BY <1>2 DEF Changes, Keyed
<1>4. session.db = file.key /\ session.token = file.key
  BY <1>1 DEF PassInv, ChangeOK
<1>5. PassTyped' /\ WriterOK'
  BY <1>1, <1>3 DEF PassInv, PassTyped, WriterOK
<1>6. ChangeOK'
  BY <1>1, <1>2, <1>3, <1>4 DEF ChangeOK
<1> QED BY <1>1, <1>3, <1>5, <1>6, RunningState, RunningKeeps

\* The tokens are resealed under the next key, all of them or none.
LEMMA RotateKeeps == PassInv /\ RotateTokens => PassInv'
<1> SUFFICES ASSUME PassInv, RotateTokens PROVE PassInv'
  OBVIOUS
<1>1. /\ change.pc = "rotate" /\ desk.pc = "up"
      /\ UNCHANGED <<file, aside, saved, session, desk, writer, ghost>>
  BY DEF RotateTokens, PassInv, ChangeOK
<1>2. /\ session.db = file.key /\ session.token = file.key
      /\ change.cur = file.key /\ change.cur \in Passes /\ change.next \in Passes
  BY <1>1 DEF PassInv, ChangeOK
<1>3. WriterOK'
  BY <1>1 DEF PassInv, WriterOK
<1>4. CASE /\ sealedBy' = Rotated(change.next)
           /\ change' = [change EXCEPT !.pc = "rotated"]
  <2>1. /\ change' \in Changes /\ change'.pc = "rotated"
        /\ change'.cur = change.cur /\ change'.next = change.next
    BY <1>4, PassStateTyped DEF Changes
  <2>2. \A a \in DbAccounts : sealedBy'[a] \in {"none", change.next}
    BY <1>4 DEF Rotated
  <2>3. sealedBy' \in [DbAccounts -> Passes \cup {"plain", "none"}]
    BY <1>2, <1>4 DEF Rotated
  <2>4. PassTyped'
    BY <1>1, <2>1, <2>3 DEF PassInv, PassTyped
  <2>5. ChangeOK'
    BY <1>1, <1>2, <2>1 DEF ChangeOK
  <2> QED BY <1>1, <1>3, <2>1, <2>2, <2>4, <2>5, RunningState, RunningKeeps
<1>5. CASE change' = NoChange /\ UNCHANGED sealedBy
  <2>1. PassTyped' /\ change'.pc = "idle"
    BY <1>1, <1>5, RestingRecords DEF PassInv, PassTyped
  <2>2. ChangeOK'
    BY <1>1, <1>2, <2>1 DEF ChangeOK
  <2> QED BY <1>1, <1>3, <1>5, <2>1, <2>2, RunningState, RunningKeeps
<1> QED BY <1>4, <1>5 DEF RotateTokens

\* The file gets the next key; when it does not, the tokens are rotated back,
\* or the failure to is recorded.
LEMMA RekeyKeeps == PassInv /\ RekeyDatabase => PassInv'
<1> SUFFICES ASSUME PassInv, RekeyDatabase PROVE PassInv'
  OBVIOUS
<1>1. /\ change.pc = "rotated" /\ desk.pc = "up"
      /\ UNCHANGED <<aside, saved, session, desk, writer>>
  BY DEF RekeyDatabase, PassInv, ChangeOK
<1>2. /\ session.db = file.key /\ session.token = file.key
      /\ change.cur = file.key /\ change.cur \in Passes /\ change.next \in Passes
  BY <1>1 DEF PassInv, ChangeOK
<1>3. WriterOK'
  BY <1>1 DEF PassInv, WriterOK
<1>4. CASE /\ file' = [file EXCEPT !.key = change.next]
           /\ change' = [change EXCEPT !.pc = "rekeyed"]
           /\ UNCHANGED <<sealedBy, ghost>>
  <2>1. /\ change' \in Changes /\ change'.pc = "rekeyed"
        /\ change'.cur = change.cur /\ change'.next = change.next
    BY <1>4, PassStateTyped DEF Changes
  <2>2. /\ file' \in DbFiles /\ file'.key = change.next
        /\ file'.kind = file.kind /\ file'.data = file.data
    BY <1>2, <1>4, PassStateTyped DEF DbFiles, Keyed
  <2>3. PassTyped'
    BY <1>1, <1>4, <2>1, <2>2 DEF PassInv, PassTyped
  <2>4. ChangeOK'
    BY <1>1, <1>2, <2>1, <2>2 DEF ChangeOK
  <2> QED BY <1>1, <1>2, <1>3, <1>4, <2>1, <2>2, <2>3, <2>4, RunningState, RunningKeeps
<1>5. CASE RekeyFails
  <2>1. change' = NoChange /\ change'.pc = "idle" /\ UNCHANGED file
    BY <1>5, RestingRecords DEF RekeyFails
  <2>2. ChangeOK'
    BY <1>1, <1>2, <2>1 DEF ChangeOK
  <2>3. CASE sealedBy' = Rotated(change.cur) /\ UNCHANGED ghost
    <3>1. \A a \in DbAccounts : sealedBy'[a] \in {"none", file.key}
      BY <1>2, <2>3 DEF Rotated
    <3>2. sealedBy' \in [DbAccounts -> Passes \cup {"plain", "none"}]
      BY <1>2, <2>3 DEF Rotated
    <3>3. PassTyped'
      BY <1>1, <2>1, <2>3, <3>2, RestingRecords DEF PassInv, PassTyped
    <3> QED BY <1>1, <1>3, <2>1, <2>2, <2>3, <3>1, <3>3, RunningState, RunningKeeps
  <2>4. CASE UNCHANGED sealedBy /\ ghost' = [ghost EXCEPT !.causes = @ \cup {"rollback"}]
    <3>1. ghost' \in Ghosts /\ ghost'.causes # {} /\ ghost'.had = ghost.had
      BY <2>4, CauseRecorded
    <3>2. PassTyped'
      BY <1>1, <2>1, <2>4, <3>1, RestingRecords DEF PassInv, PassTyped
    <3> QED BY <1>1, <1>3, <2>1, <2>2, <3>1, <3>2, RunningState, RunningKeeps
  <2> QED BY <1>5, <2>3, <2>4 DEF RekeyFails
<1> QED BY <1>4, <1>5 DEF RekeyDatabase

\* The connection secret follows the file ...
LEMMA SetSessionKeeps == PassInv /\ SetSessionPassphrase => PassInv'
<1> SUFFICES ASSUME PassInv, SetSessionPassphrase PROVE PassInv'
  OBVIOUS
<1>1. /\ change.pc = "rekeyed" /\ desk.pc = "up"
      /\ session' = [session EXCEPT !.db = change.next]
      /\ change' = [change EXCEPT !.pc = "switched"]
      /\ UNCHANGED <<file, aside, sealedBy, saved, desk, writer, ghost>>
  BY DEF SetSessionPassphrase, PassInv, ChangeOK
<1>2. /\ file.key = change.next /\ change.cur \in Passes /\ change.next \in Passes
      /\ session.token \in Passes
  BY <1>1 DEF PassInv, ChangeOK
<1>3. /\ change' \in Changes /\ change'.pc = "switched"
      /\ change'.cur = change.cur /\ change'.next = change.next
  BY <1>1, PassStateTyped DEF Changes
<1>4. session' \in Secrets /\ session'.db = change.next /\ session'.token = session.token
  BY <1>1, <1>2, PassStateTyped DEF Secrets, Keyed
<1>5. PassTyped' /\ WriterOK'
  BY <1>1, <1>3, <1>4 DEF PassInv, PassTyped, WriterOK
<1>6. ChangeOK'
  BY <1>1, <1>2, <1>3, <1>4 DEF ChangeOK
<1> QED BY <1>1, <1>3, <1>5, <1>6, RunningState, RunningKeeps

\* ... and then the token key.
LEMMA SwitchKeeps == PassInv /\ SwitchTokenKey => PassInv'
<1> SUFFICES ASSUME PassInv, SwitchTokenKey PROVE PassInv'
  OBVIOUS
<1>1. /\ change.pc = "switched" /\ desk.pc = "up"
      /\ session' = [session EXCEPT !.token = change.next]
      /\ change' = NoChange /\ change'.pc = "idle" /\ saved' \in {change.next, saved}
      /\ UNCHANGED <<file, aside, sealedBy, desk, writer, ghost>>
  BY RestingRecords DEF SwitchTokenKey, ConfigureTokenStorage, SavePassphrase, PassInv, ChangeOK
<1>2. file.key = change.next /\ change.next \in Passes /\ session.db = change.next
  BY <1>1 DEF PassInv, ChangeOK
<1>3. session' \in Secrets /\ session'.db = change.next /\ session'.token = change.next
  BY <1>1, <1>2, PassStateTyped DEF Secrets, Keyed
<1>4. PassTyped' /\ WriterOK'
  BY <1>1, <1>2, <1>3, RestingRecords DEF PassInv, PassTyped, WriterOK, Keyed
<1>5. ChangeOK'
  BY <1>1, <1>2, <1>3 DEF ChangeOK
<1> QED BY <1>1, <1>4, <1>5, RunningState, RunningKeeps

\* A worker opens a connection ...
LEMMA OpensKeeps == PassInv /\ WriterOpens => PassInv'
<1> SUFFICES ASSUME PassInv, WriterOpens PROVE PassInv'
  OBVIOUS
<1>1. /\ desk.pc = "up"
      /\ UNCHANGED <<file, aside, sealedBy, saved, session, desk, change, ghost>>
  BY DEF WriterOpens
<1>2. PICK k \in {"login", "refresh", "normalize"}, a \in DbAccounts :
         writer' = [pc |-> "opened", kind |-> k, acct |-> a, conn |-> session.db, key |-> NoPass]
  BY DEF WriterOpens
<1>3. writer' \in Writers /\ writer'.pc = "opened" /\ writer'.acct = a
  <2>1. session.db \in Keyed
    BY PassStateTyped DEF Secrets
  <2> QED BY <1>2, <2>1 DEF Writers, Keyed
<1>4. PassTyped' /\ WriterOK'
  BY <1>1, <1>3 DEF PassInv, PassTyped, WriterOK
<1>5. ChangeOK'
  BY <1>1 DEF PassInv, ChangeOK
<1> QED BY <1>1, <1>4, <1>5, RunningState, RunningKeeps

\* ... seals the token with the token key of the session ...
LEMMA SealsKeeps == PassInv /\ WriterSeals => PassInv'
<1> SUFFICES ASSUME PassInv, WriterSeals PROVE PassInv'
  OBVIOUS
<1>1. /\ desk.pc = "up" /\ writer.acct \in DbAccounts
      /\ writer' = [writer EXCEPT !.pc = "sealed", !.key = session.token]
      /\ UNCHANGED <<file, aside, sealedBy, saved, session, desk, change, ghost>>
  BY DEF WriterSeals, EncryptTokenForStorage, PassInv, WriterOK
<1>2. session.token \in Passes
  BY <1>1, RunningState
<1>3. writer' \in Writers /\ writer'.pc = "sealed" /\ writer'.acct = writer.acct
      /\ writer'.key = session.token
  BY <1>1, <1>2, PassStateTyped DEF Writers, Keyed
<1>4. PassTyped' /\ WriterOK'
  BY <1>1, <1>2, <1>3 DEF PassInv, PassTyped, WriterOK
<1>5. ChangeOK'
  BY <1>1 DEF PassInv, ChangeOK
<1> QED BY <1>1, <1>4, <1>5, RunningState, RunningKeeps

\* ... and stores it; a token under another key than the last rotation's is
\* recorded as a late write.
LEMMA StoresKeeps == PassInv /\ UpdateAccountTokens => PassInv'
<1> SUFFICES ASSUME PassInv, UpdateAccountTokens PROVE PassInv'
  OBVIOUS
<1>1. /\ desk.pc = "up" /\ writer.acct \in DbAccounts /\ writer.key \in Passes
      /\ writer' = NoWriter
      /\ UNCHANGED <<file, aside, saved, session, desk, change>>
  BY DEF UpdateAccountTokens, PassInv, WriterOK
<1>2. ChangeOK' /\ WriterOK'
  BY <1>1, RestingRecords DEF PassInv, ChangeOK, WriterOK
<1>3. CASE UNCHANGED <<sealedBy, ghost>>
  <2>1. PassTyped'
    BY <1>1, <1>3, RestingRecords DEF PassInv, PassTyped
  <2> QED BY <1>1, <1>2, <1>3, <2>1, RunningState, RunningKeeps
<1>4. CASE /\ sealedBy' = [sealedBy EXCEPT ![writer.acct] = writer.key]
           /\ ghost' = IF writer.key # RotatedTo
                        THEN [ghost EXCEPT !.causes = @ \cup {"late write"}] ELSE ghost
  <2>1. /\ sealedBy' \in [DbAccounts -> Passes \cup {"plain", "none"}]
        /\ \A a \in DbAccounts : sealedBy'[a] = IF a = writer.acct THEN writer.key ELSE sealedBy[a]
    BY <1>1, <1>4, PassStateTyped
  <2>2. /\ ghost' \in Ghosts /\ ghost'.had = ghost.had
        /\ ghost'.causes = {} => writer.key = RotatedTo /\ ghost.causes = {}
    <3>1. CASE writer.key # RotatedTo
      BY <1>4, <3>1, CauseRecorded
    <3>2. CASE writer.key = RotatedTo
      BY <1>4, <3>2, PassStateTyped
    <3> QED BY <3>1, <3>2
  <2>3. PassTyped'
    BY <1>1, <2>1, <2>2, RestingRecords DEF PassInv, PassTyped
  <2> QED BY <1>1, <1>2, <2>1, <2>2, <2>3, RunningState, RunningKeeps
<1> QED BY <1>3, <1>4 DEF UpdateAccountTokens, UpsertOauthAccount

\* Sealing what is still in plaintext uses the token key of the session, which
\* is the key of the file while no change runs.
LEMMA MigrateKeeps == PassInv /\ MigratePlaintextAccountTokens => PassInv'
<1> SUFFICES ASSUME PassInv, MigratePlaintextAccountTokens PROVE PassInv'
  OBVIOUS
<1>1. /\ desk.pc = "up" /\ change.pc = "idle"
      /\ sealedBy' = [a \in DbAccounts |-> IF sealedBy[a] = "plain" THEN session.token ELSE sealedBy[a]]
      /\ UNCHANGED <<file, aside, saved, session, desk, change, writer, ghost>>
  BY DEF MigratePlaintextAccountTokens, EncryptTokenForStorage
<1>2. session.token = file.key /\ session.token \in Passes
  BY <1>1, RunningState DEF PassInv, ChangeOK
<1>3. ChangeOK' /\ WriterOK'
  BY <1>1 DEF PassInv, ChangeOK, WriterOK
<1>4. PassTyped'
  BY <1>1, <1>2 DEF PassInv, PassTyped
<1>5. ASSUME ghost.causes = {}
      PROVE  \A a \in DbAccounts : sealedBy'[a] \in {"plain", "none", file.key}
  BY <1>1, <1>2, <1>5, RunningState
<1> QED BY <1>1, <1>3, <1>4, <1>5, RunningState, RunningKeeps

\* The invariant says what the property does.
LEMMA PassInvSuffices == PassInv => PassphraseSafety
<1> SUFFICES ASSUME PassInv PROVE PassphraseSafety
  OBVIOUS
<1>1. PassphraseTypeOK
  <2>1. desk.attempt < kMaxUnlockAttempts
    BY PassStateTyped, PassphraseAssumption DEF Desks
  <2> QED BY <2>1, PassStateTyped DEF PassphraseTypeOK, DbFiles, Secrets, Keyed
<1>2. SessionOpensDatabase
  <2> SUFFICES ASSUME desk.pc = "up", change.pc = "idle"
               PROVE  file.kind = "sealed" /\ session = [db |-> file.key, token |-> file.key]
    BY DEF SessionOpensDatabase
  <2>1. session.db = file.key /\ session.token = file.key /\ session \in Secrets
    BY PassStateTyped DEF PassInv, ChangeOK
  <2>2. session = [db |-> file.key, token |-> file.key]
    BY <2>1 DEF Secrets
  <2> QED BY <2>2, RunningState
<1>3. UnreadableTokenHasCause
  BY RunningState DEF UnreadableTokenHasCause, PassInv, ChangeOK
<1> QED BY <1>1, <1>2, <1>3 DEF PassphraseSafety, PassInv

\* Any step keeps the invariant.
LEMMA PassInvStep == PassInv /\ [PassphraseNext]_passVars => PassInv'
<1> SUFFICES ASSUME PassInv, [PassphraseNext]_passVars PROVE PassInv'
  OBVIOUS
<1>1. CASE UNCHANGED passVars
  BY <1>1 DEF passVars, PassInv, PassTyped, DeskOK, ChangeOK, WriterOK, TokensOK, DataIsKept
<1> QED BY <1>1, RequestKeeps, BridgeInitKeeps, PoolOpenKeeps, RuntimeStartsKeeps, ExportKeeps,
           StageKeeps, ReplaceKeeps, ShutdownKeeps, CrashKeeps, ChangeKeeps, RotateKeeps, RekeyKeeps,
           SetSessionKeeps, SwitchKeeps, OpensKeeps, SealsKeeps, StoresKeeps, MigrateKeeps
        DEF PassphraseNext

\* The database passphrase, for any passphrases, accounts and limit: the user's
\* data is on disk through every migration, failure and crash, the running
\* application has the key of the file, and it opens every stored token unless
\* a crash inside a change, a failed rotation back or a late write orphaned it.
THEOREM PassphraseIsSafe == PassphraseSpec => []PassphraseSafety
<1>1. PassphraseInit => PassInv
  BY PassInitHolds
<1>2. PassInv /\ [PassphraseNext]_passVars => PassInv'
  BY PassInvStep
<1>3. PassInv => PassphraseSafety
  BY PassInvSuffices
<1> QED BY <1>1, <1>2, <1>3, PTL DEF PassphraseSpec

-----------------------------------------------------------------------------
(* The SQL import *)

\* What is decided for a row.
Candidates == [row : Nat, to : Nat, action : Actions]

Totals == [inserted : Nat, updated : Nat, skipped : Nat, invalid : Nat, failed : Nat]

JobSteps == {"idle", "decided", "rows", "done"}
JobRequests == {INone} \cup RequestsWithRows
JobPlans == Seq(Candidates)
JobPreviews == {<<>>} \cup [Actions -> Nat]
JobUndos == {INone} \cup Seq(Account)
JobAnswers == {INone, 200, 400, 404, 500}

Jobs == [step : JobSteps, request : JobRequests, candidates : JobPlans, preview : JobPreviews,
         next : Nat \ {0}, undo : JobUndos, totals : Totals, answer : JobAnswers]

\* An import that has decided, and has not failed since.
Going(j) == j.step \in {"decided", "rows"} \/ (j.step = "done" /\ j.answer = 200)

\* The first n rows for which a was decided.
Chosen(candidates, n, a) == {i \in 1..n : candidates[i].action = a}

\* What was decided, and how far it has been carried out.
PlanOK(j) ==
    /\ j.request \in RequestsWithRows
    /\ Len(j.candidates) = Len(j.request.rows) /\ Len(j.request.rows) <= MaxSourceRows
    /\ j.next <= Len(j.candidates) + 1
    /\ j.step = "done" => j.next = Len(j.candidates) + 1
    /\ j.preview = PreviewTotals(j.candidates)
    /\ \A i \in 1..Len(j.request.rows) :
         j.candidates[i].action \in {"new", "update"} =>
             \/ j.request.rows[i].token \in {"plain", "sealed"}
             \/ j.request.key \in {INone, "right"}

\* Every row up to the next is in one of the totals and, without an override, in
\* the one of what was decided for it.
TotalsOK(j) ==
    LET t == j.totals
    IN  /\ t.inserted + t.updated + t.skipped + t.invalid + t.failed = j.next - 1
        /\ j.request.override = INone =>
             /\ t.skipped = Cardinality(Chosen(j.candidates, j.next - 1, "skip"))
             /\ t.invalid = Cardinality(Chosen(j.candidates, j.next - 1, "invalid"))
             /\ t.inserted + t.updated + t.failed
                  = Cardinality(Chosen(j.candidates, j.next - 1, "new"))
                    + Cardinality(Chosen(j.candidates, j.next - 1, "update"))

\* The candidates are about accounts that are there.
TargetsOK == job.step \in {"decided", "rows"} =>
    \A i \in 1..Len(job.candidates) : job.candidates[i].to <= Len(accounts)

\* While rows are applied the accounts are those before, with their ids, and
\* the rows inserted since.
Grows(before, table, j) ==
    /\ before \in Seq(Account) /\ DistinctIds(before) /\ Len(before) <= Len(table)
    /\ j.candidates = PrepareImport(before, j.request.rows, j.request)
    /\ \A i \in 1..Len(before) : table[i].chatgpt = before[i].chatgpt
    /\ \A i \in (Len(before) + 1)..Len(table) :
         table[i].chatgpt # INone =>
             \E k \in 1..(j.next - 1) : j.request.rows[k].chatgpt = table[i].chatgpt

\* The user has overridden nothing.
Undisturbed(j) == j.request # INone => j.request.override = INone

IdsOK ==
    ~raced /\ Undisturbed(job) =>
        /\ DistinctIds(accounts)
        /\ job.step = "decided" => job.candidates = PrepareImport(accounts, job.request.rows, job.request)
        /\ job.step = "rows" => Grows(job.undo, accounts, job)

\* What a failed transaction goes back to.
UndoOK ==
    /\ job.step = "rows" => job.undo \in Seq(Account) /\ PinsAreActive(job.undo)
    /\ job.step = "done" /\ job.answer # 200 => job.undo = INone \/ accounts = job.undo

ImportInv ==
    /\ accounts \in Seq(Account) /\ job \in Jobs /\ raced \in BOOLEAN
    /\ PinsAreActive(accounts)
    /\ Going(job) => PlanOK(job) /\ TotalsOK(job)
    /\ job.next <= MaxSourceRows + 1
    /\ job.step = "idle" => job = IdleJob
    /\ TargetsOK /\ IdsOK /\ UndoOK

\* A nonempty set of natural numbers has a least element.
LEMMA LeastNumber ==
    ASSUME NEW T, T \subseteq Nat, T # {}
    PROVE  \E x \in T : \A y \in T : x <= y
<1>1. IsWellFoundedOn(OpToRel(<,Nat), Nat)
  BY NatLessThanWellFounded
<1>2. PICK x \in T : \A y \in T : ~ (<<y, x>> \in OpToRel(<,Nat))
  BY <1>1, WFMin
<1>3. \A y \in T : ~ (y < x)
  BY <1>2 DEF OpToRel
<1> QED BY <1>3

\* The accounts that have the identity of a row.
SameIdentity(table, row) ==
    {i \in 1..Len(table) : IF row.chatgpt # INone THEN table[i].chatgpt = row.chatgpt
                           ELSE row.email # INone /\ table[i].email = row.email}

\* The destination of a row is an account with its identity, if there is one.
LEMMA DestinationFits ==
    ASSUME NEW table \in Seq(Account), NEW row
    PROVE  IF SameIdentity(table, row) = {} THEN DestinationIndex(table, row) = 0
           ELSE DestinationIndex(table, row) \in SameIdentity(table, row)
<1> DEFINE same == SameIdentity(table, row)
<1>1. same \subseteq Nat
  BY DEF SameIdentity
<1>2. CASE same = {}
  BY <1>2 DEF DestinationIndex, SameIdentity
<1>3. CASE same # {}
  <2>1. \E x \in same : \A y \in same : x <= y
    BY <1>1, <1>3, LeastNumber
  <2> HIDE DEF same
  <2>2. (CHOOSE i \in same : \A k \in same : i <= k) \in same
    BY <2>1
  <2>3. DestinationIndex(table, row) = CHOOSE i \in same : \A k \in same : i <= k
    BY <1>3 DEF DestinationIndex, same, SameIdentity
  <2> QED BY <1>3, <2>2, <2>3 DEF same
<1> QED BY <1>2, <1>3

\* It is an account, or 0.
LEMMA DestinationRange ==
    ASSUME NEW table \in Seq(Account), NEW row
    PROVE  DestinationIndex(table, row) \in 0..Len(table)
  BY DestinationFits DEF SameIdentity

\* What the candidates say of the rows and of the table they were made for.
Decided(c, table, rows, request) ==
    /\ c \in Seq(Candidates) /\ Len(c) = Len(rows)
    /\ \A i \in 1..Len(rows) :
         /\ c[i].to = DestinationIndex(table, rows[i]) /\ c[i].to <= Len(table)
         /\ c[i].action \in {"new", "update"} =>
              /\ DedupeKey(rows[i]) # INone /\ ~SeenKey(rows, i)
              /\ c[i].action = "new" <=> c[i].to = 0
              /\ \/ rows[i].token \in {"plain", "sealed"}
                 \/ request.key \in {INone, "right"}

\* PrepareImport decides as it should.
LEMMA CandidatesFit ==
    ASSUME NEW table \in Seq(Account), NEW rows \in Seq(SourceRows), NEW request
    PROVE  Decided(PrepareImport(table, rows, request), table, rows, request)
<1> DEFINE c == PrepareImport(table, rows, request)
           made(i) == MakeCandidate(table, rows, i, request.withoutOverwrite)
<1>1. Len(rows) \in Nat
  OBVIOUS
<1>2. \A i \in 1..Len(rows) : DestinationIndex(table, rows[i]) \in 0..Len(table)
  BY DestinationRange
<1>3. \A i \in 1..Len(rows) :
        /\ made(i) \in Candidates
        /\ made(i).to = DestinationIndex(table, rows[i])
        /\ made(i).action \in {"new", "update"} =>
             /\ DedupeKey(rows[i]) # INone /\ ~SeenKey(rows, i)
             /\ made(i).action = "new" <=> made(i).to = 0
  <2> TAKE i \in 1..Len(rows)
  <2>1. DestinationIndex(table, rows[i]) \in Nat
    BY <1>2
  <2> DEFINE to == DestinationIndex(table, rows[i])
             none == DedupeKey(rows[i]) = INone
             dup == SeenKey(rows, i)
             keep == request.withoutOverwrite
             act == IF none THEN "invalid" ELSE IF dup THEN "skip"
                    ELSE IF rows[i].token = INone THEN "invalid"
                    ELSE IF to = 0 THEN "new" ELSE IF keep THEN "skip" ELSE "update"
  <2>2. made(i) = [row |-> i, to |-> to, action |-> act]
    BY DEF MakeCandidate
  <2>3. /\ act \in Actions
        /\ act \in {"new", "update"} => ~none /\ ~dup
        /\ act = "new" => to = 0
        /\ act = "update" => to # 0
    <3> HIDE DEF to, none, dup, keep
    <3> QED BY DEF Actions
  <2> HIDE DEF act, made
  <2> QED BY <2>1, <2>2, <2>3 DEF Candidates
<1> HIDE DEF made
<1>4. \A i \in 1..Len(rows) : c[i] = ValidatedForPreview(made(i), rows[i], request.key)
  BY DEF PrepareImport, made
<1>5. \A i \in 1..Len(rows) :
        /\ c[i] \in Candidates
        /\ c[i].to = made(i).to
        /\ c[i].action \in {"new", "update"} =>
             /\ c[i].action = made(i).action
             /\ \/ rows[i].token \in {"plain", "sealed"}
                \/ request.key \in {INone, "right"}
  BY <1>3, <1>4 DEF ValidatedForPreview, Candidates, Actions, StorableToken
<1>6. c \in Seq(Candidates) /\ Len(c) = Len(rows)
  <2>1. c = [i \in 1..Len(rows) |-> c[i]]
    BY DEF PrepareImport
  <2> HIDE DEF c
  <2> QED BY <2>1, <1>1, <1>5
<1>7. \A i \in 1..Len(rows) : c[i].to <= Len(table)
  BY <1>2, <1>3, <1>5
<1> HIDE DEF c
<1>8. \A i \in 1..Len(rows) :
        /\ c[i].to = DestinationIndex(table, rows[i]) /\ c[i].to <= Len(table)
        /\ c[i].action \in {"new", "update"} =>
             /\ DedupeKey(rows[i]) # INone /\ ~SeenKey(rows, i)
             /\ c[i].action = "new" <=> c[i].to = 0
             /\ \/ rows[i].token \in {"plain", "sealed"}
                \/ request.key \in {INone, "right"}
  BY <1>3, <1>5, <1>7
<1> QED BY <1>6, <1>8 DEF c, Decided

\* Reading gives at most the limit of rows.
LEMMA ReadRowsFit ==
    ASSUME NEW rows \in Seq(SourceRows), Len(rows) <= MaxSourceRows,
           NEW limit \in {1, MaxSourceRows}
    PROVE  ReadRows(rows, limit) \in Seq(SourceRows) /\ Len(ReadRows(rows, limit)) <= MaxSourceRows
<1>1. MaxSourceRows \in Nat /\ limit \in Nat /\ Len(rows) \in Nat
  BY ImportAssumption
<1> DEFINE n == IF limit < Len(rows) THEN limit ELSE Len(rows)
<1>2. n \in 0..Len(rows)
  BY <1>1
<1> HIDE DEF n
<1>3. SubSeq(rows, 1, n) \in Seq(SourceRows) /\ Len(SubSeq(rows, 1, n)) = n
  BY <1>1, <1>2
<1> QED BY <1>1, <1>2, <1>3 DEF ReadRows, n

\* The counts over one more row.
LEMMA ChosenGrows ==
    ASSUME NEW candidates \in Seq(Candidates), NEW n \in 1..Len(candidates), NEW a
    PROVE  /\ IsFiniteSet(Chosen(candidates, n - 1, a))
           /\ Cardinality(Chosen(candidates, n - 1, a)) \in Nat
           /\ Cardinality(Chosen(candidates, n, a)) =
                Cardinality(Chosen(candidates, n - 1, a)) + (IF candidates[n].action = a THEN 1 ELSE 0)
<1>1. n \in Nat /\ n - 1 \in Nat /\ 1..n = (1..(n - 1)) \cup {n}
  OBVIOUS
<1>2. IsFiniteSet(1..(n - 1))
  BY <1>1, FS_Interval
<1>3. Chosen(candidates, n - 1, a) \subseteq 1..(n - 1)
  BY DEF Chosen
<1>4. IsFiniteSet(Chosen(candidates, n - 1, a)) /\ Cardinality(Chosen(candidates, n - 1, a)) \in Nat
  BY <1>2, <1>3, FS_Subset, FS_CardinalityType
<1>5. CASE candidates[n].action = a
  <2>1. Chosen(candidates, n, a) = Chosen(candidates, n - 1, a) \cup {n}
    BY <1>1, <1>5 DEF Chosen
  <2>2. n \notin Chosen(candidates, n - 1, a)
    BY <1>1 DEF Chosen
  <2> QED BY <1>4, <1>5, <2>1, <2>2, FS_AddElement
<1>6. CASE candidates[n].action # a
  <2>1. Chosen(candidates, n, a) = Chosen(candidates, n - 1, a)
    BY <1>1, <1>6 DEF Chosen
  <2> QED BY <1>4, <1>6, <2>1
<1> QED BY <1>5, <1>6, <1>4

Statuses == {"active", "paused", "rate_limited", "deactivated", "quota_blocked"}

\* What a row of the source becomes is an account, and pinned only if active.
LEMMA RowsBecomeAccounts ==
    ASSUME NEW row \in SourceRows
    PROVE  /\ InsertedRow(row) \in Account /\ ~InsertedRow(row).pinned
           /\ InsertedRow(row).chatgpt = row.chatgpt
           /\ \A old \in Account :
                /\ UpdatedRow(old, row) \in Account
                /\ UpdatedRow(old, row).pinned => UpdatedRow(old, row).status = "active"
                /\ UpdatedRow(old, row).chatgpt = IF row.chatgpt = INone THEN old.chatgpt ELSE row.chatgpt
<1> DEFINE n == NormalizeStatusUpdate(row.status)
<1>1. n = INone \/ n \in Statuses
  BY DEF NormalizeStatusUpdate, Statuses
<1>2. StatusForInsert(row.status) \in Statuses
  BY <1>1 DEF StatusForInsert, Statuses
<1> HIDE DEF n
<1>3. InsertedRow(row) \in Account /\ ~InsertedRow(row).pinned /\ InsertedRow(row).chatgpt = row.chatgpt
  BY <1>2 DEF InsertedRow, Account, Statuses
<1>4. ASSUME NEW old \in Account
      PROVE  /\ UpdatedRow(old, row) \in Account
             /\ UpdatedRow(old, row).pinned => UpdatedRow(old, row).status = "active"
             /\ UpdatedRow(old, row).chatgpt = IF row.chatgpt = INone THEN old.chatgpt ELSE row.chatgpt
  <2> DEFINE status == IF n = INone THEN old.status ELSE n
             pin == old.pinned /\ status = "active"
             c == IF row.chatgpt = INone THEN old.chatgpt ELSE row.chatgpt
             e == IF row.email = INone THEN old.email ELSE row.email
             t == IF row.token = INone THEN old.token ELSE "sealed"
  <2>1. UpdatedRow(old, row) = [chatgpt |-> c, email |-> e, token |-> t, status |-> status, pinned |-> pin]
    BY DEF UpdatedRow, n
  <2>2. status \in Statuses /\ pin \in BOOLEAN /\ (pin => status = "active")
    BY <1>1 DEF Account, Statuses
  <2>3. c \in {INone} \cup {r.chatgpt : r \in SourceRows}
    BY DEF Account
  <2>4. e \in {INone} \cup {r.email : r \in SourceRows}
    BY DEF Account
  <2>5. t \in {"sealed", INone}
    BY DEF Account
  <2> HIDE DEF status, pin, c, e, t
  <2>6. UpdatedRow(old, row) \in Account
    BY <2>1, <2>2, <2>3, <2>4, <2>5 DEF Account, Statuses
  <2>7. UpdatedRow(old, row).pinned => UpdatedRow(old, row).status = "active"
    BY <2>1, <2>2
  <2>8. UpdatedRow(old, row).chatgpt = c
    BY <2>1
  <2> QED BY <2>6, <2>7, <2>8 DEF c
<1> QED BY <1>3, <1>4

\* Before the import.
LEMMA ImportInitHolds == ImportInit => ImportInv
<1> SUFFICES ASSUME ImportInit PROVE ImportInv
  OBVIOUS
<1> USE ImportAssumption DEF ImportInit
<1>1. accounts \in Seq(Account) /\ DistinctIds(accounts) /\ PinsAreActive(accounts) /\ raced \in BOOLEAN
  OBVIOUS
<1>2. <<>> \in Seq(Candidates)
  OBVIOUS
<1>3. job \in Jobs
  BY <1>2 DEF IdleJob, Jobs, NoTotals, Totals, JobSteps, JobRequests, JobPlans, JobPreviews, JobUndos, JobAnswers
<1> QED BY <1>1, <1>3 DEF ImportInv, IdleJob, Going, TargetsOK, IdsOK, UndoOK

\* What a request may be: any of the requests before its rows are read.
LEMMA RequestsFit ==
    ASSUME NEW request \in ImportRequests \cup ReadRequests, NEW read \in Seq(SourceRows)
    PROVE  /\ [request EXCEPT !.rows = read] \in RequestsWithRows
           /\ request.limit \in {1, MaxSourceRows}
<1>1. <<>> \in Seq(SourceRows)
  OBVIOUS
<1> QED BY <1>1 DEF ImportRequests, ReadRequests, RequestsWithRows, Overrides, Actions

\* A source is a sequence of rows.
LEMMA SourcesFit ==
    ASSUME NEW rows \in Sources \cup [1..MaxSourceRows -> SourceRows]
    PROVE  rows \in Seq(SourceRows) /\ Len(rows) <= MaxSourceRows
<1>1. MaxSourceRows \in Nat
  BY ImportAssumption
<1>2. PICK n \in 0..MaxSourceRows : rows \in [1..n -> SourceRows]
  BY <1>1 DEF Sources
<1> QED BY <1>1, <1>2

\* The totals of a preview are numbers.
LEMMA PreviewTotalsTyped ==
    ASSUME NEW candidates \in Seq(Candidates)
    PROVE  PreviewTotals(candidates) \in [Actions -> Nat]
<1>1. \A a : {i \in 1..Len(candidates) : candidates[i].action = a} \subseteq 1..Len(candidates)
  OBVIOUS
<1>2. IsFiniteSet(1..Len(candidates))
  BY FS_Interval
<1>3. \A a \in Actions : Cardinality({i \in 1..Len(candidates) : candidates[i].action = a}) \in Nat
  BY <1>1, <1>2, FS_Subset, FS_CardinalityType
<1> QED BY <1>3 DEF PreviewTotals

\* The import reads its source and decides, or answers an error.
LEMMA StartImportKeeps ==
    ASSUME ImportInv, NEW f, NEW rows \in Sources \cup [1..MaxSourceRows -> SourceRows],
           NEW request \in ImportRequests \cup ReadRequests, StartImport(f, rows, request)
    PROVE  ImportInv'
<1> DEFINE error == SourceError(f, request.passphrase)
           read == ReadRows(rows, request.limit)
           candidates == PrepareImport(accounts, read, request)
           asked == [request EXCEPT !.rows = read]
<1>0. MaxSourceRows \in Nat \ {0}
  BY ImportAssumption
<1>1. read \in Seq(SourceRows) /\ Len(read) <= MaxSourceRows
  BY SourcesFit, ReadRowsFit, RequestsFit
<1>2. asked \in RequestsWithRows /\ asked.rows = read /\ asked.key = request.key
      /\ asked.withoutOverwrite = request.withoutOverwrite
  <2>1. asked \in RequestsWithRows
    BY <1>1, RequestsFit
  <2>2. asked.rows = read /\ asked.key = request.key /\ asked.withoutOverwrite = request.withoutOverwrite
    BY DEF ImportRequests, ReadRequests
  <2> QED BY <2>1, <2>2
<1>3. job = IdleJob /\ accounts' = accounts /\ raced' = raced /\ job.step = "idle"
  BY DEF StartImport, ImportInv
<1> HIDE DEF asked, read
<1>4. CASE error # INone
  <2>1. job' = [IdleJob EXCEPT !.step = "done", !.answer = ErrorStatus(error)]
    BY <1>4 DEF StartImport
  <2>2. ErrorStatus(error) \in {400, 404, 500}
    BY DEF ErrorStatus
  <2> HIDE DEF error
  <2>3. job' \in Jobs
    <3>1. job' = [step |-> "done", request |-> INone, candidates |-> <<>>, preview |-> <<>>,
                  next |-> 1, undo |-> INone, totals |-> NoTotals, answer |-> ErrorStatus(error)]
      BY <2>1 DEF IdleJob
    <3>2. <<>> \in Seq(Candidates) /\ NoTotals \in Totals
      BY DEF NoTotals, Totals
    <3> QED BY <2>2, <3>1, <3>2 DEF Jobs, JobSteps, JobRequests, JobPlans, JobPreviews, JobUndos, JobAnswers
  <2>4. job'.step = "done" /\ job'.answer # 200 /\ job'.undo = INone /\ job'.request = job.request /\ job'.next = 1
    BY <1>3, <2>1, <2>2 DEF IdleJob
  <2> QED BY <1>0, <1>3, <2>3, <2>4 DEF ImportInv, Going, TargetsOK, IdsOK, UndoOK, Undisturbed
<1>5. CASE error = INone
  <2>1. job' = [IdleJob EXCEPT !.step = "decided", !.request = asked, !.candidates = candidates,
                               !.preview = PreviewTotals(candidates)]
    BY <1>5 DEF StartImport, read, asked
  <2>2. accounts \in Seq(Account)
    BY DEF ImportInv
  <2>3. candidates = PrepareImport(accounts, read, asked)
    BY <1>2 DEF PrepareImport
  <2>4. /\ candidates \in Seq(Candidates) /\ Len(candidates) = Len(read)
        /\ \A i \in 1..Len(read) :
             /\ candidates[i].to <= Len(accounts)
             /\ candidates[i].action \in {"new", "update"} =>
                  \/ read[i].token \in {"plain", "sealed"}
                  \/ asked.key \in {INone, "right"}
    <3> HIDE DEF candidates
    <3>1. Decided(candidates, accounts, read, asked)
      BY <1>1, <2>2, <2>3, CandidatesFit
    <3> QED BY <3>1 DEF Decided
  <2>5. PreviewTotals(candidates) \in [Actions -> Nat]
    BY <2>4, PreviewTotalsTyped
  <2> HIDE DEF candidates, error
  <2>6. job' \in Jobs
    <3>1. job' = [step |-> "decided", request |-> asked, candidates |-> candidates,
                  preview |-> PreviewTotals(candidates), next |-> 1, undo |-> INone,
                  totals |-> NoTotals, answer |-> INone]
      BY <2>1 DEF IdleJob
    <3>2. NoTotals \in Totals
      BY DEF NoTotals, Totals
    <3> QED BY <1>2, <2>4, <2>5, <3>1, <3>2 DEF Jobs, JobSteps, JobRequests, JobPlans, JobPreviews, JobUndos, JobAnswers
  <2>7. /\ job'.step = "decided" /\ job'.request = asked /\ job'.candidates = candidates
        /\ job'.preview = PreviewTotals(candidates) /\ job'.next = 1 /\ job'.totals = NoTotals
    BY <2>1 DEF IdleJob
  <2>8. PlanOK(job')
    BY <1>0, <1>1, <1>2, <2>4, <2>7 DEF PlanOK
  <2>9. TotalsOK(job')
    <3>1. \A a : Chosen(candidates, 0, a) = {}
      BY DEF Chosen
    <3>2. \A a : Cardinality(Chosen(candidates, 0, a)) = 0
      BY <3>1, FS_EmptySet
    <3>3. job'.next - 1 = 0
      BY <2>7
    <3> QED BY <2>7, <3>2, <3>3 DEF TotalsOK, NoTotals
  <2>10. TargetsOK'
    BY <1>3, <2>4, <2>7 DEF TargetsOK
  <2>11. IdsOK'
    <3>1. ~raced => DistinctIds(accounts)
      BY <1>3 DEF ImportInv, IdsOK, Undisturbed, IdleJob
    <3> QED BY <1>2, <1>3, <2>3, <2>7, <3>1 DEF IdsOK, DistinctIds
  <2>12. UndoOK'
    BY <2>7 DEF UndoOK
  <2> QED BY <1>0, <1>3, <2>6, <2>7, <2>8, <2>9, <2>10, <2>11, <2>12 DEF ImportInv, PinsAreActive, Going
<1> QED BY <1>4, <1>5

\* A login stores its account after the import has decided.
LEMMA LoginKeeps ==
    ASSUME ImportInv, NEW from \in SourceRows, LoginStoresAccount(from.email, from.chatgpt)
    PROVE  ImportInv'
<1> DEFINE same == {i \in 1..Len(accounts) : accounts[i].email = from.email}
           at == CHOOSE i \in same : TRUE
           row == [chatgpt |-> from.chatgpt, email |-> from.email, token |-> "sealed",
                   status |-> "active", pinned |-> FALSE]
           kept == [row EXCEPT !.pinned = accounts[at].pinned]
<1>1. accounts \in Seq(Account) /\ PinsAreActive(accounts) /\ job.step = "decided"
  BY DEF ImportInv, LoginStoresAccount
<1>2. raced' = TRUE /\ job' = job
  BY DEF LoginStoresAccount
<1>3. accounts' = IF same = {} THEN Append(accounts, row) ELSE [accounts EXCEPT ![at] = kept]
  BY DEF LoginStoresAccount
<1>4. row \in Account /\ row.status = "active" /\ ~row.pinned
  BY DEF Account
<1>5. accounts' \in Seq(Account) /\ PinsAreActive(accounts') /\ Len(accounts) <= Len(accounts')
  <2>1. CASE same = {}
    <3> HIDE DEF row
    <3>1. accounts' = Append(accounts, row)
      BY <1>3, <2>1
    <3>2. accounts' \in Seq(Account) /\ Len(accounts') = Len(accounts) + 1
      BY <1>1, <1>4, <3>1
    <3>3. \A i \in 1..Len(accounts') : accounts'[i].pinned => accounts'[i].status = "active"
      BY <1>1, <1>4, <3>1, <3>2 DEF PinsAreActive
    <3> QED BY <1>1, <3>2, <3>3 DEF PinsAreActive
  <2>2. CASE same # {}
    <3>1. at \in 1..Len(accounts)
      BY <2>2
    <3> HIDE DEF same, at
    <3>2. kept \in Account /\ kept.status = "active"
      <4>1. accounts[at] \in Account
        BY <1>1, <3>1
      <4>2. accounts[at].pinned \in BOOLEAN
        BY <4>1 DEF Account
      <4> QED BY <4>2 DEF Account
    <3>3. accounts' = [accounts EXCEPT ![at] = kept]
      BY <1>3, <2>2
    <3> HIDE DEF kept
    <3>4. accounts' \in Seq(Account) /\ Len(accounts') = Len(accounts)
      BY <1>1, <3>1, <3>2, <3>3
    <3>5. \A i \in 1..Len(accounts') : accounts'[i].pinned => accounts'[i].status = "active"
      BY <1>1, <3>1, <3>2, <3>3, <3>4 DEF PinsAreActive
    <3> QED BY <1>1, <3>4, <3>5 DEF PinsAreActive
  <2> QED BY <2>1, <2>2
<1>6. TargetsOK'
  <2>1. job.candidates \in Seq(Candidates)
    BY DEF ImportInv, Jobs, JobPlans
  <2>2. \A i \in 1..Len(job.candidates) : job.candidates[i].to \in Nat
    <3>1. \A i \in 1..Len(job.candidates) : job.candidates[i] \in Candidates
      BY <2>1
    <3>2. \A c \in Candidates : c.to \in Nat
      BY DEF Candidates
    <3> QED BY <3>1, <3>2
  <2>3. \A i \in 1..Len(job.candidates) : job.candidates[i].to <= Len(accounts)
    BY <1>1 DEF ImportInv, TargetsOK
  <2>4. Len(accounts) \in Nat /\ Len(accounts') \in Nat
    BY <1>1, <1>5
  <2>5. \A i \in 1..Len(job.candidates) : job.candidates[i].to <= Len(accounts')
    BY <1>5, <2>2, <2>3, <2>4
  <2> QED BY <1>2, <2>5 DEF TargetsOK
<1>7. Going(job) /\ Going(job')
  BY <1>1, <1>2 DEF Going
<1>8. IdsOK' /\ UndoOK'
  BY <1>1, <1>2 DEF IdsOK, UndoOK
<1> QED BY <1>1, <1>2, <1>5, <1>6, <1>7, <1>8 DEF ImportInv

\* The step, undo and answer of a job change, the plan and its counts do not.
LEMMA JobMoves ==
    ASSUME NEW j \in Jobs, PlanOK(j), TotalsOK(j), NEW k \in Jobs,
           k.request = j.request, k.candidates = j.candidates, k.preview = j.preview,
           k.next = j.next, k.totals = j.totals, k.step = "done" => j.next = Len(j.candidates) + 1
    PROVE  PlanOK(k) /\ TotalsOK(k)
  BY DEF PlanOK, TotalsOK

\* BEGIN IMMEDIATE, or its failure.
LEMMA BeginKeeps == ImportInv /\ BeginTransaction => ImportInv'
<1> SUFFICES ASSUME ImportInv, BeginTransaction PROVE ImportInv'
  OBVIOUS
<1>1. /\ accounts \in Seq(Account) /\ job \in Jobs /\ job.step = "decided" /\ accounts' = accounts
      /\ raced' = raced /\ PlanOK(job) /\ TotalsOK(job) /\ job.next <= MaxSourceRows + 1
      /\ PinsAreActive(accounts) /\ TargetsOK /\ IdsOK
  BY DEF ImportInv, BeginTransaction, Going
<1>2. CASE job' = [job EXCEPT !.step = "rows", !.undo = accounts]
  <2>1. /\ job' \in Jobs /\ job'.step = "rows" /\ job'.undo = accounts /\ job'.next = job.next
        /\ job'.request = job.request /\ job'.candidates = job.candidates
        /\ job'.preview = job.preview /\ job'.totals = job.totals
    <3>1. "rows" \in JobSteps /\ accounts \in JobUndos
      BY <1>1 DEF JobSteps, JobUndos
    <3> QED BY <1>1, <1>2, <3>1 DEF Jobs
  <2>2. PlanOK(job') /\ TotalsOK(job')
    BY <1>1, <2>1, JobMoves
  <2>3. TargetsOK'
    BY <1>1, <2>1 DEF TargetsOK
  <2>4. UndoOK'
    BY <1>1, <2>1 DEF UndoOK
  <2>5. IdsOK'
    <3> SUFFICES ASSUME ~raced, Undisturbed(job') PROVE DistinctIds(accounts) /\ Grows(accounts, accounts, job')
      BY <1>1, <2>1 DEF IdsOK
    <3>1. DistinctIds(accounts) /\ job.candidates = PrepareImport(accounts, job.request.rows, job.request)
      BY <1>1, <2>1 DEF IdsOK, Undisturbed
    <3> QED BY <1>1, <2>1, <3>1 DEF Grows
  <2> QED BY <1>1, <2>1, <2>2, <2>3, <2>4, <2>5 DEF ImportInv
<1>3. CASE job' = [job EXCEPT !.step = "done", !.undo = accounts, !.answer = 500]
  <2>1. /\ job' \in Jobs /\ job'.step = "done" /\ job'.undo = accounts /\ job'.next = job.next
        /\ job'.request = job.request /\ job'.answer = 500
    <3>1. "done" \in JobSteps /\ accounts \in JobUndos
      BY <1>1 DEF JobSteps, JobUndos
    <3>2. PICK a \in JobAnswers : a = 500
      BY DEF JobAnswers
    <3>3. job \in Jobs /\ job' = [job EXCEPT !.step = "done", !.undo = accounts, !.answer = a]
      BY <1>1, <1>3, <3>2
    <3>4. /\ job' \in Jobs /\ job'.step = "done" /\ job'.undo = accounts /\ job'.next = job.next
          /\ job'.request = job.request /\ job'.answer = a
      BY <3>1, <3>3 DEF Jobs
    <3> QED BY <3>2, <3>4
  <2>2. TargetsOK' /\ UndoOK' /\ ~Going(job')
    BY <1>1, <2>1 DEF TargetsOK, UndoOK, Going
  <2>3. IdsOK'
    BY <1>1, <2>1 DEF IdsOK, Undisturbed
  <2> QED BY <1>1, <2>1, <2>2, <2>3 DEF ImportInv
<1> QED BY <1>2, <1>3 DEF BeginTransaction

\* COMMIT.
LEMMA CommitKeeps == ImportInv /\ CommitImport => ImportInv'
<1> SUFFICES ASSUME ImportInv, CommitImport PROVE ImportInv'
  OBVIOUS
<1>1. /\ accounts \in Seq(Account) /\ job \in Jobs /\ job.step = "rows" /\ accounts' = accounts
      /\ raced' = raced /\ PlanOK(job) /\ TotalsOK(job) /\ job.next <= MaxSourceRows + 1
      /\ PinsAreActive(accounts) /\ TargetsOK /\ IdsOK /\ job.next > Len(job.candidates)
      /\ job' = [job EXCEPT !.step = "done", !.answer = 200]
  BY DEF ImportInv, CommitImport, Going
<1>2. /\ job' \in Jobs /\ job'.step = "done" /\ job'.answer = 200 /\ job'.next = job.next
      /\ job'.request = job.request /\ job'.candidates = job.candidates
      /\ job'.preview = job.preview /\ job'.totals = job.totals
  <2>1. "done" \in JobSteps /\ 200 \in JobAnswers
    BY DEF JobSteps, JobAnswers
  <2> QED BY <1>1, <2>1 DEF Jobs
<1>3. job.next = Len(job.candidates) + 1
  BY <1>1 DEF PlanOK, Jobs
<1>4. PlanOK(job') /\ TotalsOK(job')
  BY <1>1, <1>2, <1>3, JobMoves
<1>5. TargetsOK' /\ UndoOK'
  BY <1>2 DEF TargetsOK, UndoOK
<1>6. IdsOK'
  BY <1>1, <1>2 DEF IdsOK, Undisturbed
<1> QED BY <1>1, <1>2, <1>4, <1>5, <1>6 DEF ImportInv

\* A rollback.
LEMMA FailureKeeps == ImportInv /\ TransactionFails => ImportInv'
<1> SUFFICES ASSUME ImportInv, TransactionFails PROVE ImportInv'
  OBVIOUS
<1>1. /\ job \in Jobs /\ job.step = "rows" /\ accounts' = job.undo /\ raced \in BOOLEAN
      /\ raced' = raced /\ job.next <= MaxSourceRows + 1 /\ IdsOK
      /\ job' = [job EXCEPT !.step = "done", !.answer = 500]
      /\ job.undo \in Seq(Account) /\ PinsAreActive(job.undo)
  BY DEF ImportInv, TransactionFails, UndoOK
<1>2. /\ job' \in Jobs /\ job'.step = "done" /\ job'.answer = 500 /\ job'.next = job.next
      /\ job'.request = job.request /\ job'.undo = job.undo
  <2>1. "done" \in JobSteps
    BY DEF JobSteps
  <2>2. PICK a \in JobAnswers : a = 500
    BY DEF JobAnswers
  <2>3. job \in Jobs /\ job' = [job EXCEPT !.step = "done", !.answer = a]
    BY <1>1, <2>2
  <2>4. /\ job' \in Jobs /\ job'.step = "done" /\ job'.answer = a /\ job'.next = job.next
        /\ job'.request = job.request /\ job'.undo = job.undo
    BY <2>1, <2>3 DEF Jobs
  <2> QED BY <2>2, <2>4
<1>3. TargetsOK' /\ UndoOK' /\ ~Going(job')
  BY <1>1, <1>2 DEF TargetsOK, UndoOK, Going
<1>4. IdsOK'
  <2> SUFFICES ASSUME ~raced, Undisturbed(job') PROVE DistinctIds(job.undo)
    BY <1>1, <1>2 DEF IdsOK
  <2> QED BY <1>1, <1>2 DEF IdsOK, Grows, Undisturbed
<1> QED BY <1>1, <1>2, <1>3, <1>4 DEF ImportInv

TotalsFields == {"inserted", "updated", "skipped", "invalid", "failed"}

\* One more row in one of the totals.
OneMore(t, f) == [t EXCEPT ![f] = t[f] + 1]

Incremented(u, t, f) ==
    /\ u \in Totals
    /\ u.inserted + u.updated + u.skipped + u.invalid + u.failed
         = t.inserted + t.updated + t.skipped + t.invalid + t.failed + 1
    /\ u.skipped = t.skipped + (IF f = "skipped" THEN 1 ELSE 0)
    /\ u.invalid = t.invalid + (IF f = "invalid" THEN 1 ELSE 0)
    /\ u.inserted + u.updated + u.failed
         = t.inserted + t.updated + t.failed + (IF f \in {"skipped", "invalid"} THEN 0 ELSE 1)

\* It counts one row more.
LEMMA TotalsStep ==
    ASSUME NEW t \in Totals, NEW f \in TotalsFields
    PROVE  Incremented(OneMore(t, f), t, f)
<1>1. CASE f = "inserted"
  BY <1>1 DEF Totals, Incremented, OneMore
<1>2. CASE f = "updated"
  BY <1>2 DEF Totals, Incremented, OneMore
<1>3. CASE f = "skipped"
  BY <1>3 DEF Totals, Incremented, OneMore
<1>4. CASE f = "invalid"
  BY <1>4 DEF Totals, Incremented, OneMore
<1>5. CASE f = "failed"
  BY <1>5 DEF Totals, Incremented, OneMore
<1> QED BY <1>1, <1>2, <1>3, <1>4, <1>5 DEF TotalsFields

\* What applying a row does: what is counted, and what becomes of the table.
RowApplied(candidate, row, action, field) ==
    /\ field \in TotalsFields
    /\ action = "skip" => field = "skipped"
    /\ action = "invalid" => field = "invalid"
    /\ action \in {"new", "update"} => field \notin {"skipped", "invalid"}
    /\ field = "inserted" => action = "new"
    /\ field = "updated" => action = "update" /\ candidate.to # 0
    /\ accounts' = IF field = "inserted" THEN Append(accounts, InsertedRow(row))
                   ELSE IF field = "updated"
                   THEN [accounts EXCEPT ![candidate.to] = UpdatedRow(accounts[candidate.to], row)]
                   ELSE accounts
    /\ job.step = "rows" /\ job.next <= Len(job.candidates) /\ raced' = raced
    /\ job' = [job EXCEPT !.next = job.next + 1,
                          !.totals = OneMore(job.totals, field)]

\* A step of ApplyRow in these terms.
LEMMA ApplyShape ==
    ASSUME ImportInv, NEW writes \in BOOLEAN, ApplyRow(writes)
    PROVE  LET candidate == job.candidates[job.next]
               row == job.request.rows[job.next]
               action == RowAction(candidate, job.request.override)
           IN  /\ candidate \in Candidates /\ row \in SourceRows
               /\ job.next \in 1..Len(job.candidates)
               /\ action \in Actions
               /\ job.request.override = INone => action = candidate.action
               /\ \E field : RowApplied(candidate, row, action, field)
<1> DEFINE candidate == job.candidates[job.next]
           row == job.request.rows[job.next]
           action == RowAction(candidate, job.request.override)
           storable == row.token = INone \/ StorableToken(row.token, job.request.key) # INone
           written == storable /\ writes /\ (action = "new" \/ candidate.to # 0)
           field == IF action = "skip" THEN "skipped"
                    ELSE IF action = "invalid" THEN "invalid"
                    ELSE IF ~written THEN "failed"
                    ELSE IF action = "new" THEN "inserted" ELSE "updated"
<1>1. /\ job \in Jobs /\ job.step = "rows" /\ job.next <= Len(job.candidates) /\ PlanOK(job)
  BY DEF ImportInv, ApplyRow, Going
<1>2. /\ job.candidates \in Seq(Candidates) /\ job.request.rows \in Seq(SourceRows)
      /\ job.next \in Nat \ {0} /\ job.request.override \in Overrides
      /\ Len(job.candidates) = Len(job.request.rows)
  BY <1>1 DEF Jobs, JobPlans, PlanOK, RequestsWithRows
<1>3. job.next \in 1..Len(job.candidates)
  BY <1>1, <1>2
<1>4. candidate \in Candidates /\ row \in SourceRows
  BY <1>2, <1>3
<1>5. action \in Actions /\ (job.request.override = INone => action = candidate.action)
  <2>1. candidate.action \in Actions
    BY <1>4 DEF Candidates
  <2>2. job.request.override = INone \/ job.request.override.action \in Actions
    BY <1>2 DEF Overrides, Actions
  <2> HIDE DEF candidate
  <2> QED BY <2>1, <2>2 DEF RowAction, Actions
<1>6. /\ accounts' = CASE field = "inserted" -> Append(accounts, InsertedRow(row))
                        [] field = "updated" -> [accounts EXCEPT ![candidate.to] =
                                                    UpdatedRow(accounts[candidate.to], row)]
                        [] OTHER -> accounts
      /\ job' = [job EXCEPT !.next = @ + 1, !.totals[field] = @ + 1]
      /\ raced' = raced
  BY DEF ApplyRow
<1>7. /\ field \in TotalsFields
      /\ action = "skip" => field = "skipped"
      /\ action = "invalid" => field = "invalid"
      /\ action \in {"new", "update"} => field \notin {"skipped", "invalid"}
      /\ field = "inserted" => action = "new"
      /\ field = "updated" => action = "update" /\ candidate.to # 0
  <2>1. action \in {"new", "update", "skip", "invalid"}
    BY <1>5 DEF Actions
  <2> HIDE DEF action, storable, candidate, row
  <2> QED BY <2>1 DEF TotalsFields
<1> HIDE DEF field, action, candidate, row
<1>8. accounts' = IF field = "inserted" THEN Append(accounts, InsertedRow(row))
                  ELSE IF field = "updated"
                  THEN [accounts EXCEPT ![candidate.to] = UpdatedRow(accounts[candidate.to], row)]
                  ELSE accounts
  BY <1>6
<1>9. job' = [job EXCEPT !.next = job.next + 1,
                         !.totals = OneMore(job.totals, field)]
  BY <1>1, <1>6 DEF Jobs, OneMore
<1>10. RowApplied(candidate, row, action, field)
  BY <1>1, <1>6, <1>7, <1>8, <1>9 DEF RowApplied
<1> QED BY <1>3, <1>4, <1>5, <1>10 DEF candidate, row, action

\* What was done with a row is what was decided.
AsDecided(candidate, field) ==
    /\ field = "inserted" => candidate.action = "new"
    /\ field = "updated" => candidate.action = "update"

\* The length of a table and the ids in it after a row.
Outcome(old, table, candidate, row, field) ==
    /\ \/ field # "inserted" /\ Len(table) = Len(old)
       \/ /\ field = "inserted" /\ Len(table) = Len(old) + 1
          /\ table[Len(table)].chatgpt = row.chatgpt
    /\ \A i \in 1..Len(old) :
         table[i].chatgpt = IF field = "updated" /\ i = candidate.to /\ row.chatgpt # INone
                            THEN row.chatgpt ELSE old[i].chatgpt

\* The table after a row, whatever was done with it.
LEMMA TableStep ==
    ASSUME accounts \in Seq(Account), PinsAreActive(accounts),
           NEW candidate \in Candidates, NEW row \in SourceRows, NEW action, NEW field,
           candidate.to <= Len(accounts), RowApplied(candidate, row, action, field)
    PROVE  /\ accounts' \in Seq(Account) /\ PinsAreActive(accounts')
           /\ Outcome(accounts, accounts', candidate, row, field)
<1>1. candidate.to \in Nat
  BY DEF Candidates
<1>2. CASE field = "inserted"
  <2> DEFINE new == InsertedRow(row)
  <2>1. new \in Account /\ ~new.pinned /\ new.chatgpt = row.chatgpt
    BY RowsBecomeAccounts
  <2>2. accounts' = Append(accounts, new)
    BY <1>2 DEF RowApplied
  <2> HIDE DEF new
  <2>3. /\ accounts' \in Seq(Account) /\ Len(accounts') = Len(accounts) + 1
        /\ accounts'[Len(accounts')] = new
        /\ \A i \in 1..Len(accounts) : accounts'[i] = accounts[i]
    BY <2>1, <2>2
  <2>4. PinsAreActive(accounts')
    BY <2>1, <2>3 DEF PinsAreActive
  <2> QED BY <1>2, <2>1, <2>3, <2>4 DEF Outcome
<1>3. CASE field = "updated"
  <2> DEFINE new == UpdatedRow(accounts[candidate.to], row)
             to == candidate.to
  <2>1. to \in 1..Len(accounts)
    BY <1>1, <1>3 DEF RowApplied
  <2>2. accounts[to] \in Account
    BY <2>1
  <2>3. /\ new \in Account /\ (new.pinned => new.status = "active")
        /\ new.chatgpt = IF row.chatgpt = INone THEN accounts[to].chatgpt ELSE row.chatgpt
    BY <2>2, RowsBecomeAccounts
  <2>4. accounts' = [accounts EXCEPT ![to] = new]
    BY <1>3 DEF RowApplied
  <2> HIDE DEF new, to
  <2>5. /\ accounts' \in Seq(Account) /\ Len(accounts') = Len(accounts) /\ accounts'[to] = new
        /\ \A i \in 1..Len(accounts) : i # to => accounts'[i] = accounts[i]
    BY <2>1, <2>3, <2>4
  <2>6. PinsAreActive(accounts')
    BY <2>1, <2>3, <2>5 DEF PinsAreActive
  <2>7. \A i \in 1..Len(accounts) :
          accounts'[i].chatgpt = IF i = to /\ row.chatgpt # INone THEN row.chatgpt ELSE accounts[i].chatgpt
    BY <2>3, <2>5
  <2> QED BY <1>3, <2>5, <2>6, <2>7 DEF to, Outcome
<1>4. CASE field \notin {"inserted", "updated"}
  <2>1. accounts' = accounts
    BY <1>4 DEF RowApplied
  <2> QED BY <1>4, <2>1 DEF Outcome
<1> QED BY <1>2, <1>3, <1>4

\* Without an override, a row that is inserted has an id that no account has,
\* and one that updates an account leaves it its id.
LEMMA IdsStayApart ==
    ASSUME accounts \in Seq(Account), DistinctIds(accounts), NEW before,
           job.next \in 1..Len(job.candidates), Grows(before, accounts, job),
           NEW k, k.request = job.request, k.candidates = job.candidates, k.next = job.next + 1,
           job.request.rows \in Seq(SourceRows), Len(job.candidates) = Len(job.request.rows),
           NEW field, AsDecided(job.candidates[job.next], field), NEW table \in Seq(Account),
           Outcome(accounts, table, job.candidates[job.next], job.request.rows[job.next], field)
    PROVE  DistinctIds(table) /\ Grows(before, table, k)
<1> DEFINE n == job.next
           candidate == job.candidates[n]
           row == job.request.rows[n]
<1>a. /\ field = "inserted" => candidate.action = "new"
      /\ field = "updated" => candidate.action = "update"
      /\ \/ field # "inserted" /\ Len(table) = Len(accounts)
         \/ /\ field = "inserted" /\ Len(table) = Len(accounts) + 1
            /\ table[Len(table)].chatgpt = row.chatgpt
      /\ \A i \in 1..Len(accounts) :
           table[i].chatgpt = IF field = "updated" /\ i = candidate.to /\ row.chatgpt # INone
                              THEN row.chatgpt ELSE accounts[i].chatgpt
  BY DEF AsDecided, Outcome
<1> DEFINE rows == job.request.rows
           same == SameIdentity(before, row)
<1>1. /\ before \in Seq(Account) /\ DistinctIds(before) /\ Len(before) <= Len(accounts)
      /\ job.candidates = PrepareImport(before, rows, job.request)
      /\ \A i \in 1..Len(before) : accounts[i].chatgpt = before[i].chatgpt
      /\ \A i \in (Len(before) + 1)..Len(accounts) :
           accounts[i].chatgpt # INone =>
               \E m \in 1..(n - 1) : rows[m].chatgpt = accounts[i].chatgpt
  BY DEF Grows
<1>0. Decided(job.candidates, before, rows, job.request)
  <2>1. rows \in Seq(SourceRows)
    OBVIOUS
  <2>2. Decided(PrepareImport(before, rows, job.request), before, rows, job.request)
    BY <1>1, <2>1, CandidatesFit
  <2> QED BY <1>1, <2>2
<1>2. candidate.to = DestinationIndex(before, row)
  BY <1>0 DEF Decided
<1>3. candidate.action \in {"new", "update"} =>
        ~SeenKey(rows, n) /\ (candidate.action = "new" <=> candidate.to = 0)
  BY <1>0 DEF Decided
<1>4. IF same = {} THEN candidate.to = 0 ELSE candidate.to \in same
  <2>1. IF same = {} THEN DestinationIndex(before, row) = 0 ELSE DestinationIndex(before, row) \in same
    BY <1>1, DestinationFits
  <2> QED BY <1>2, <2>1
<1>5. \A i \in 1..Len(accounts) : table[i].chatgpt = accounts[i].chatgpt
  <2>1. CASE field = "updated" /\ row.chatgpt # INone
    <3>1. candidate.to \in same
      BY <1>a, <1>3, <1>4, <2>1
    <3>2. candidate.to \in 1..Len(before) /\ before[candidate.to].chatgpt = row.chatgpt
      BY <2>1, <3>1 DEF SameIdentity
    <3>3. accounts[candidate.to].chatgpt = row.chatgpt
      BY <1>1, <3>2
    <3> QED BY <1>a, <2>1, <3>3
  <2>2. CASE ~(field = "updated" /\ row.chatgpt # INone)
    BY <1>a, <2>2
  <2> QED BY <2>1, <2>2
<1>6. Len(accounts) \in Nat /\ Len(table) \in Nat /\ Len(before) \in Nat /\ n \in Nat /\ n - 1 \in Nat
      /\ n \in 1..Len(rows)
  BY <1>1
<1>7. ASSUME field = "inserted", row.chatgpt # INone
      PROVE  \A i \in 1..Len(accounts) : accounts[i].chatgpt # row.chatgpt
  <2>1. same = {} /\ ~SeenKey(rows, n)
    <3>1. candidate.action = "new"
      BY <1>a, <1>7
    <3>2. candidate.to = 0 /\ ~SeenKey(rows, n)
      BY <1>3, <3>1
    <3>3. 0 \notin same
      BY DEF SameIdentity
    <3> HIDE DEF same
    <3> QED BY <1>4, <3>2, <3>3
  <2>2. \A i \in 1..Len(before) : before[i].chatgpt # row.chatgpt
    BY <1>7, <2>1 DEF SameIdentity
  <2>3. \A m \in 1..(n - 1) : rows[m].chatgpt # row.chatgpt
    <3> SUFFICES ASSUME NEW m \in 1..(n - 1), rows[m].chatgpt = row.chatgpt PROVE FALSE
      OBVIOUS
    <3>1. DedupeKey(rows[m]) = DedupeKey(rows[n])
      BY <1>7 DEF DedupeKey
    <3> QED BY <2>1, <3>1 DEF SeenKey
  <2> SUFFICES ASSUME NEW i \in 1..Len(accounts), accounts[i].chatgpt = row.chatgpt PROVE FALSE
    OBVIOUS
  <2>4. CASE i \in 1..Len(before)
    BY <1>1, <2>2, <2>4
  <2>5. CASE i \in (Len(before) + 1)..Len(accounts)
    BY <1>1, <1>7, <2>3, <2>5, SMTT(60)
  <2> QED BY <1>6, <2>4, <2>5
<1>8. DistinctIds(table)
  <2>1. CASE field # "inserted"
    BY <1>a, <1>5, <1>6, <2>1 DEF DistinctIds
  <2>2. CASE field = "inserted"
    <3>1. Len(table) = Len(accounts) + 1 /\ table[Len(table)].chatgpt = row.chatgpt
      BY <1>a, <2>2
    <3> SUFFICES ASSUME NEW i \in 1..Len(table), NEW j \in 1..Len(table), i # j,
                        table[i].chatgpt # INone
                 PROVE  table[i].chatgpt # table[j].chatgpt
      BY DEF DistinctIds
    <3>2. CASE i \in 1..Len(accounts) /\ j \in 1..Len(accounts)
      BY <1>5, <3>2 DEF DistinctIds
    <3>3. CASE i = Len(table)
      <4>1. j \in 1..Len(accounts)
        BY <1>6, <3>1, <3>3
      <4> QED BY <1>5, <1>7, <2>2, <3>1, <3>3, <4>1
    <3>4. CASE j = Len(table)
      <4>1. i \in 1..Len(accounts)
        BY <1>6, <3>1, <3>4
      <4> QED BY <1>5, <1>7, <2>2, <3>1, <3>4, <4>1
    <3> QED BY <1>6, <3>1, <3>2, <3>3, <3>4
  <2> QED BY <2>1, <2>2
<1>9. Grows(before, table, k)
  <2>1. Len(before) <= Len(table)
    BY <1>a, <1>1, <1>6
  <2>2. \A i \in 1..Len(before) : table[i].chatgpt = before[i].chatgpt
    BY <1>1, <1>5, <1>6
  <2>3. k.candidates = PrepareImport(before, k.request.rows, k.request)
    BY <1>1
  <2>4. k.next - 1 = n /\ k.request.rows = rows
    BY <1>6
  <2>5. ASSUME NEW i \in (Len(before) + 1)..Len(table), table[i].chatgpt # INone
        PROVE  \E m \in 1..n : rows[m].chatgpt = table[i].chatgpt
    <3>1. CASE i \in 1..Len(accounts)
      <4>1. PICK m \in 1..(n - 1) : rows[m].chatgpt = accounts[i].chatgpt
        <5>1. i \in (Len(before) + 1)..Len(accounts) /\ accounts[i].chatgpt # INone
          <6>1. Len(accounts) \in Nat /\ Len(table) \in Nat /\ Len(before) \in Nat
            BY <1>6
          <6>2. i \in (Len(before) + 1)..Len(accounts)
            BY <3>1, <6>1
          <6>3. table[i].chatgpt = accounts[i].chatgpt
            BY <1>5, <3>1
          <6> QED BY <2>5, <6>2, <6>3
        <5> HIDE DEF rows, n
        <5> QED BY <1>1, <5>1
      <4>2. m \in 1..n
        BY <1>6
      <4> QED BY <1>5, <3>1, <4>1, <4>2
    <3>2. CASE i \notin 1..Len(accounts)
      <4>1. field = "inserted" /\ i = Len(table)
        BY <1>a, <1>1, <1>6, <3>2
      <4>2. table[i].chatgpt = rows[n].chatgpt
        BY <1>a, <4>1
      <4>3. n \in 1..n
        BY <1>6
      <4> QED BY <4>2, <4>3
    <3> QED BY <3>1, <3>2
  <2> QED BY <1>1, <2>1, <2>2, <2>3, <2>4, <2>5 DEF Grows
<1> QED BY <1>8, <1>9

\* One row of the import.
LEMMA ApplyRowKeeps ==
    ASSUME ImportInv, NEW writes \in BOOLEAN, ApplyRow(writes)
    PROVE  ImportInv'
<1> DEFINE n == job.next
           candidate == job.candidates[n]
           row == job.request.rows[n]
           action == RowAction(candidate, job.request.override)
<1>1. /\ candidate \in Candidates /\ row \in SourceRows /\ n \in 1..Len(job.candidates)
      /\ action \in Actions /\ (job.request.override = INone => action = candidate.action)
  BY ApplyShape
<1>2. PICK field : RowApplied(candidate, row, action, field)
  BY ApplyShape
<1> HIDE DEF action, candidate, row
<1>3. /\ accounts \in Seq(Account) /\ PinsAreActive(accounts) /\ job \in Jobs /\ raced' = raced
      /\ raced \in BOOLEAN /\ job.step = "rows" /\ PlanOK(job) /\ TotalsOK(job) /\ TargetsOK
      /\ IdsOK /\ UndoOK
  BY <1>2 DEF ImportInv, RowApplied, Going
<1>4. candidate.to <= Len(accounts)
  BY <1>1, <1>3 DEF TargetsOK, candidate
<1>5. /\ accounts' \in Seq(Account) /\ PinsAreActive(accounts')
      /\ Outcome(accounts, accounts', candidate, row, field)
  BY <1>1, <1>2, <1>3, <1>4, TableStep
<1>6. PICK t : t = OneMore(job.totals, field)
  OBVIOUS
<1>7. /\ job.totals \in Totals /\ field \in TotalsFields /\ n \in Nat \ {0}
      /\ job.candidates \in Seq(Candidates) /\ Len(job.candidates) \in Nat
  BY <1>2, <1>3 DEF Jobs, JobPlans, RowApplied
<1>8. Incremented(t, job.totals, field) /\ t \in Totals
  BY <1>6, <1>7, TotalsStep DEF Incremented
<1>9. PICK m \in Nat \ {0} : m = n + 1
  BY <1>7
<1>10. job' = [job EXCEPT !.next = m, !.totals = t]
  BY <1>2, <1>6, <1>9 DEF RowApplied
<1>11. /\ job' \in Jobs /\ job'.step = "rows" /\ job'.next = m /\ job'.totals = t
       /\ job'.request = job.request /\ job'.candidates = job.candidates
       /\ job'.preview = job.preview /\ job'.undo = job.undo
  BY <1>3, <1>8, <1>10 DEF Jobs
<1>12. PlanOK(job') /\ m <= MaxSourceRows + 1
  <2>1. m <= Len(job.candidates) + 1
    BY <1>1, <1>7, <1>9
  <2>2. Len(job.candidates) <= MaxSourceRows /\ MaxSourceRows \in Nat
    BY <1>3, ImportAssumption DEF PlanOK
  <2>3. PlanOK(job')
    BY <1>3, <1>11, <2>1 DEF PlanOK
  <2> QED BY <1>7, <2>1, <2>2, <2>3
<1>13. TotalsOK(job')
  <2>1. /\ t.inserted + t.updated + t.skipped + t.invalid + t.failed = n
    <3>1. t.inserted + t.updated + t.skipped + t.invalid + t.failed = (n - 1) + 1
      BY <1>3, <1>8 DEF TotalsOK, Incremented
    <3> QED BY <1>7, <3>1
  <2>2. job'.next - 1 = n
    BY <1>7, <1>9, <1>11
  <2>3. ASSUME job.request.override = INone
        PROVE  /\ t.skipped = Cardinality(Chosen(job.candidates, n, "skip"))
               /\ t.invalid = Cardinality(Chosen(job.candidates, n, "invalid"))
               /\ t.inserted + t.updated + t.failed
                    = Cardinality(Chosen(job.candidates, n, "new"))
                      + Cardinality(Chosen(job.candidates, n, "update"))
    <3> DEFINE was(a) == Cardinality(Chosen(job.candidates, n - 1, a))
               is(a) == Cardinality(Chosen(job.candidates, n, a))
    <3>1. \A a : was(a) \in Nat /\ is(a) = was(a) + (IF candidate.action = a THEN 1 ELSE 0)
      BY <1>1, <1>7, ChosenGrows DEF candidate
    <3>2. /\ job.totals.skipped = was("skip") /\ job.totals.invalid = was("invalid")
          /\ job.totals.inserted + job.totals.updated + job.totals.failed = was("new") + was("update")
      BY <1>3, <2>3 DEF TotalsOK
    <3> HIDE DEF was, is
    <3>3. /\ t.skipped = was("skip") + (IF field = "skipped" THEN 1 ELSE 0)
          /\ t.invalid = was("invalid") + (IF field = "invalid" THEN 1 ELSE 0)
          /\ t.inserted + t.updated + t.failed
               = was("new") + was("update") + (IF field \in {"skipped", "invalid"} THEN 0 ELSE 1)
      BY <1>8, <3>2 DEF Incremented
    <3>4. candidate.action \in {"new", "update", "skip", "invalid"} /\ action = candidate.action
      BY <1>1, <2>3 DEF Actions
    <3>5. /\ candidate.action = "skip" <=> field = "skipped"
          /\ candidate.action = "invalid" <=> field = "invalid"
      BY <1>2, <3>4 DEF RowApplied
    <3>6. t.skipped = is("skip") /\ t.invalid = is("invalid")
      BY <3>1, <3>3, <3>5
    <3>7. t.inserted + t.updated + t.failed = is("new") + is("update")
      <4>1. /\ is("new") = was("new") + (IF candidate.action = "new" THEN 1 ELSE 0)
            /\ is("update") = was("update") + (IF candidate.action = "update" THEN 1 ELSE 0)
            /\ was("new") \in Nat /\ was("update") \in Nat
        BY <3>1
      <4> QED BY <3>3, <3>4, <3>5, <4>1
    <3> QED BY <3>6, <3>7 DEF is
  <2> QED BY <1>11, <2>1, <2>2, <2>3 DEF TotalsOK
<1>14. TargetsOK'
  <2>1. \A i \in 1..Len(job.candidates) : job.candidates[i].to <= Len(accounts)
    BY <1>3 DEF TargetsOK
  <2>2. \A i \in 1..Len(job.candidates) : job.candidates[i].to \in Nat
    <3>1. \A i \in 1..Len(job.candidates) : job.candidates[i] \in Candidates
      BY <1>7
    <3>2. \A c \in Candidates : c.to \in Nat
      BY DEF Candidates
    <3> QED BY <3>1, <3>2
  <2>3. Len(accounts) \in Nat /\ Len(accounts') \in Nat /\ Len(accounts) <= Len(accounts')
    BY <1>3, <1>5 DEF Outcome
  <2>4. \A i \in 1..Len(job.candidates) : job.candidates[i].to <= Len(accounts')
    BY <2>1, <2>2, <2>3
  <2> QED BY <1>11, <2>4 DEF TargetsOK
<1>15. UndoOK'
  BY <1>3, <1>11 DEF UndoOK
<1>16. IdsOK'
  <2> SUFFICES ASSUME ~raced, Undisturbed(job')
               PROVE  DistinctIds(accounts') /\ Grows(job.undo, accounts', job')
    BY <1>3, <1>11 DEF IdsOK
  <2>1. job.request \in RequestsWithRows /\ job.request # INone
    BY <1>3, ImportAssumption DEF PlanOK
  <2>2. job.request.override = INone
    BY <1>11, <2>1 DEF Undisturbed
  <2>3. DistinctIds(accounts) /\ Grows(job.undo, accounts, job)
    BY <1>3, <2>2 DEF IdsOK, Undisturbed
  <2>4. AsDecided(candidate, field)
    BY <1>1, <1>2, <2>2 DEF RowApplied, AsDecided
  <2>5. job.request.rows \in Seq(SourceRows) /\ Len(job.candidates) = Len(job.request.rows)
    BY <1>3, <2>1 DEF PlanOK, RequestsWithRows
  <2>6. job'.request = job.request /\ job'.candidates = job.candidates /\ job'.next = job.next + 1
    BY <1>9, <1>11
  <2> QED BY <1>1, <1>3, <1>5, <2>3, <2>4, <2>5, <2>6, IdsStayApart DEF candidate, row
<1> QED BY <1>3, <1>5, <1>11, <1>12, <1>13, <1>14, <1>15, <1>16 DEF ImportInv, Going

\* Every step of the import.
LEMMA ImportStep == ImportInv /\ [ImportNext]_importVars => ImportInv'
<1> SUFFICES ASSUME ImportInv, [ImportNext]_importVars PROVE ImportInv'
  OBVIOUS
<1>1. CASE UNCHANGED importVars
  BY <1>1 DEF importVars, ImportInv, TargetsOK, IdsOK, UndoOK
<1>2. CASE \E rows \in Sources, request \in ImportRequests : StartImport("plain", rows, request)
  BY <1>2, StartImportKeeps
<1>3. CASE \E f \in FileKinds, rows \in [1..MaxSourceRows -> SourceRows], request \in ReadRequests :
             StartImport(f, rows, request)
  BY <1>3, StartImportKeeps
<1>4. CASE \E row \in SourceRows : row.email # INone /\ LoginStoresAccount(row.email, row.chatgpt)
  BY <1>4, LoginKeeps
<1>5. CASE BeginTransaction \/ CommitImport \/ TransactionFails
  BY <1>5, BeginKeeps, CommitKeeps, FailureKeeps
<1>6. CASE \E writes \in BOOLEAN : ApplyRow(writes)
  BY <1>6, ApplyRowKeeps
<1> QED BY <1>1, <1>2, <1>3, <1>4, <1>5, <1>6 DEF ImportNext

\* An import writes all of what it decided or nothing, accounts for every row it
\* read, keeps what the preview promised, gives no upstream id to two accounts
\* and leaves pins on active accounts only, for any source, table and limit.
THEOREM ImportIsSafe == ImportSpec => []ImportSafety
<1>1. ImportInv => ImportSafety
  <2> SUFFICES ASSUME ImportInv PROVE ImportSafety
    OBVIOUS
  <2>1. ImportTypeOK
    <3>1. \A i \in 1..Len(accounts) : accounts[i] \in Account
      BY DEF ImportInv
    <3>2. job.step \in {"idle", "decided", "rows", "done"} /\ job.next \in 1..(MaxSourceRows + 1)
      BY ImportAssumption DEF ImportInv, Jobs, JobSteps
    <3> QED BY <3>1, <3>2 DEF ImportTypeOK, ImportInv
  <2>2. ImportIsAllOrNothing
    <3>1. CASE job.step = "done" /\ job.answer = 200
      <4>1. PlanOK(job) /\ TotalsOK(job)
        BY <3>1 DEF ImportInv, Going
      <4>2. job.next = Len(job.candidates) + 1 /\ Len(job.candidates) = Len(job.request.rows)
        BY <3>1, <4>1 DEF PlanOK
      <4>3. job.candidates \in Seq(Candidates)
        BY DEF ImportInv, Jobs, JobPlans
      <4>4. job.next - 1 = Len(job.request.rows)
        BY <4>2, <4>3
      <4> QED BY <3>1, <4>1, <4>4 DEF TotalsOK, ImportIsAllOrNothing
    <3>2. CASE job.step = "done" /\ job.answer # 200
      BY <3>2 DEF ImportInv, UndoOK, ImportIsAllOrNothing
    <3> QED BY <3>1, <3>2 DEF ImportIsAllOrNothing
  <2>3. ImportedIdsAreUnique
    BY DEF ImportInv, IdsOK, Undisturbed, ImportedIdsAreUnique
  <2>4. PreviewIsKept
    <3> SUFFICES ASSUME job.step = "done", job.answer = 200, job.request.override = INone
                 PROVE  /\ job.totals.skipped = job.preview["skip"]
                        /\ job.totals.invalid = job.preview["invalid"]
                        /\ job.totals.inserted + job.totals.updated + job.totals.failed
                             = job.preview["new"] + job.preview["update"]
                        /\ \A i \in 1..Len(job.request.rows) :
                             job.candidates[i].action \in {"new", "update"} =>
                                 \/ job.request.rows[i].token \in {"plain", "sealed"}
                                 \/ job.request.key \in {INone, "right"}
      BY DEF PreviewIsKept
    <3>1. PlanOK(job) /\ TotalsOK(job)
      BY DEF ImportInv, Going
    <3>2. job.candidates \in Seq(Candidates)
      BY DEF ImportInv, Jobs, JobPlans
    <3>3. job.next - 1 = Len(job.candidates)
      BY <3>1, <3>2 DEF PlanOK
    <3>4. \A a \in Actions : job.preview[a] = Cardinality(Chosen(job.candidates, job.next - 1, a))
      <4>1. job.preview = PreviewTotals(job.candidates)
        BY <3>1 DEF PlanOK
      <4>2. \A a \in Actions : PreviewTotals(job.candidates)[a] =
                               Cardinality(Chosen(job.candidates, Len(job.candidates), a))
        BY DEF PreviewTotals, Chosen
      <4> QED BY <3>3, <4>1, <4>2
    <3>5. {"new", "update", "skip", "invalid"} = Actions
      BY DEF Actions
    <3> QED BY <3>1, <3>4, <3>5 DEF TotalsOK, PlanOK
  <2>5. PinnedIsActive
    BY DEF ImportInv, PinnedIsActive
  <2> QED BY <2>1, <2>2, <2>3, <2>4, <2>5 DEF ImportSafety
<1> QED BY <1>1, ImportInitHolds, ImportStep, PTL DEF ImportSpec
=============================================================================
