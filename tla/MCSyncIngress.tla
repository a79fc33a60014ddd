--------------------------- MODULE MCSyncIngress ---------------------------
(***************************************************************************)
(* Small instances of SyncIngress.  The budget instance sends batches that *)
(* differ in size only, over limits that two of them exceed together; the  *)
(* journal instance sends batches that repeat, overlap and contradict each *)
(* other, under limits that refuse only what is too large by itself.       *)
(***************************************************************************)
EXTENDS SyncIngress, TLC

CONSTANTS w1, w2, w3, p0, p1, p2, A, B

Hello(p) == [site_id |-> p, auth |-> TRUE, schema |-> TRUE, last_recv_seq |-> 1]

Wire(n, es) == [bytes |-> n, decodes |-> TRUE, entries |-> es]

Entry(s, c) == [seq |-> s, checksum |-> c, valid |-> TRUE]

BudgetHandshakes == {Hello(p0), Hello(p1)}
BudgetBatches == {Wire(1, <<>>), Wire(2, <<>>)}

JournalHandshakes ==
    {Hello(p1), Hello(p2)} \union
    {[Hello(p) EXCEPT !.schema = FALSE] : p \in {p1, p2}}
JournalBatches ==
    {Wire(2, <<Entry(1, A)>>),
     Wire(2, <<Entry(1, A), Entry(2, B)>>),
     Wire(2, <<Entry(1, B), Entry(2, A)>>),
     Wire(2, <<Entry(2, B), [Entry(1, A) EXCEPT !.valid = FALSE]>>),
     Wire(2, <<Entry(1, A), Entry(1, B)>>),
     Wire(1, <<Entry(1, A), Entry(2, A), Entry(1, A)>>),
     Wire(3, <<Entry(1, A)>>),
     [Wire(1, <<>>) EXCEPT !.decodes = FALSE]}

Symmetric == Permutations({w1, w2, w3})
SymmetricPairs == Permutations({w1, w2}) \union Permutations({p1, p2})
=============================================================================
