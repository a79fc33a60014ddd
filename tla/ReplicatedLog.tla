---------------------------- MODULE ReplicatedLog ----------------------------
(***************************************************************************)
(* What the Raft library asks of a log store: a window of entries without  *)
(* holes, first..next-1, that can be extended, overwritten from an index   *)
(* on, shortened from the front, and installed from another node, each in  *)
(* one indivisible step that a crash either happens after or before.       *)
(***************************************************************************)
EXTENDS Naturals, Sequences

CONSTANTS Entries, MaxIndex, MaxPack

VARIABLES first, next, log

logVars == <<first, next, log>>

\* The entries es, laid from index i on, over the log.
Over(old, i, es) ==
    [j \in DOMAIN old \union i..(i + Len(es) - 1) |->
        IF j \in i..(i + Len(es) - 1) THEN es[j - i + 1] ELSE old[j]]

LogInit ==
    /\ first = 1
    /\ next = 1
    /\ log = [j \in {} |-> 0]

LogAppend(e) ==
    /\ first' = first
    /\ next' = next + 1
    /\ log' = Over(log, next, <<e>>)

\* The entry replaces the one at i and everything behind it.
LogWriteAt(i, e) ==
    /\ i \in first..next
    /\ first' = first
    /\ next' = i + 1
    /\ log' = Over([j \in first..(i - 1) |-> log[j]], i, <<e>>)

LogCompact(i) ==
    /\ first' = IF first <= i THEN i + 1 ELSE first
    /\ next' = IF next <= i THEN i + 1 ELSE next
    /\ log' = [j \in {k \in DOMAIN log : k > i} |-> log[j]]

\* Entries received from another node, starting inside or next to the window;
\* an empty log takes them wherever they start.
LogInstall(i, es) ==
    /\ first # next => i \in first..next
    /\ first' = IF first = next THEN i ELSE first
    /\ next' = IF first # next /\ i + Len(es) < next THEN next ELSE i + Len(es)
    /\ log' = Over(log, i, es)

Packs == UNION {[1..n -> Entries] : n \in 1..MaxPack}

\* A call that changes nothing is no step of the log.
LogNext ==
    /\ <<first, log>>' # <<first, log>>
    /\ \/ \E e \in Entries : LogAppend(e)
       \/ \E i \in 1..MaxIndex, e \in Entries : LogWriteAt(i, e)
       \/ \E i \in 1..MaxIndex : LogCompact(i)
       \/ \E i \in 1..MaxIndex, es \in Packs : LogInstall(i, es)

LogSpec == LogInit /\ [][LogNext]_logVars
==============================================================================
