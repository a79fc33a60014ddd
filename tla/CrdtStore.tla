------------------------------ MODULE CrdtStore ------------------------------
(***************************************************************************)
(* The state-based CRDTs of the sync layer and their SQLite store: PN      *)
(* counters (usage), last-writer-wins registers stamped by a hybrid clock  *)
(* (sticky sessions) and OR-sets (IP allowlist).  A change of a site's row *)
(* (an update of its own, or CrdtSync's merge of a remote state) loads the *)
(* row, changes it in memory and saves it in a transaction of its own, so  *)
(* two workers of a site interleave.  Remote states are delayed and        *)
(* reordered: any state ever stored may be merged anywhere.  A             *)
(* behaviour is about one CRDT, `kind`.  Every state carries the set of    *)
(* the updates it includes (ups), which the code does not have.            *)
(***************************************************************************)
EXTENDS Naturals, FiniteSets

CONSTANTS
    Sites,         \* site ids: naturals
    Workers,       \* threads
    SiteOf,        \* worker -> the site it works for
    Elements,      \* elements of a set, values of a register
    NoReg,         \* a register that is not initialized
    NoWork,
    MaxUpdates,    \* bound: updates made
    MaxClock       \* bound: wall clock

\* A stamp of the hybrid clock (Hlc).
Stamps == [wall : Nat, counter : Nat, site : Sites]

ASSUME CrdtAssumption ==
    /\ Sites \subseteq Nat /\ SiteOf \in [Workers -> Sites] /\ MaxUpdates \in Nat /\ MaxClock \in Nat
    /\ NoReg \notin [value : Elements, stamp : Stamps]

VARIABLES
    kind,       \* "counter", "register" or "set"
    stored,     \* site -> the row in its database
    sent,       \* every state ever stored: what a peer may still receive
    work,       \* worker -> the state it is about to save, and whether the row
                \* is still the one it loaded
    clock,      \* site -> its HlcClock
    history,    \* update id -> what it did
    torn,       \* some save overwrote a row it had not loaded
    stamps,     \* stamps given to registers
    late        \* some register was set with a stamp that was not a new, later one

crdtVars == <<kind, stored, sent, work, clock, history, torn, stamps, late>>

Larger(a, b) == IF a > b THEN a ELSE b

Zero == [s \in Sites |-> 0]

EmptyState(k) ==
    CASE k = "counter"  -> [ups |-> {}, pos |-> Zero, neg |-> Zero]
      [] k = "register" -> [ups |-> {}, reg |-> NoReg]
      [] k = "set"      -> [ups |-> {}, tags |-> {}, counters |-> Zero]

CrdtInit ==
    /\ kind \in {"counter", "register", "set"}
    /\ stored = [s \in Sites |-> EmptyState(kind)]
    /\ sent = {EmptyState(kind)}
    /\ work = [w \in Workers |-> NoWork]
    /\ clock = [s \in Sites |-> [wall |-> 0, counter |-> 0, site |-> s]]
    /\ history = [i \in {} |-> i]
    /\ torn = FALSE
    /\ stamps = {}
    /\ late = FALSE

(***************************************************************************)
(* Merges                                                                  *)
(***************************************************************************)
\* GCounter::merge keeps the larger count of every site.
MergeCounts(a, b) == [s \in Sites |-> Larger(a[s], b[s])]

MergeCounter(a, b) == [ups |-> a.ups \union b.ups,
                       pos |-> MergeCounts(a.pos, b.pos), neg |-> MergeCounts(a.neg, b.neg)]

\* compare_hlc(x, y) > 0
HlcAfter(x, y) ==
    \/ x.wall > y.wall
    \/ x.wall = y.wall /\ x.counter > y.counter
    \/ x.wall = y.wall /\ x.counter = y.counter /\ x.site > y.site

\* LWWRegister::merge: of two registers with the same stamp the own one stays.
Latest(own, other) == IF HlcAfter(other.stamp, own.stamp) THEN other ELSE own

MergeRegister(a, b) ==
    [ups |-> a.ups \union b.ups,
     reg |-> IF b.reg = NoReg THEN a.reg ELSE IF a.reg = NoReg THEN b.reg ELSE Latest(a.reg, b.reg)]

MergeTags_KnownElements(a, b) == a \union {t \in b : \E u \in a : u.element = t.element}

\* ORSet::merge unions the tags: a removal leaves no trace to merge.
MergeTags(a, b) == a \union b

MergeSet(a, b) == [ups |-> a.ups \union b.ups, tags |-> MergeTags(a.tags, b.tags),
                   counters |-> MergeCounts(a.counters, b.counters)]

MergeStates(a, b) ==
    CASE kind = "counter"  -> MergeCounter(a, b)
      [] kind = "register" -> MergeRegister(a, b)
      [] kind = "set"      -> MergeSet(a, b)

(***************************************************************************)
(* Updates: load, change in memory                                         *)
(***************************************************************************)
Id == Cardinality(DOMAIN history) + 1

Record(s, what, e) ==
    history' = [i \in 1..Id |-> IF i = Id THEN [site |-> s, what |-> what, element |-> e] ELSE history[i]]

Holds(w, v) == work' = [work EXCEPT ![w] = [value |-> v, fresh |-> TRUE]]

\* PNCounter::add with a positive or a negative delta.
AddToCounter(s, w, up) ==
    /\ kind = "counter" /\ Id <= MaxUpdates /\ work[w] = NoWork
    /\ Holds(w, LET v == [stored[s] EXCEPT !.ups = @ \union {Id}]
                   IN  IF up THEN [v EXCEPT !.pos[s] = @ + 1] ELSE [v EXCEPT !.neg[s] = @ + 1])
    /\ Record(s, IF up THEN "up" ELSE "down", "none")
    /\ UNCHANGED <<kind, stored, sent, clock, torn, stamps, late>>

\* HlcClock::on_local_event
OnLocalEvent(s, now) == [clock[s] EXCEPT !.wall = Larger(@, now), !.counter = @ + 1]

NewAndLater(stamp, reg) == stamp \notin stamps /\ (reg # NoReg => HlcAfter(stamp, reg.stamp))

\* LWWRegister::set with the clock's next stamp.
SetRegister(s, w, e, now) ==
    LET stamp == OnLocalEvent(s, now)
    IN  /\ kind = "register" /\ Id <= MaxUpdates /\ work[w] = NoWork
        /\ clock' = [clock EXCEPT ![s] = stamp]
        /\ Holds(w, [ups |-> stored[s].ups \union {Id}, reg |-> [value |-> e, stamp |-> stamp]])
        /\ Record(s, "set", e)
        /\ stamps' = stamps \union {stamp}
        /\ late' = (late \/ ~NewAndLater(stamp, stored[s].reg))
        /\ UNCHANGED <<kind, stored, sent, torn>>

\* HlcClock::on_remote_event: unless the remote wall is the largest the counter is
\* set to 0, also when the clock's own wall stays where it was.
OnRemoteEvent(s, remote, now) ==
    LET own == clock[s]
        wall == Larger(Larger(own.wall, remote.wall), now)
    IN  [own EXCEPT !.wall = wall,
                    !.counter = IF wall = remote.wall THEN Larger(@, remote.counter) + 1 ELSE 0]

ClockHears(s, remote, now) ==
    /\ kind = "register"
    /\ clock[s].counter < MaxUpdates
    /\ clock' = [clock EXCEPT ![s] = OnRemoteEvent(s, remote, now)]
    /\ UNCHANGED <<kind, stored, sent, work, history, torn, stamps, late>>

\* ORSet::add with the site's next tag.
AddElement(s, w, e) ==
    LET n == stored[s].counters[s] + 1
    IN  /\ kind = "set" /\ Id <= MaxUpdates /\ work[w] = NoWork
        /\ Holds(w, [ups |-> stored[s].ups \union {Id},
                        tags |-> stored[s].tags \union {[element |-> e, site |-> s, n |-> n]},
                        counters |-> [stored[s].counters EXCEPT ![s] = n]])
        /\ Record(s, "add", e)
        /\ UNCHANGED <<kind, stored, sent, clock, torn, stamps, late>>

\* ORSet::remove erases the tags it has.
RemoveElement(s, w, e) ==
    /\ kind = "set" /\ Id <= MaxUpdates /\ work[w] = NoWork
    /\ \E t \in stored[s].tags : t.element = e
    /\ Holds(w, [stored[s] EXCEPT !.ups = @ \union {Id}, !.tags = {t \in @ : t.element # e}])
    /\ Record(s, "remove", e)
    /\ UNCHANGED <<kind, stored, sent, clock, torn, stamps, late>>

\* CrdtSync::merge_*: load and merge a remote state.
LoadAndMerge(s, w, remote) ==
    /\ work[w] = NoWork
    /\ Holds(w, MergeStates(stored[s], remote))
    /\ UNCHANGED <<kind, stored, sent, clock, history, torn, stamps, late>>

\* CrdtStore::save_*: the row is replaced in one transaction, whatever it is now.
SaveState(s, w) ==
    /\ work[w] # NoWork
    /\ stored' = [stored EXCEPT ![s] = work[w].value]
    /\ sent' = sent \union {work[w].value}
    /\ torn' = (torn \/ ~work[w].fresh)
    /\ work' = [x \in Workers |->
                  IF x = w THEN NoWork
                  ELSE IF SiteOf[x] = s /\ work[x] # NoWork /\ stored'[s] # stored[s]
                  THEN [work[x] EXCEPT !.fresh = FALSE]
                  ELSE work[x]]
    /\ UNCHANGED <<kind, clock, history, stamps, late>>

\* A statement of the save fails, or the process dies: nothing is stored.
SaveFails(s, w) ==
    /\ work[w] # NoWork
    /\ work' = [work EXCEPT ![w] = NoWork]
    /\ UNCHANGED <<kind, stored, sent, clock, history, torn, stamps, late>>

WorkerStep(s, w) ==
    \/ \E up \in BOOLEAN : AddToCounter(s, w, up)
    \/ \E e \in Elements : AddElement(s, w, e) \/ RemoveElement(s, w, e)
    \/ \E e \in Elements, now \in 0..MaxClock : SetRegister(s, w, e, now)
    \/ \E remote \in sent : LoadAndMerge(s, w, remote)
    \/ SaveState(s, w)
    \/ SaveFails(s, w)

CrdtNext ==
    \/ \E w \in Workers : WorkerStep(SiteOf[w], w)
    \/ \E s \in Sites, stamp \in stamps, now \in 0..MaxClock :
          stamp.site # s /\ ClockHears(s, stamp, now)

CrdtSpec == CrdtInit /\ [][CrdtNext]_crdtVars

(***************************************************************************)
(* Properties                                                              *)
(***************************************************************************)
Ids == DOMAIN history

\* Counts are natural, tags were given out by their site, states name updates made.
CrdtTypeOK ==
    /\ \A s \in Sites : stored[s] \in sent
    /\ \A v \in sent :
          /\ v.ups \subseteq Ids
          /\ kind = "counter" => v.pos \in [Sites -> 0..MaxUpdates] /\ v.neg \in [Sites -> 0..MaxUpdates]
          /\ kind = "set" => \A t \in v.tags : t.n \in 1..v.counters[t.site]

\* Strong convergence: two states that include the same updates are the same, in
\* whatever order and however often they were merged, and whichever saves were
\* overwritten; registers may differ once one was set with a stamp given before or
\* not after the one it replaced, sets once an element was removed.
SameUpdatesSameState ==
    \A a \in sent, b \in sent :
        (a.ups = b.ups /\ ~late /\ \A i \in a.ups : history[i].what # "remove") => a = b

\* Without overlapping workers a counter is exact: a site's counts are the updates
\* of that site the state includes, however often states were merged.
CountersAreExact ==
    (kind = "counter" /\ ~torn) =>
        \A v \in sent, s \in Sites :
            /\ v.pos[s] = Cardinality({i \in v.ups : history[i].site = s /\ history[i].what = "up"})
            /\ v.neg[s] = Cardinality({i \in v.ups : history[i].site = s /\ history[i].what = "down"})

\* An element nobody removed is in every state that includes one of its adds.
AddedElementsStay ==
    kind = "set" =>
        \A v \in sent : \A i \in v.ups :
            (history[i].what = "add"
               /\ \A j \in Ids : ~(history[j].what = "remove" /\ history[j].element = history[i].element))
                => \E t \in v.tags : t.element = history[i].element

\* States that were sent converge and lose no update.
CrdtSafety == CrdtTypeOK /\ SameUpdatesSameState /\ CountersAreExact /\ AddedElementsStay
=============================================================================
