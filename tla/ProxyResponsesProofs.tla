------------------------ MODULE ProxyResponsesProofs ------------------------
(***************************************************************************)
(* RoutingSafety, ContinuityIsKept and FailoverRepeatsOnlyAfterReset are   *)
(* proved for any accounts, sessions, requests, lock pool and retry        *)
(* budget.  What they need beyond themselves: how the local variables of a *)
(* handler hang together at each place of its code (HandlerOK: which       *)
(* account it insists on, whether it holds a token, why it is where it     *)
(* is), that a continuity row waits for its request to be answered         *)
(* (RowsOfAnswered, OwnerOnRecord), that the rows of a key have a latest   *)
(* one (RanksBounded), and that the account a failover leaves stays spent  *)
(* until a window resets (FailedIsSpent).                                  *)
(*                                                                         *)
(* Every action but Remember and the passing of time changes one handler,  *)
(* writes only rows whose windows are no younger (Later) and adds no       *)
(* continuity row: HandlerStepKeeps and QuietStepKeeps treat such a step   *)
(* once, and the lemma of each action shows that it is one.                *)
(*                                                                         *)
(* TranslationSafety of the chat completions, for any tool calls and any   *)
(* bound on texts and messages: upstream, translator and client know the   *)
(* same calls, each once (CallsAgree), with the same arguments while the   *)
(* stream is regular (ArgumentsAgree); and a request that is not refused   *)
(* has an item for every message but the system's and for every call       *)
(* (Whole), added message by message (OneMore, TranslationWhole).          *)
(***************************************************************************)
EXTENDS ProxyResponses, ChatCompletions, FiniteSetTheorems, SequenceTheorems, WellFoundedInduction,
        NaturalsInduction, TLAPS

Reading == {"new", "affinity", "preferred", "continuity", "rewrite", "preferred2", "continuity2"}
Asking == {"recover", "select"}
Sent ==
    {"plan", "sending", "check401", "refreshing", "bridging", "restrip", "exhausted", "remember",
     "recover_failover", "select_failover"}

\* What the local variables of a handler say of each other.
HandlerOK(q) ==
    /\ q.pc \notin Sent => ~q.token /\ q.carries = NoId /\ q.phase = "first"
    /\ q.pc = "plan" => q.phase = "first"
    /\ q.pc \in Asking /\ q.prev # NoId /\ q.pref \in Accounts =>
         q.strict /\ q.known /\ q.want = q.pref
    /\ q.pc \in Sent /\ (q.prev # NoId \/ q.carries # NoId) /\ q.pref \in Accounts =>
         q.token /\ q.account = q.pref
    /\ q.pc \in Sent /\ q.token /\ q.phase \in {"first", "failover"} => InLockPool(q.account)
    /\ q.pc = "check401" => q.account # NoAccount /\ q.outcome \in {"unauthorized", "deactivated"}
    /\ q.pc = "refreshing" => q.account \in Accounts /\ q.outcome = "unauthorized"
    /\ q.pc = "bridging" => q.outcome = "not_found" /\ q.prev # NoId
    /\ q.pc = "exhausted" => q.account # NoAccount /\ ExhaustedStatus(q) \in Limited
    /\ q.pc = "remember" \/ q.phase = "failover" => q.token

Sound(q) == q \in Handlers /\ HandlerOK(q) /\ (q.token => q.account \in Accounts)

\* A quota window of the account has reset, or the primary one is used up.
Past(rw) == "past" \in {rw.primary_reset, rw.secondary_reset}
Spent(rw) == rw.primary = "full" \/ Past(rw)

StoresOK ==
    /\ row \in [Accounts -> AccountRows]
    /\ sticky \in [Keys -> AccountIds \union {NoAccount}]
    /\ continuity \in [Keys -> SUBSET ContinuityRows]
    /\ bridge \in [Keys -> Ids \union {NoId}]
    /\ owner \in [Ids -> AccountIds \union {NoAccount}]

HandlersOK == req \in [Requests -> Handlers] /\ \A r \in Requests : Sound(req[r])

\* A continuity row is there only once its request has been answered.
RowsOfAnswered ==
    \A k \in Keys : \A c \in continuity[k] : c.id \in Requests => req[c.id].pc = "done"

RanksBounded == \A k \in Keys : \E n \in Nat : \A c \in continuity[k] : c.at <= n

OwnerOnRecord == \A r \in Requests : req[r].pc = "remember" => owner[r] = req[r].account

FailedIsSpent == \A r \in Requests : req[r].failed \in Accounts => Spent(row[req[r].failed])

IInv ==
    /\ StoresOK /\ HandlersOK
    /\ ContinuityNamesOwner /\ RowsOfAnswered /\ RanksBounded /\ OwnerOnRecord
    /\ FailedIsSpent /\ FailoverRepeatsOnlyAfterReset

-----------------------------------------------------------------------------
(* Handlers *)

\* Before credentials are asked for, a handler may note anything it likes.
LEMMA ReadingSound ==
    ASSUME NEW q, q \in Handlers, q.pc \in Reading, ~q.token, q.carries = NoId, q.phase = "first"
    PROVE  Sound(q)
  BY DEF Sound, HandlerOK, Reading, Asking, Sent

\* A handler that is done has nothing left to say.
LEMMA DoneSound == Sound(Done) /\ Done.pc = "done" /\ Done.failed = NoAccount
<1>1. AnyKey \in Keys
  BY ProxyAssumption DEF AnyKey
<1>2. Done \in Handlers /\ Done.pc = "done" /\ Done.failed = NoAccount
      /\ Done.token = FALSE /\ Done.carries = NoId /\ Done.phase = "first"
  BY <1>1, ProxyAssumption DEF Done, Blank, Handlers, Places, Phases, Routes, Outcomes
<1> QED BY <1>2 DEF Sound, HandlerOK, Asking, Sent

\* guard_backend_codex_previous_response hands a strict request on whenever
\* the previous response has an owner on record.
LEMMA GuardedSound ==
    ASSUME NEW q, Sound(q), q.pc \in Reading, NEW conty \in AccountIds \union {NoAccount}
    PROVE  /\ Sound(Guarded(q, conty))
           /\ Guarded(q, conty).pc = "recover" /\ Guarded(q, conty).failed = q.failed
<1> DEFINE strip == /\ q.route = "codex" /\ q.prev # NoId /\ ~q.fco
                    /\ q.pref = NoAccount /\ conty = NoAccount /\ ~q.from_header
<1>1. PICK pv : pv = IF strip THEN NoId ELSE q.prev
  OBVIOUS
<1>2. PICK wt : wt = CASE q.pref # NoAccount -> q.pref
                       [] q.pref = NoAccount /\ conty # NoAccount -> conty
                       [] OTHER -> q.affinity
  OBVIOUS
<1>3. PICK st \in BOOLEAN : st = (pv # NoId /\ wt # NoAccount)
  OBVIOUS
<1>4. PICK kn \in BOOLEAN : kn = (st /\ wt \in Accounts)
  OBVIOUS
<1>5. PICK h : h = [q EXCEPT !.pc = "recover", !.prev = pv, !.want = wt, !.strict = st,
                             !.known = kn]
  OBVIOUS
<1>6. Guarded(q, conty) = h
  BY <1>1, <1>2, <1>3, <1>4, <1>5 DEF Guarded
<1>7. q \in Handlers
  BY DEF Sound
<1>8. pv \in Ids \union {NoId} /\ wt \in AccountIds \union {NoAccount}
  <2>1. /\ q.prev \in Ids \union {NoId} /\ q.pref \in AccountIds \union {NoAccount}
        /\ q.affinity \in AccountIds \union {NoAccount}
    BY <1>7 DEF Handlers
  <2>2. pv \in Ids \union {NoId}
    BY <1>1, <2>1
  <2>3. wt \in AccountIds \union {NoAccount}
    BY <1>2, <2>1
  <2> QED BY <2>2, <2>3
<1>9. q.pref \in Accounts => wt = q.pref /\ (pv # NoId => st /\ kn)
  BY <1>2, <1>3, <1>4, ProxyAssumption DEF AccountIds
<1>10. /\ h \in Handlers /\ h.pc = "recover" /\ h.prev = pv /\ h.want = wt /\ h.strict = st
       /\ h.known = kn /\ h.pref = q.pref /\ h.token = q.token /\ h.carries = q.carries
       /\ h.phase = q.phase /\ h.failed = q.failed
  <2>1. h \in Handlers
    <3>1. PICK g : g = [q EXCEPT !.pc = "recover", !.prev = pv]
      OBVIOUS
    <3>2. g \in Handlers
      BY <1>7, <1>8, <3>1 DEF Handlers, Places
    <3>3. h = [g EXCEPT !.want = wt, !.strict = st, !.known = kn]
      BY <1>5, <1>7, <3>1 DEF Handlers
    <3>4. PICK f : f = [g EXCEPT !.want = wt, !.strict = st]
      OBVIOUS
    <3>5. f \in Handlers
      BY <1>8, <3>2, <3>4 DEF Handlers
    <3>6. h = [f EXCEPT !.known = kn]
      BY <3>2, <3>3, <3>4 DEF Handlers
    <3> QED BY <3>5, <3>6 DEF Handlers
  <2>2. h.pc = "recover" /\ h.prev = pv /\ h.want = wt /\ h.strict = st /\ h.known = kn
    BY <1>5, <1>7 DEF Handlers
  <2>3. h.pref = q.pref /\ h.token = q.token /\ h.carries = q.carries
        /\ h.phase = q.phase /\ h.failed = q.failed
    BY <1>5, <1>7 DEF Handlers
  <2> QED BY <2>1, <2>2, <2>3
<1>11. ~q.token /\ q.carries = NoId /\ q.phase = "first"
  BY DEF Sound, HandlerOK, Reading, Sent
<1>12. HandlerOK(h)
  BY <1>9, <1>10, <1>11 DEF HandlerOK, Asking, Sent
<1> QED BY <1>6, <1>10, <1>11, <1>12 DEF Sound

\* Where a handler goes after an execution, case by case.
LEMMA OnwardCases ==
    ASSUME NEW q
    PROVE  \/ NotFound(q) /\ Onward(q) = [q EXCEPT !.pc = "bridging"]
           \/ NotFound(q) /\ Onward(q) = [q EXCEPT !.pc = "restrip"]
           \/ /\ q.account # NoAccount /\ ExhaustedStatus(q) # "none"
              /\ Onward(q) = [q EXCEPT !.pc = "exhausted"]
           \/ q.outcome = "ok" /\ Onward(q) = [q EXCEPT !.pc = "remember"]
           \/ Onward(q) = Done
  BY DEF Onward

\* The handler of an answered request keeps what it says of itself, whichever
\* way it goes on.
LEMMA OnwardSound ==
    ASSUME NEW q, Sound(q), q.pc \in Sent, q.outcome = "ok" => q.token
    PROVE  /\ Sound(Onward(q))
           /\ Onward(q).pc \in {"bridging", "restrip", "exhausted", "remember", "done"}
           /\ Onward(q).failed \in {q.failed, NoAccount}
           /\ Onward(q).pc = "remember" => q.outcome = "ok" /\ Onward(q).account = q.account
<1>1. ASSUME NEW pc \in {"bridging", "restrip", "exhausted", "remember"},
             Onward(q) = [q EXCEPT !.pc = pc],
             pc = "bridging" => q.outcome = "not_found" /\ q.prev # NoId,
             pc = "exhausted" => q.account # NoAccount /\ ExhaustedStatus(q) # "none",
             pc = "remember" => q.outcome = "ok"
      PROVE  /\ Sound(Onward(q))
             /\ Onward(q).pc \in {"bridging", "restrip", "exhausted", "remember", "done"}
             /\ Onward(q).failed \in {q.failed, NoAccount}
             /\ Onward(q).pc = "remember" => q.outcome = "ok" /\ Onward(q).account = q.account
  <2> DEFINE h == [q EXCEPT !.pc = pc]
  <2>1. q \in Handlers
    BY DEF Sound
  <2>2. /\ h \in Handlers /\ h.pc = pc /\ h.prev = q.prev /\ h.pref = q.pref /\ h.token = q.token
        /\ h.carries = q.carries /\ h.phase = q.phase /\ h.failed = q.failed
        /\ h.outcome = q.outcome /\ h.account = q.account
    BY <2>1 DEF Handlers, Places
  <2>3. ExhaustedStatus(h) = ExhaustedStatus(q)
    BY <2>2 DEF ExhaustedStatus
  <2>4. ExhaustedStatus(q) \in Limited \union {"none"}
    BY DEF ExhaustedStatus, Limited
  <2> HIDE DEF h
  <2>5. HandlerOK(h)
    BY <1>1, <2>2, <2>3, <2>4 DEF HandlerOK, Sound, Asking, Sent
  <2> QED BY <1>1, <2>2, <2>5 DEF Sound, h
<1>2. CASE Onward(q) = Done
  BY <1>2, DoneSound
<1> QED BY <1>1, <1>2, OnwardCases DEF NotFound

\* A 401 is looked at first; then the handler goes on as above.
LEMMA AfterExecutionSound ==
    ASSUME NEW q, Sound(q), q.pc = "sending", q.outcome = "ok" => q.token
    PROVE  /\ Sound(AfterExecution(q))
           /\ AfterExecution(q).pc # "sending"
           /\ AfterExecution(q).failed \in {q.failed, NoAccount}
           /\ AfterExecution(q).pc = "remember" =>
                q.outcome = "ok" /\ AfterExecution(q).account = q.account
<1>1. CASE AfterExecution(q) = Onward(q)
  <2>1. q.pc \in Sent
    BY DEF Sent
  <2> QED BY <1>1, <2>1, OnwardSound
<1>2. CASE AfterExecution(q) # Onward(q)
  <2> DEFINE h == [q EXCEPT !.pc = "check401"]
  <2>1. /\ AfterExecution(q) = h /\ q.account # NoAccount
        /\ q.outcome \in {"unauthorized", "deactivated"}
    BY <1>2 DEF AfterExecution
  <2>2. q \in Handlers
    BY DEF Sound
  <2>3. /\ h \in Handlers /\ h.pc = "check401" /\ h.prev = q.prev /\ h.pref = q.pref
        /\ h.token = q.token /\ h.carries = q.carries /\ h.phase = q.phase /\ h.failed = q.failed
        /\ h.outcome = q.outcome /\ h.account = q.account
    BY <2>2 DEF Handlers, Places
  <2> HIDE DEF h
  <2>4. HandlerOK(h)
    BY <2>1, <2>3 DEF HandlerOK, Sound, Asking, Sent
  <2> QED BY <2>1, <2>3, <2>4 DEF Sound
<1> QED BY <1>1, <1>2

-----------------------------------------------------------------------------
(* Stores *)

\* A nonempty set of natural numbers has a least element.
LEMMA LeastElement ==
    ASSUME NEW T, T \subseteq Nat, T # {}
    PROVE  \E x \in T : \A y \in T : x <= y
<1>1. IsWellFoundedOn(OpToRel(<,Nat), Nat)
  BY NatLessThanWellFounded
<1>2. PICK x \in T : \A y \in T : ~ (<<y, x>> \in OpToRel(<,Nat))
  BY <1>1, WFMin
<1>3. \A y \in T : ~ (y < x)
  BY <1>2 DEF OpToRel
<1> QED BY <1>3

\* find_proxy_response_continuity returns a row of the key, if there is one.
LEMMA LatestIsThere ==
    ASSUME StoresOK, RanksBounded, NEW k \in Keys
    PROVE  /\ continuity[k] # {} => Latest(k) \in continuity[k]
           /\ Latest(k).id \in Ids \union {NoId}
           /\ Latest(k).account \in AccountIds \union {NoAccount}
           /\ Latest(k).at \in Nat
           /\ \A c \in continuity[k] : c.at <= Latest(k).at
<1>1. CASE continuity[k] = {}
  BY <1>1 DEF Latest
<1>2. CASE continuity[k] # {}
  <2> DEFINE B == {n \in Nat : \A c \in continuity[k] : c.at <= n}
  <2>1. \A c \in continuity[k] : c \in ContinuityRows
    BY DEF StoresOK
  <2>2. \A c \in continuity[k] : c.at \in Nat /\ c.id \in Ids /\ c.account \in AccountIds
    BY <2>1 DEF ContinuityRows
  <2>3. B # {} /\ B \subseteq Nat
    BY DEF RanksBounded
  <2>4. PICK n \in B : \A m \in B : n <= m
    BY <2>3, LeastElement
  <2>5. \E c \in continuity[k] : c.at = n
    <3>1. SUFFICES ASSUME \A c \in continuity[k] : c.at # n
                   PROVE  FALSE
      OBVIOUS
    <3>2. \A c \in continuity[k] : c.at < n
      BY <2>2, <2>4, <3>1
    <3>3. n # 0
      BY <1>2, <2>2, <3>2
    <3>4. n - 1 \in B
      BY <2>2, <2>4, <3>2, <3>3
    <3> QED BY <2>4, <3>4
  <2>6. \E c \in continuity[k] : \A d \in continuity[k] : d.at <= c.at
    BY <2>4, <2>5
  <2>7. Latest(k) \in continuity[k] /\ \A d \in continuity[k] : d.at <= Latest(k).at
    BY <1>2, <2>6 DEF Latest
  <2> QED BY <2>2, <2>7
<1> QED BY <1>1, <1>2

\* Nothing the handlers write to a row makes a reset that has passed unpassed,
\* or frees a window that is used up and has not reset.
Later(x, y) == (Past(x) => Past(y)) /\ (Spent(x) => Spent(y))

\* Every UPDATE of the accounts table leaves a well-formed row that is Later.
LEMMA RowUpdates ==
    ASSUME NEW x \in AccountRows
    PROVE  /\ Later(x, x)
           /\ RecoverExpired(x) \in AccountRows /\ Later(x, RecoverExpired(x))
           /\ UpdateTokens(x) \in AccountRows /\ Later(x, UpdateTokens(x))
           /\ MarkUnusable(x) \in AccountRows /\ Later(x, MarkUnusable(x))
           /\ \A s \in Limited : /\ MarkExhausted(x, s) \in AccountRows /\ Later(x, MarkExhausted(x, s))
                                 /\ Spent(MarkExhausted(x, s))
           /\ Usable(x) /\ Spent(x) => Past(x)
<1> USE DEF Later, Past, Spent
<1>1. RecoverExpired(x) \in AccountRows /\ Later(x, RecoverExpired(x))
  <2>1. CASE ~LimitExpired(x)
    BY <2>1 DEF RecoverExpired
  <2>2. CASE LimitExpired(x)
    <3>1. PICK p \in Percents, s \in Percents :
            /\ RecoverExpired(x) = [x EXCEPT !.status = "active", !.primary = p, !.secondary = s]
            /\ p # x.primary => Past(x)
      <4> DEFINE p == IF \/ x.primary_reset = "past"
                         \/ x.status = "quota_blocked" /\ x.secondary_reset = "past"
                      THEN "null" ELSE x.primary
                 s == IF \/ x.secondary_reset = "past"
                         \/ /\ x.status = "quota_blocked"
                            /\ x.secondary_reset = "none" /\ x.primary_reset = "past"
                      THEN "null" ELSE x.secondary
      <4>1. p \in Percents /\ s \in Percents
        BY DEF AccountRows, Percents
      <4>2. RecoverExpired(x) = [x EXCEPT !.status = "active", !.primary = p, !.secondary = s]
        BY <2>2 DEF RecoverExpired
      <4>3. p # x.primary => Past(x)
        OBVIOUS
      <4> QED BY <4>1, <4>2, <4>3
    <3>2. PICK y : y = [x EXCEPT !.status = "active", !.primary = p, !.secondary = s]
      OBVIOUS
    <3>3. y.primary = p /\ y.primary_reset = x.primary_reset /\ y.secondary_reset = x.secondary_reset
      BY <3>2 DEF AccountRows
    <3>4. y \in AccountRows
      <4>1. PICK z : z = [x EXCEPT !.status = "active", !.primary = p]
        OBVIOUS
      <4>2. z \in AccountRows
        BY <4>1 DEF AccountRows, Statuses
      <4>3. y = [z EXCEPT !.secondary = s]
        BY <3>2, <4>1 DEF AccountRows
      <4> QED BY <4>2, <4>3 DEF AccountRows
    <3> QED BY <3>1, <3>2, <3>3, <3>4
  <2> QED BY <2>1, <2>2
<1>2. UpdateTokens(x) \in AccountRows /\ Later(x, UpdateTokens(x))
  BY DEF UpdateTokens, AccountRows, Statuses
<1>3. MarkUnusable(x) \in AccountRows /\ Later(x, MarkUnusable(x))
  BY DEF MarkUnusable, AccountRows, Statuses, HardBlocked
<1>4. ASSUME NEW s \in Limited
      PROVE  /\ MarkExhausted(x, s) \in AccountRows /\ Later(x, MarkExhausted(x, s))
             /\ Spent(MarkExhausted(x, s))
  <2>1. PICK t \in Statuses : t = IF x.status \in HardBlocked THEN x.status ELSE s
    BY DEF AccountRows, Statuses
  <2>2. PICK u \in Percents : u = IF s = "quota_blocked" THEN "full" ELSE x.secondary
    BY DEF AccountRows, Percents
  <2>3. PICK y : y = [x EXCEPT !.status = t, !.primary = "full", !.secondary = u, !.pinned = FALSE]
    OBVIOUS
  <2>4. MarkExhausted(x, s) = y
    BY <2>1, <2>2, <2>3 DEF MarkExhausted
  <2>5. y.primary = "full" /\ y.primary_reset = x.primary_reset
        /\ y.secondary_reset = x.secondary_reset
    BY <2>3 DEF AccountRows
  <2>6. y \in AccountRows
    <3>1. PICK z : z = [x EXCEPT !.status = t, !.primary = "full"]
      OBVIOUS
    <3>2. z \in AccountRows
      BY <3>1 DEF AccountRows, Percents
    <3>3. y = [z EXCEPT !.secondary = u, !.pinned = FALSE]
      BY <2>3, <3>1 DEF AccountRows
    <3> QED BY <3>2, <3>3 DEF AccountRows
  <2> QED BY <2>4, <2>5, <2>6
<1>5. Usable(x) /\ Spent(x) => Past(x)
  BY DEF Usable
<1> QED BY <1>1, <1>2, <1>3, <1>4, <1>5

\* A step of one handler that reaches a sound local state, writes only rows
\* that are Later and adds no continuity row keeps the invariant.
LEMMA HandlerStepKeeps ==
    ASSUME IInv, NEW r \in Requests, NEW h, Set(r, h), Sound(h), req[r].pc # "done",
           row' \in [Accounts -> AccountRows], \A a \in Accounts : Later(row[a], row'[a]),
           sticky' \in [Keys -> AccountIds \union {NoAccount}],
           bridge' \in [Keys -> Ids \union {NoId}],
           continuity' \in [Keys -> SUBSET ContinuityRows],
           \A k \in Keys : continuity'[k] \subseteq continuity[k],
           owner' \in [Ids -> AccountIds \union {NoAccount}],
           \A i \in Ids : i # r => owner'[i] = owner[i],
           h.pc = "remember" => owner'[r] = h.account,
           h.failed \in Accounts => Spent(row'[h.failed]),
           h.pc = "sending" /\ h.phase = "failover" /\ h.account = h.failed => Past(row'[h.account])
    PROVE  IInv'
<1> USE DEF IInv
<1>1. /\ req' = [req EXCEPT ![r] = h] /\ req \in [Requests -> Handlers]
      /\ \A s \in Requests : req'[s] = IF s = r THEN h ELSE req[s]
  BY DEF Set, HandlersOK
<1>2. StoresOK'
  BY DEF StoresOK
<1>3. HandlersOK'
  BY <1>1 DEF HandlersOK, Sound
<1>4. \A k \in Keys : \A c \in continuity[k] : c.id \in Ids
  BY DEF StoresOK, ContinuityRows
<1>5. ContinuityNamesOwner'
  BY <1>4 DEF ContinuityNamesOwner, RowsOfAnswered
<1>6. RowsOfAnswered'
  BY <1>1 DEF RowsOfAnswered
<1>7. RanksBounded'
  BY DEF RanksBounded
<1>8. OwnerOnRecord'
  BY <1>1 DEF OwnerOnRecord, Ids
<1>9. FailedIsSpent'
  BY <1>1 DEF FailedIsSpent, Later
<1>10. FailoverRepeatsOnlyAfterReset'
  <2>1. SUFFICES ASSUME NEW s \in Requests, req'[s].pc = "sending", req'[s].phase = "failover",
                        req'[s].account = req'[s].failed
                 PROVE  Past(row'[req'[s].account])
    BY DEF FailoverRepeatsOnlyAfterReset, Past
  <2>2. CASE s = r
    BY <1>1, <2>1, <2>2
  <2>3. CASE s # r
    <3>1. req'[s] = req[s] /\ Past(row[req[s].account])
      BY <1>1, <2>1, <2>3 DEF FailoverRepeatsOnlyAfterReset, Past
    <3>2. req[s].account \in Accounts
      <4>1. Sound(req[s])
        BY DEF HandlersOK
      <4> QED BY <2>1, <3>1, <4>1 DEF Sound, HandlerOK, Sent
    <3> QED BY <3>1, <3>2 DEF Later
  <2> QED BY <2>2, <2>3
<1> QED BY <1>2, <1>3, <1>5, <1>6, <1>7, <1>8, <1>9, <1>10

-----------------------------------------------------------------------------
(* Reading the request and asking for credentials *)

\* What a step of a handler leaves alone, and what it may assume of the rest.
Idle == UNCHANGED <<row, sticky, continuity, bridge, owner>>

\* A step that touches no store leaves rows and sessions as they must be.
LEMMA IdleStores ==
    ASSUME IInv, Idle
    PROVE  /\ row' \in [Accounts -> AccountRows] /\ \A a \in Accounts : Later(row[a], row'[a])
           /\ sticky' \in [Keys -> AccountIds \union {NoAccount}]
           /\ bridge' \in [Keys -> Ids \union {NoId}]
           /\ continuity' \in [Keys -> SUBSET ContinuityRows]
           /\ \A k \in Keys : continuity'[k] \subseteq continuity[k]
           /\ owner' \in [Ids -> AccountIds \union {NoAccount}]
           /\ \A i \in Ids : owner'[i] = owner[i]
  BY DEF IInv, Idle, StoresOK, Later

\* A handler that moves on without touching a store or the account it leaves.
LEMMA QuietStepKeeps ==
    ASSUME IInv, NEW r \in Requests, NEW h, Set(r, h), Sound(h), req[r].pc # "done", Idle,
           h.pc \notin {"remember", "sending"} \/ (h.pc = "sending" /\ h.phase # "failover"),
           h.failed \in {req[r].failed, NoAccount}
    PROVE  IInv'
<1>1. h.failed \in Accounts => Spent(row'[h.failed])
  BY ProxyAssumption DEF IInv, FailedIsSpent, Idle, AccountIds
<1> QED BY <1>1, IdleStores, HandlerStepKeeps

\* The handler r, and what is known of it.
LEMMA HandlerOf ==
    ASSUME IInv, NEW r \in Requests
    PROVE  req[r] \in Handlers /\ Sound(req[r])
  BY DEF IInv, HandlersOK

\* The request is read, one store access at a time.
LEMMA ReceiveKeeps ==
    ASSUME IInv, NEW r \in Requests, NEW in \in Inputs, Receive(r, in)
    PROVE  IInv'
<1>1. AnyKey \in Keys /\ in \in ClientRequests
  BY ProxyAssumption DEF AnyKey
<1>2. PICK b : b = Blank("affinity")
  OBVIOUS
<1>3. /\ b \in Handlers /\ b.pc = "affinity" /\ b.token = FALSE /\ b.carries = NoId
      /\ b.phase = "first" /\ b.failed = NoAccount
  BY <1>1, <1>2, ProxyAssumption DEF Blank, Handlers, Places, Phases, Routes, Outcomes
<1>4. PICK fh \in BOOLEAN : fh = (in.header # NoAccount)
  OBVIOUS
<1>5. PICK g : g = [b EXCEPT !.route = in.route, !.key = in.key]
  OBVIOUS
<1>6. PICK f : f = [g EXCEPT !.prev = in.prev, !.fco = in.fco]
  OBVIOUS
<1>7. PICK h : h = [f EXCEPT !.affinity = in.header, !.from_header = fh]
  OBVIOUS
<1>8. /\ g \in Handlers /\ g.pc = "affinity" /\ g.token = FALSE /\ g.carries = NoId
      /\ g.phase = "first" /\ g.failed = NoAccount
  BY <1>1, <1>3, <1>5, ZenonT(60) DEF Handlers, ClientRequests
<1>9. /\ f \in Handlers /\ f.pc = "affinity" /\ f.token = FALSE /\ f.carries = NoId
      /\ f.phase = "first" /\ f.failed = NoAccount
  BY <1>1, <1>8, <1>6, ZenonT(60) DEF Handlers, ClientRequests
<1>10. /\ h \in Handlers /\ h.pc = "affinity" /\ h.token = FALSE /\ h.carries = NoId
       /\ h.phase = "first" /\ h.failed = NoAccount
  BY <1>1, <1>9, <1>7, ZenonT(60) DEF Handlers, ClientRequests
<1>11. h = [b EXCEPT !.route = in.route, !.key = in.key, !.prev = in.prev, !.fco = in.fco,
                     !.affinity = in.header, !.from_header = fh]
  BY <1>3, <1>5, <1>6, <1>7 DEF Handlers
<1>12. Set(r, h) /\ req[r].pc # "done" /\ Idle
  BY <1>2, <1>4, <1>11 DEF Receive, At, Idle
<1>13. Sound(h)
  BY <1>10, ReadingSound DEF Reading
<1> QED BY <1>10, <1>12, <1>13, QuietStepKeeps

\* resolve_sticky_affinity reads the account of the session.
LEMMA ResolveAffinityKeeps ==
    ASSUME IInv, NEW r \in Requests, ResolveAffinity(r)
    PROVE  IInv'
<1>1. req[r] \in Handlers /\ Sound(req[r]) /\ req[r].pc = "affinity"
  BY HandlerOf DEF ResolveAffinity, At
<1>2. PICK x \in AccountIds \union {NoAccount} :
        x = IF req[r].from_header THEN req[r].affinity ELSE sticky[req[r].key]
  BY <1>1 DEF Handlers, IInv, StoresOK
<1>3. PICK h : h = [req[r] EXCEPT !.pc = "preferred", !.affinity = x]
  OBVIOUS
<1>4. Set(r, h) /\ Idle
  BY <1>2, <1>3 DEF ResolveAffinity, Idle
<1>5. /\ h \in Handlers /\ h.pc = "preferred" /\ h.token = req[r].token
      /\ h.carries = req[r].carries /\ h.phase = req[r].phase /\ h.failed = req[r].failed
  BY <1>1, <1>3 DEF Handlers, Places
<1>6. ~h.token /\ h.carries = NoId /\ h.phase = "first"
  BY <1>1, <1>5 DEF Sound, HandlerOK, Sent
<1>7. Sound(h)
  BY <1>5, <1>6, ReadingSound DEF Reading
<1> QED BY <1>1, <1>4, <1>5, <1>7, QuietStepKeeps

\* The account of the previous response is looked up.
LEMMA ResolvePreferredKeeps ==
    ASSUME IInv, NEW r \in Requests, ResolvePreferred(r)
    PROVE  IInv'
<1>1. req[r] \in Handlers /\ Sound(req[r]) /\ req[r].pc \in {"preferred", "preferred2"}
  BY HandlerOf DEF ResolvePreferred
<1>2. Latest(req[r].key).account \in AccountIds \union {NoAccount}
  BY <1>1, LatestIsThere DEF IInv, Handlers
<1>3. PICK x \in AccountIds \union {NoAccount} :
        x = IF req[r].prev # NoId /\ Latest(req[r].key).id = req[r].prev
            THEN Latest(req[r].key).account ELSE NoAccount
  BY <1>2
<1>4. PICK pc \in {"continuity", "continuity2"} :
        pc = IF req[r].pc = "preferred" THEN "continuity" ELSE "continuity2"
  OBVIOUS
<1>5. PICK h : h = [req[r] EXCEPT !.pc = pc, !.pref = x]
  OBVIOUS
<1>6. Set(r, h) /\ Idle
  BY <1>3, <1>4, <1>5 DEF ResolvePreferred, Idle
<1>7. /\ h \in Handlers /\ h.pc = pc /\ h.token = req[r].token
      /\ h.carries = req[r].carries /\ h.phase = req[r].phase /\ h.failed = req[r].failed
  BY <1>1, <1>5 DEF Handlers, Places
<1>8. ~h.token /\ h.carries = NoId /\ h.phase = "first"
  BY <1>1, <1>7 DEF Sound, HandlerOK, Sent
<1>9. Sound(h)
  BY <1>7, <1>8, ReadingSound DEF Reading
<1> QED BY <1>1, <1>6, <1>7, <1>9, QuietStepKeeps

\* The account of the session's continuity is looked up, and the request
\* guarded or rewritten.
LEMMA ResolveContinuityKeeps ==
    ASSUME IInv, NEW r \in Requests, ResolveContinuity(r)
    PROVE  IInv'
<1> DEFINE q == req[r]
<1>1. q \in Handlers /\ Sound(q) /\ q.pc \in {"continuity", "continuity2"} /\ Idle
  BY HandlerOf DEF ResolveContinuity, Idle
<1>2. Latest(q.key).account \in AccountIds \union {NoAccount}
  BY <1>1, LatestIsThere DEF IInv, Handlers
<1>3. PICK conty \in AccountIds \union {NoAccount} :
        conty = IF q.prev # NoId THEN Latest(q.key).account ELSE NoAccount
  BY <1>2
<1>4. CASE q.pc = "continuity" /\ q.route = "codex" /\ q.prev # NoId
  <2>1. PICK h : h = [q EXCEPT !.pc = "rewrite", !.want = conty]
    OBVIOUS
  <2>2. Set(r, h)
    BY <1>3, <1>4, <2>1 DEF ResolveContinuity
  <2>3. /\ h \in Handlers /\ h.pc = "rewrite" /\ h.token = q.token
        /\ h.carries = q.carries /\ h.phase = q.phase /\ h.failed = q.failed
    BY <1>1, <2>1 DEF Handlers, Places
  <2>4. ~h.token /\ h.carries = NoId /\ h.phase = "first"
    BY <1>1, <2>3 DEF Sound, HandlerOK, Sent
  <2>5. Sound(h)
    BY <2>3, <2>4, ReadingSound DEF Reading
  <2> QED BY <1>1, <2>2, <2>3, <2>5, QuietStepKeeps
<1>5. CASE ~(q.pc = "continuity" /\ q.route = "codex" /\ q.prev # NoId)
  <2>1. Set(r, Guarded(q, conty))
    BY <1>3, <1>5 DEF ResolveContinuity
  <2>2. q.pc \in Reading
    BY <1>1 DEF Reading
  <2> QED BY <1>1, <2>1, <2>2, GuardedSound, QuietStepKeeps
<1> QED BY <1>4, <1>5

\* The id the bridge has for a session is the id of a response, if any.
LEMMA BridgedTyped ==
    ASSUME IInv, NEW k \in Keys
    PROVE  BridgedId(k) \in Ids \union {NoId}
  BY LatestIsThere DEF IInv, BridgedId, StoresOK

\* The codex route rewrites the previous id to the bridge's.
LEMMA RewritePreviousKeeps ==
    ASSUME IInv, NEW r \in Requests, RewritePrevious(r)
    PROVE  IInv'
<1> DEFINE q == req[r]
<1>1. q \in Handlers /\ Sound(q) /\ q.pc = "rewrite"
  BY HandlerOf DEF RewritePrevious, At
<1>2. PICK id \in Ids \union {NoId} : id = BridgedId(q.key)
  BY <1>1, BridgedTyped DEF Handlers
<1>3. /\ row' \in [Accounts -> AccountRows] /\ \A a \in Accounts : Later(row[a], row'[a])
      /\ sticky' \in [Keys -> AccountIds \union {NoAccount}]
      /\ bridge' \in [Keys -> Ids \union {NoId}]
      /\ continuity' \in [Keys -> SUBSET ContinuityRows]
      /\ \A k \in Keys : continuity'[k] \subseteq continuity[k]
      /\ owner' \in [Ids -> AccountIds \union {NoAccount}]
      /\ \A i \in Ids : owner'[i] = owner[i]
  BY <1>1, <1>2 DEF RewritePrevious, IInv, StoresOK, Later, Handlers
<1>4. q.failed \in Accounts => Spent(row'[q.failed])
  BY DEF RewritePrevious, IInv, FailedIsSpent
<1>5. CASE id \in {NoId, q.prev}
  <2>1. Set(r, Guarded(q, q.want))
    BY <1>2, <1>5 DEF RewritePrevious
  <2>2. q.pc \in Reading /\ q.want \in AccountIds \union {NoAccount}
    BY <1>1 DEF Reading, Handlers
  <2>3. Sound(Guarded(q, q.want)) /\ Guarded(q, q.want).pc = "recover"
        /\ Guarded(q, q.want).failed = q.failed
    BY <1>1, <2>2, GuardedSound
  <2> QED BY <1>1, <1>3, <1>4, <2>1, <2>3, HandlerStepKeeps
<1>6. CASE id \notin {NoId, q.prev}
  <2>1. PICK h : h = [q EXCEPT !.pc = "preferred2", !.prev = id, !.want = NoAccount]
    OBVIOUS
  <2>2. Set(r, h)
    BY <1>2, <1>6, <2>1 DEF RewritePrevious
  <2>3. /\ h \in Handlers /\ h.pc = "preferred2" /\ h.token = q.token
        /\ h.carries = q.carries /\ h.phase = q.phase /\ h.failed = q.failed
    BY <1>1, <1>2, <2>1, ZenonT(60) DEF Handlers, Places
  <2>4. ~h.token /\ h.carries = NoId /\ h.phase = "first"
    BY <1>1, <2>3 DEF Sound, HandlerOK, Sent
  <2>5. Sound(h)
    BY <2>3, <2>4, ReadingSound DEF Reading
  <2> QED BY <1>1, <1>3, <1>4, <2>2, <2>3, <2>5, HandlerStepKeeps
<1> QED BY <1>5, <1>6

\* recover_expired_account_limit_blocks, for all rows at once.
LEMMA RecoverLimitsKeeps ==
    ASSUME IInv, NEW r \in Requests, RecoverLimits(r)
    PROVE  IInv'
<1> DEFINE q == req[r]
<1>1. q \in Handlers /\ Sound(q) /\ q.pc \in {"recover", "recover_failover"}
  BY HandlerOf DEF RecoverLimits
<1>2. PICK pc \in {"select", "select_failover"} :
        pc = IF q.pc = "recover" THEN "select" ELSE "select_failover"
  OBVIOUS
<1>3. PICK h : h = [q EXCEPT !.pc = pc]
  OBVIOUS
<1>4. Set(r, h) /\ UNCHANGED <<sticky, continuity, bridge, owner>>
  BY <1>2, <1>3 DEF RecoverLimits
<1>5. row' \in [Accounts -> AccountRows] /\ \A a \in Accounts : Later(row[a], row'[a])
  BY RowUpdates DEF RecoverLimits, IInv, StoresOK
<1>6. /\ h \in Handlers /\ h.pc = pc /\ h.prev = q.prev /\ h.pref = q.pref /\ h.token = q.token
      /\ h.carries = q.carries /\ h.phase = q.phase /\ h.failed = q.failed /\ h.want = q.want
      /\ h.strict = q.strict /\ h.known = q.known /\ h.account = q.account
  BY <1>1, <1>3 DEF Handlers, Places
<1>7. Sound(h)
  BY <1>1, <1>2, <1>6 DEF Sound, HandlerOK, Asking, Sent
<1>8. h.failed \in Accounts => Spent(row'[h.failed])
  BY <1>5, <1>6 DEF IInv, FailedIsSpent, Later
<1>9. /\ sticky' \in [Keys -> AccountIds \union {NoAccount}]
      /\ bridge' \in [Keys -> Ids \union {NoId}]
      /\ continuity' \in [Keys -> SUBSET ContinuityRows]
      /\ \A k \in Keys : continuity'[k] \subseteq continuity[k]
      /\ owner' \in [Ids -> AccountIds \union {NoAccount}]
      /\ \A i \in Ids : owner'[i] = owner[i]
  BY <1>4 DEF IInv, StoresOK
<1> QED BY <1>1, <1>4, <1>5, <1>6, <1>7, <1>8, <1>9, HandlerStepKeeps

\* Whatever the strategy picks can be routed to and is in the lock pool, and
\* it is the account asked for if the request insists.
LEMMA SelectableSafe ==
    ASSUME NEW want, NEW strict \in BOOLEAN, NEW a \in Selectable(want, strict)
    PROVE  a \in Accounts /\ Usable(row[a]) /\ InLockPool(a) /\ (strict => a = want)
<1>1. CASE strict = TRUE
  <2>1. a \in Preferred(want)
    BY <1>1 DEF Selectable
  <2> QED BY <2>1 DEF Preferred
<1>2. CASE strict = FALSE
  <2> DEFINE usable == {x \in Accounts : Usable(row[x])}
             pinned == IF lock_pool_active THEN {} ELSE {x \in usable : row[x].pinned}
  <2>1. a \in pinned \/ a \in Preferred(want) \/ a \in {x \in usable : InLockPool(x)}
    BY <1>2 DEF Selectable
  <2> QED BY <1>2, <2>1 DEF Preferred, InLockPool
<1> QED BY <1>1, <1>2

\* The account is chosen: the one on record for a continuation, or any that
\* can be routed to.
LEMMA SelectKeeps ==
    ASSUME IInv, NEW r \in Requests, Select(r)
    PROVE  IInv'
<1> DEFINE q == req[r]
<1>1. q \in Handlers /\ Sound(q) /\ q.pc = "select" /\ Idle
  BY HandlerOf DEF Select, At, Idle
<1>2. q.strict \in BOOLEAN /\ ~q.token /\ q.carries = NoId /\ q.phase = "first"
  BY <1>1 DEF Handlers, Sound, HandlerOK, Sent
<1>3. ASSUME NEW a \in Selectable(q.want, q.strict), Set(r, WithCredentials(q, a))
      PROVE  IInv'
  <2>1. a \in Accounts /\ InLockPool(a) /\ (q.strict => a = q.want)
    BY <1>2, <1>3, SelectableSafe
  <2>2. PICK h : h = WithCredentials(q, a)
    OBVIOUS
  <2>3. /\ h \in Handlers /\ h.pc = "plan" /\ h.prev = q.prev /\ h.pref = q.pref /\ h.token = TRUE
        /\ h.carries = q.carries /\ h.phase = q.phase /\ h.failed = q.failed /\ h.account = a
    BY <1>1, <2>1, <2>2 DEF WithCredentials, Handlers, Places, AccountIds
  <2>4. HandlerOK(h)
    BY <1>1, <1>2, <2>1, <2>3 DEF Sound, HandlerOK, Asking, Sent
  <2> QED BY <1>1, <1>3, <2>1, <2>2, <2>3, <2>4, QuietStepKeeps DEF Sound
<1>4. ASSUME Selectable(q.want, q.strict) = {}, q.strict, ~q.from_header, ~q.fco
      PROVE  IInv'
  <2>1. PICK h : h = [q EXCEPT !.pc = "recover", !.prev = NoId, !.want = NoAccount,
                               !.strict = FALSE]
    OBVIOUS
  <2>2. Set(r, h)
    BY <1>4, <2>1 DEF Select
  <2>3. /\ h.pc = "recover" /\ h.prev = NoId /\ h.pref = q.pref /\ h.token = q.token
        /\ h.carries = q.carries /\ h.phase = q.phase /\ h.failed = q.failed
    BY <1>1, <2>1 DEF Handlers
  <2>4. h \in Handlers
    <3>1. PICK g : g = [q EXCEPT !.pc = "recover", !.prev = NoId]
      OBVIOUS
    <3>2. g \in Handlers
      BY <1>1, <3>1 DEF Handlers, Places
    <3>3. h = [g EXCEPT !.want = NoAccount, !.strict = FALSE]
      BY <1>1, <2>1, <3>1 DEF Handlers
    <3> QED BY <3>2, <3>3 DEF Handlers
  <2>5. Sound(h)
    BY <1>2, <2>3, <2>4 DEF Sound, HandlerOK, Sent
  <2> QED BY <1>1, <2>2, <2>3, <2>5, QuietStepKeeps
<1>5. ASSUME Set(r, WithoutCredentials(q)), ~(q.strict /\ ~q.from_header /\ ~q.fco)
      PROVE  IInv'
  <2>1. CASE q.known
    <3>1. Set(r, Done)
      BY <1>5, <2>1 DEF WithoutCredentials
    <3> QED BY <1>1, <3>1, DoneSound, QuietStepKeeps
  <2>2. CASE ~q.known
    <3>1. PICK h : h = [q EXCEPT !.pc = "plan", !.account = q.affinity]
      OBVIOUS
    <3>2. Set(r, h)
      BY <1>5, <2>2, <3>1 DEF WithoutCredentials
    <3>3. /\ h \in Handlers /\ h.pc = "plan" /\ h.prev = q.prev /\ h.pref = q.pref
          /\ h.token = q.token /\ h.carries = q.carries /\ h.phase = q.phase /\ h.failed = q.failed
      BY <1>1, <3>1 DEF Handlers, Places
    <3>4. Sound(h)
      BY <1>1, <1>2, <2>2, <3>3 DEF Sound, HandlerOK, Asking, Sent
    <3> QED BY <1>1, <3>2, <3>3, <3>4, QuietStepKeeps
  <2> QED BY <2>1, <2>2
<1> QED BY <1>3, <1>4, <1>5 DEF Select

\* The request is sent, for the session it belongs to, or cannot be built.
LEMMA PlanKeeps ==
    ASSUME IInv, NEW r \in Requests, Plan(r) \/ PlanInvalid(r)
    PROVE  IInv'
<1> DEFINE q == req[r]
<1>1. q \in Handlers /\ Sound(q) /\ q.pc = "plan"
  BY HandlerOf DEF Plan, PlanInvalid, At
<1>2. CASE PlanInvalid(r)
  BY <1>1, <1>2, DoneSound, QuietStepKeeps DEF PlanInvalid, Finish, Idle
<1>3. CASE Plan(r)
  <2>1. PICK h : h = [q EXCEPT !.pc = "sending", !.carries = q.prev]
    OBVIOUS
  <2>2. Set(r, h) /\ UNCHANGED <<row, continuity, bridge, owner>>
    BY <1>3, <2>1 DEF Plan
  <2>3. /\ h \in Handlers /\ h.pc = "sending" /\ h.prev = q.prev /\ h.pref = q.pref
        /\ h.token = q.token /\ h.carries = q.prev /\ h.phase = q.phase /\ h.failed = q.failed
        /\ h.account = q.account
    BY <1>1, <2>1 DEF Handlers, Places
  <2>4. Sound(h)
    BY <1>1, <2>3 DEF Sound, HandlerOK, Asking, Sent
  <2>5. sticky' \in [Keys -> AccountIds \union {NoAccount}]
    BY <1>1, <1>3 DEF Plan, IInv, StoresOK, Handlers
  <2>6. /\ row' \in [Accounts -> AccountRows] /\ \A a \in Accounts : Later(row[a], row'[a])
        /\ bridge' \in [Keys -> Ids \union {NoId}]
        /\ continuity' \in [Keys -> SUBSET ContinuityRows]
        /\ \A k \in Keys : continuity'[k] \subseteq continuity[k]
        /\ owner' \in [Ids -> AccountIds \union {NoAccount}]
        /\ \A i \in Ids : owner'[i] = owner[i]
    BY <2>2 DEF IInv, StoresOK, Later
  <2>7. h.failed \in Accounts => Spent(row'[h.failed])
    BY <2>2, <2>3 DEF IInv, FailedIsSpent
  <2>8. h.phase = "failover" => FALSE
    BY <1>1, <2>3 DEF Sound, HandlerOK
  <2> QED BY <1>1, <2>2, <2>3, <2>4, <2>5, <2>6, <2>7, <2>8, HandlerStepKeeps
<1> QED BY <1>2, <1>3

-----------------------------------------------------------------------------
(* The upstream's answers *)

\* The upstream answers, and the handler retries or goes on; an answer that
\* will be remembered has its account on record.
LEMMA UpstreamKeeps ==
    ASSUME IInv, NEW r \in Requests, NEW o \in Outcomes, Upstream(r, o)
    PROVE  IInv'
<1> DEFINE q == req[r]
<1>1. /\ q \in Handlers /\ Sound(q) /\ q.pc = "sending" /\ o \in Answers(q)
      /\ UNCHANGED <<row, sticky, continuity, bridge>>
  BY HandlerOf DEF Upstream, At
<1>2. /\ row' \in [Accounts -> AccountRows] /\ \A a \in Accounts : Later(row[a], row'[a])
      /\ sticky' \in [Keys -> AccountIds \union {NoAccount}]
      /\ bridge' \in [Keys -> Ids \union {NoId}]
      /\ continuity' \in [Keys -> SUBSET ContinuityRows]
      /\ \A k \in Keys : continuity'[k] \subseteq continuity[k]
  BY <1>1 DEF IInv, StoresOK, Later
<1>3. q.failed \in Accounts => Spent(row'[q.failed])
  BY <1>1 DEF IInv, FailedIsSpent
<1>4. owner \in [Ids -> AccountIds \union {NoAccount}] /\ r \in Ids
      /\ q.account \in AccountIds \union {NoAccount}
  BY <1>1 DEF IInv, StoresOK, Ids, Handlers
<1>5. CASE RetryAllowed(q, o)
  <2>1. PICK n : n = (q.attempt + 1) % (kStreamRetryBudget + 1)
    OBVIOUS
  <2>2. n \in 0 .. kStreamRetryBudget
    <3>1. q.attempt \in Nat /\ q.attempt < kStreamRetryBudget
      BY <1>1, <1>5 DEF Handlers, RetryAllowed
    <3> QED BY <2>1, <3>1, ProxyAssumption
  <2>3. PICK h : h = [q EXCEPT !.attempt = n]
    OBVIOUS
  <2>4. Set(r, h) /\ UNCHANGED owner
    BY <1>5, <2>1, <2>3 DEF Upstream
  <2>5. /\ h \in Handlers /\ h.pc = "sending" /\ h.prev = q.prev /\ h.pref = q.pref
        /\ h.token = q.token /\ h.carries = q.carries /\ h.phase = q.phase /\ h.failed = q.failed
        /\ h.account = q.account
    BY <1>1, <2>2, <2>3 DEF Handlers
  <2>6. Sound(h)
    BY <1>1, <2>5 DEF Sound, HandlerOK, Asking, Sent
  <2>7. h.phase = "failover" /\ h.account = h.failed => Past(row'[h.account])
    BY <1>1, <2>5 DEF IInv, FailoverRepeatsOnlyAfterReset, Past
  <2> QED BY <1>1, <1>2, <1>3, <1>4, <2>4, <2>5, <2>6, <2>7, HandlerStepKeeps
<1>6. CASE ~RetryAllowed(q, o)
  <2>1. PICK g : g = [q EXCEPT !.outcome = o, !.attempt = 0]
    OBVIOUS
  <2>2. /\ Set(r, AfterExecution(g))
        /\ owner' = IF o = "ok" THEN [owner EXCEPT ![r] = q.account] ELSE owner
    BY <1>6, <2>1 DEF Upstream
  <2>3. /\ g \in Handlers /\ g.pc = "sending" /\ g.prev = q.prev /\ g.pref = q.pref
        /\ g.token = q.token /\ g.carries = q.carries /\ g.phase = q.phase /\ g.failed = q.failed
        /\ g.account = q.account /\ g.outcome = o
    <3>1. 0 \in 0 .. kStreamRetryBudget
      BY ProxyAssumption
    <3>2. g \in Handlers
      BY <1>1, <2>1, <3>1 DEF Handlers
    <3> QED BY <1>1, <2>1, <3>2 DEF Handlers
  <2>4. Sound(g)
    BY <1>1, <2>3 DEF Sound, HandlerOK, Asking, Sent
  <2>5. g.outcome = "ok" => g.token
    BY <1>1, <2>3 DEF Answers
  <2>6. PICK h : h = AfterExecution(g)
    OBVIOUS
  <2>7. /\ Sound(h) /\ h.pc # "sending" /\ h.failed \in {q.failed, NoAccount}
        /\ h.pc = "remember" => o = "ok" /\ h.account = q.account
    BY <2>3, <2>4, <2>5, <2>6, AfterExecutionSound
  <2>8. owner' \in [Ids -> AccountIds \union {NoAccount}]
        /\ \A i \in Ids : i # r => owner'[i] = owner[i]
    BY <1>4, <2>2
  <2>9. h.pc = "remember" => owner'[r] = h.account
    BY <1>4, <2>2, <2>7
  <2>10. h.failed \in Accounts => Spent(row'[h.failed])
    BY <1>3, <2>7, ProxyAssumption DEF AccountIds
  <2> QED BY <1>1, <1>2, <2>2, <2>6, <2>7, <2>8, <2>9, <2>10, HandlerStepKeeps
<1> QED BY <1>5, <1>6

\* Marking an account takes its sessions and rows away and makes no window
\* younger; an account marked exhausted is spent.
LEMMA MarkAccountStores ==
    ASSUME IInv, NEW a, NEW status \in Limited \union {"deactivated"}, MarkAccount(a, status)
    PROVE  /\ row' \in [Accounts -> AccountRows] /\ \A b \in Accounts : Later(row[b], row'[b])
           /\ sticky' \in [Keys -> AccountIds \union {NoAccount}]
           /\ continuity' \in [Keys -> SUBSET ContinuityRows]
           /\ \A k \in Keys : continuity'[k] \subseteq continuity[k]
           /\ status \in Limited /\ a \in Accounts => Spent(row'[a])
<1>1. \A b \in Accounts : row[b] \in AccountRows
  BY DEF IInv, StoresOK
<1>2. ASSUME NEW b \in Accounts
      PROVE  row'[b] \in AccountRows /\ Later(row[b], row'[b])
             /\ (b = a /\ status \in Limited => Spent(row'[b]))
  <2>1. CASE b # a
    BY <1>1, <2>1, RowUpdates DEF MarkAccount
  <2>2. CASE b = a /\ status = "deactivated"
    <3>1. row'[b] = MarkUnusable(row[b])
      BY <2>2 DEF MarkAccount
    <3> QED BY <1>1, <2>2, <3>1, RowUpdates DEF Limited
  <2>3. CASE b = a /\ status # "deactivated"
    <3>1. row'[b] = MarkExhausted(row[b], status) /\ status \in Limited
      BY <2>3 DEF MarkAccount
    <3> QED BY <1>1, <3>1, RowUpdates
  <2> QED BY <2>1, <2>2, <2>3
<1>3. row' \in [Accounts -> AccountRows]
  BY <1>2 DEF MarkAccount
<1>4. /\ sticky' \in [Keys -> AccountIds \union {NoAccount}]
      /\ continuity' \in [Keys -> SUBSET ContinuityRows]
      /\ \A k \in Keys : continuity'[k] \subseteq continuity[k]
  BY DEF MarkAccount, Purged, IInv, StoresOK
<1> QED BY <1>2, <1>3, <1>4

\* A 401 deactivates the account, or asks for a refreshed token.
LEMMA Check401Keeps ==
    ASSUME IInv, NEW r \in Requests, Check401(r)
    PROVE  IInv'
<1> DEFINE q == req[r]
<1>1. /\ q \in Handlers /\ Sound(q) /\ q.pc = "check401" /\ UNCHANGED <<bridge, owner>>
  BY HandlerOf DEF Check401, At
<1>2. q.pc \in Sent /\ q.outcome # "ok"
  BY <1>1 DEF Sent, Sound, HandlerOK
<1>3. /\ Sound(Onward(q)) /\ Onward(q).pc \notin {"remember", "sending"}
      /\ Onward(q).failed \in {q.failed, NoAccount}
  BY <1>1, <1>2, OnwardSound
<1>4. CASE q.outcome = "deactivated"
  <2>1. MarkAccount(q.account, "deactivated") /\ Set(r, Onward(q))
    BY <1>4 DEF Check401
  <2>2. /\ row' \in [Accounts -> AccountRows] /\ \A b \in Accounts : Later(row[b], row'[b])
        /\ sticky' \in [Keys -> AccountIds \union {NoAccount}]
        /\ continuity' \in [Keys -> SUBSET ContinuityRows]
        /\ \A k \in Keys : continuity'[k] \subseteq continuity[k]
    BY <2>1, MarkAccountStores
  <2>3. /\ bridge' \in [Keys -> Ids \union {NoId}]
        /\ owner' \in [Ids -> AccountIds \union {NoAccount}]
        /\ \A i \in Ids : owner'[i] = owner[i]
    BY <1>1 DEF IInv, StoresOK
  <2>4. Onward(q).failed \in Accounts => Spent(row'[Onward(q).failed])
    BY <1>3, <2>2, ProxyAssumption DEF AccountIds, IInv, FailedIsSpent, Later
  <2> QED BY <1>1, <1>3, <2>1, <2>2, <2>3, <2>4, HandlerStepKeeps
<1>5. CASE q.outcome # "deactivated"
  <2>1. Idle
    BY <1>1, <1>5 DEF Check401, Idle
  <2>2. CASE q.account \in Accounts /\ row[q.account].status = "active"
    <3>1. PICK h : h = [q EXCEPT !.pc = "refreshing"]
      OBVIOUS
    <3>2. Set(r, h)
      BY <1>5, <2>2, <3>1 DEF Check401
    <3>3. /\ h \in Handlers /\ h.pc = "refreshing" /\ h.prev = q.prev /\ h.pref = q.pref
          /\ h.token = q.token /\ h.carries = q.carries /\ h.phase = q.phase
          /\ h.failed = q.failed /\ h.account = q.account /\ h.outcome = q.outcome
      BY <1>1, <3>1 DEF Handlers, Places
    <3>4. Sound(h)
      BY <1>1, <1>5, <2>2, <3>3 DEF Sound, HandlerOK, Asking, Sent
    <3> QED BY <1>1, <2>1, <3>2, <3>3, <3>4, QuietStepKeeps
  <2>3. CASE ~(q.account \in Accounts /\ row[q.account].status = "active")
    <3>1. Set(r, Onward(q))
      BY <1>5, <2>3 DEF Check401
    <3> QED BY <1>1, <1>3, <2>1, <3>1, QuietStepKeeps
  <2> QED BY <2>2, <2>3
<1> QED BY <1>4, <1>5

\* The token is refreshed, or not.
LEMMA RefreshKeeps ==
    ASSUME IInv, NEW r \in Requests, TokenRefreshed(r) \/ TokenRefreshFailed(r)
    PROVE  IInv'
<1> DEFINE q == req[r]
<1>1. /\ q \in Handlers /\ Sound(q) /\ q.pc = "refreshing"
  BY HandlerOf DEF TokenRefreshed, TokenRefreshFailed, At
<1>2. q.pc \in Sent /\ q.outcome # "ok" /\ q.account \in Accounts
  BY <1>1 DEF Sent, Sound, HandlerOK
<1>3. /\ Sound(Onward(q)) /\ Onward(q).pc \notin {"remember", "sending"}
      /\ Onward(q).failed \in {q.failed, NoAccount}
  BY <1>1, <1>2, OnwardSound
<1>4. CASE TokenRefreshFailed(r)
  BY <1>1, <1>3, <1>4, QuietStepKeeps DEF TokenRefreshFailed, Idle
<1>5. CASE TokenRefreshed(r)
  <2>1. /\ row' = [row EXCEPT ![q.account] = UpdateTokens(row[q.account])]
        /\ UNCHANGED <<sticky, continuity, bridge, owner>>
    BY <1>5 DEF TokenRefreshed
  <2>2. row' \in [Accounts -> AccountRows] /\ \A b \in Accounts : Later(row[b], row'[b])
    BY <1>2, <2>1, RowUpdates DEF IInv, StoresOK
  <2>3. /\ sticky' \in [Keys -> AccountIds \union {NoAccount}]
        /\ bridge' \in [Keys -> Ids \union {NoId}]
        /\ continuity' \in [Keys -> SUBSET ContinuityRows]
        /\ \A k \in Keys : continuity'[k] \subseteq continuity[k]
        /\ owner' \in [Ids -> AccountIds \union {NoAccount}]
        /\ \A i \in Ids : owner'[i] = owner[i]
    BY <2>1 DEF IInv, StoresOK
  <2>4. \A a \in {q.failed, NoAccount} : a \in Accounts => Spent(row'[a])
    BY <2>2, ProxyAssumption DEF AccountIds, IInv, FailedIsSpent, Later
  <2>5. CASE Usable(UpdateTokens(row[q.account]))
    <3>1. PICK h : h = [q EXCEPT !.pc = "sending", !.phase = "refreshed", !.token = TRUE]
      OBVIOUS
    <3>2. Set(r, h)
      BY <1>5, <2>5, <3>1 DEF TokenRefreshed
    <3>3. /\ h \in Handlers /\ h.pc = "sending" /\ h.prev = q.prev /\ h.pref = q.pref
          /\ h.token = TRUE /\ h.carries = q.carries /\ h.phase = "refreshed"
          /\ h.failed = q.failed /\ h.account = q.account
      BY <1>1, <3>1 DEF Handlers, Places, Phases
    <3>4. Sound(h)
      BY <1>1, <1>2, <3>3 DEF Sound, HandlerOK, Asking, Sent
    <3> QED BY <1>1, <2>2, <2>3, <2>4, <3>2, <3>3, <3>4, HandlerStepKeeps
  <2>6. CASE ~Usable(UpdateTokens(row[q.account]))
    <3>1. Set(r, Onward(q))
      BY <1>5, <2>6 DEF TokenRefreshed
    <3> QED BY <1>1, <1>3, <2>2, <2>3, <2>4, <3>1, HandlerStepKeeps
  <2> QED BY <2>5, <2>6
<1> QED BY <1>4, <1>5

\* A continuation that was not found is retried with the bridge's id.
LEMMA RetryBridgedKeeps ==
    ASSUME IInv, NEW r \in Requests, RetryBridged(r)
    PROVE  IInv'
<1> DEFINE q == req[r]
<1>1. /\ q \in Handlers /\ Sound(q) /\ q.pc = "bridging"
      /\ UNCHANGED <<row, sticky, continuity, owner>>
  BY HandlerOf DEF RetryBridged, At
<1>2. PICK id \in Ids \union {NoId} : id = BridgedId(q.key)
  BY <1>1, BridgedTyped DEF Handlers
<1>3. /\ row' \in [Accounts -> AccountRows] /\ \A a \in Accounts : Later(row[a], row'[a])
      /\ sticky' \in [Keys -> AccountIds \union {NoAccount}]
      /\ bridge' \in [Keys -> Ids \union {NoId}]
      /\ continuity' \in [Keys -> SUBSET ContinuityRows]
      /\ \A k \in Keys : continuity'[k] \subseteq continuity[k]
      /\ owner' \in [Ids -> AccountIds \union {NoAccount}]
      /\ \A i \in Ids : owner'[i] = owner[i]
  BY <1>1, <1>2 DEF RetryBridged, IInv, StoresOK, Later, Handlers
<1>4. \A a \in {q.failed, NoAccount} : a \in Accounts => Spent(row'[a])
  BY <1>1, ProxyAssumption DEF AccountIds, IInv, FailedIsSpent
<1>5. q.prev # NoId
  BY <1>1 DEF Sound, HandlerOK
<1>6. CASE id \notin {NoId, q.prev}
  <2>1. PICK h : h = [q EXCEPT !.pc = "sending", !.phase = "bridged", !.carries = id]
    OBVIOUS
  <2>2. Set(r, h)
    BY <1>2, <1>6, <2>1 DEF RetryBridged
  <2>3. /\ h \in Handlers /\ h.pc = "sending" /\ h.prev = q.prev /\ h.pref = q.pref
        /\ h.token = q.token /\ h.carries = id /\ h.phase = "bridged"
        /\ h.failed = q.failed /\ h.account = q.account
    <3>1. PICK g : g = [q EXCEPT !.pc = "sending", !.phase = "bridged"]
      OBVIOUS
    <3>2. g \in Handlers
      BY <1>1, <3>1 DEF Handlers, Places, Phases
    <3>3. h = [g EXCEPT !.carries = id]
      BY <1>1, <2>1, <3>1 DEF Handlers
    <3>4. h \in Handlers
      BY <1>2, <3>2, <3>3 DEF Handlers
    <3> QED BY <1>1, <2>1, <3>4 DEF Handlers
  <2>4. Sound(h)
    BY <1>1, <1>5, <2>3 DEF Sound, HandlerOK, Asking, Sent
  <2> QED BY <1>1, <1>3, <1>4, <2>2, <2>3, <2>4, HandlerStepKeeps
<1>7. CASE id \in {NoId, q.prev}
  <2>1. PICK g : g = [q EXCEPT !.phase = "bridged"]
    OBVIOUS
  <2>2. Set(r, Onward(g))
    BY <1>2, <1>7, <2>1 DEF RetryBridged
  <2>3. /\ g \in Handlers /\ g.pc = "bridging" /\ g.prev = q.prev /\ g.pref = q.pref
        /\ g.token = q.token /\ g.carries = q.carries /\ g.phase = "bridged"
        /\ g.failed = q.failed /\ g.account = q.account /\ g.outcome = q.outcome
    BY <1>1, <2>1 DEF Handlers, Phases
  <2>4. Sound(g)
    BY <1>1, <2>3 DEF Sound, HandlerOK, Asking, Sent
  <2>5. g.pc \in Sent /\ g.outcome # "ok"
    BY <1>1, <2>3 DEF Sent, Sound, HandlerOK
  <2>6. /\ Sound(Onward(g)) /\ Onward(g).pc \notin {"remember", "sending"}
        /\ Onward(g).failed \in {q.failed, NoAccount}
    BY <2>3, <2>4, <2>5, OnwardSound
  <2> QED BY <1>1, <1>3, <1>4, <2>2, <2>6, HandlerStepKeeps
<1> QED BY <1>6, <1>7

\* A continuation that was not found is retried without its previous id.
LEMMA RetryStrippedKeeps ==
    ASSUME IInv, NEW r \in Requests, RetryStripped(r)
    PROVE  IInv'
<1> DEFINE q == req[r]
<1>1. q \in Handlers /\ Sound(q) /\ q.pc = "restrip" /\ Idle
  BY HandlerOf DEF RetryStripped, At, Idle
<1>2. PICK h : h = [q EXCEPT !.pc = "sending", !.phase = "stripped", !.prev = NoId,
                             !.carries = NoId]
  OBVIOUS
<1>3. Set(r, h)
  BY <1>2 DEF RetryStripped
<1>4. h \in Handlers
  <2>1. PICK g : g = [q EXCEPT !.pc = "sending", !.phase = "stripped"]
    OBVIOUS
  <2>2. g \in Handlers
    BY <1>1, <2>1 DEF Handlers, Places, Phases
  <2>3. h = [g EXCEPT !.prev = NoId, !.carries = NoId]
    BY <1>1, <1>2, <2>1 DEF Handlers
  <2> QED BY <2>2, <2>3 DEF Handlers
<1>5. /\ h.pc = "sending" /\ h.prev = NoId /\ h.token = q.token /\ h.carries = NoId
      /\ h.phase = "stripped" /\ h.failed = q.failed /\ h.account = q.account
  BY <1>1, <1>2 DEF Handlers
<1>6. Sound(h)
  BY <1>1, <1>4, <1>5 DEF Sound, HandlerOK, Asking, Sent
<1> QED BY <1>1, <1>3, <1>5, <1>6, QuietStepKeeps

-----------------------------------------------------------------------------
(* Exhaustion and failover *)

\* An exhausted account is marked, and the handler leaves it or gives up.
LEMMA CheckExhaustedKeeps ==
    ASSUME IInv, NEW r \in Requests, CheckExhausted(r)
    PROVE  IInv'
<1> DEFINE q == req[r]
<1>1. /\ q \in Handlers /\ Sound(q) /\ q.pc = "exhausted" /\ UNCHANGED <<bridge, owner>>
      /\ MarkAccount(q.account, ExhaustedStatus(q))
  BY HandlerOf DEF CheckExhausted, At
<1>2. ExhaustedStatus(q) \in Limited
  BY <1>1 DEF Sound, HandlerOK
<1>3. /\ row' \in [Accounts -> AccountRows] /\ \A b \in Accounts : Later(row[b], row'[b])
      /\ sticky' \in [Keys -> AccountIds \union {NoAccount}]
      /\ continuity' \in [Keys -> SUBSET ContinuityRows]
      /\ \A k \in Keys : continuity'[k] \subseteq continuity[k]
      /\ q.account \in Accounts => Spent(row'[q.account])
  BY <1>1, <1>2, MarkAccountStores
<1>4. /\ bridge' \in [Keys -> Ids \union {NoId}]
      /\ owner' \in [Ids -> AccountIds \union {NoAccount}]
      /\ \A i \in Ids : owner'[i] = owner[i]
  BY <1>1 DEF IInv, StoresOK
<1>5. PICK g : g = [q EXCEPT !.pc = "recover_failover", !.failed = q.account]
  OBVIOUS
<1>6. Set(r, g) \/ Set(r, Done)
  BY <1>5 DEF CheckExhausted
<1>7. CASE Set(r, g)
  <2>1. /\ g \in Handlers /\ g.pc = "recover_failover" /\ g.prev = q.prev /\ g.pref = q.pref
        /\ g.token = q.token /\ g.carries = q.carries /\ g.phase = q.phase
        /\ g.failed = q.account /\ g.account = q.account /\ g.outcome = q.outcome
    BY <1>1, <1>5 DEF Handlers, Places
  <2>2. Sound(g)
    BY <1>1, <2>1 DEF Sound, HandlerOK, Asking, Sent
  <2> QED BY <1>1, <1>3, <1>4, <1>7, <2>1, <2>2, HandlerStepKeeps
<1>8. CASE Set(r, Done)
  <2>1. Done.failed \notin Accounts /\ Done.pc \notin {"remember", "sending"} /\ Sound(Done)
    BY DoneSound, ProxyAssumption DEF AccountIds
  <2> QED BY <1>1, <1>3, <1>4, <1>8, <2>1, HandlerStepKeeps
<1> QED BY <1>6, <1>7, <1>8

\* A failover goes to an account that can be routed to: if that is the one it
\* leaves, which was spent, a window of it has reset.
LEMMA FailoverKeeps ==
    ASSUME IInv, NEW r \in Requests, Failover(r)
    PROVE  IInv'
<1> DEFINE q == req[r]
<1>1. /\ q \in Handlers /\ Sound(q) /\ q.pc = "select_failover"
      /\ UNCHANGED <<row, continuity, bridge, owner>>
  BY HandlerOf DEF Failover, At
<1>2. /\ row' \in [Accounts -> AccountRows] /\ \A a \in Accounts : Later(row[a], row'[a])
      /\ bridge' \in [Keys -> Ids \union {NoId}]
      /\ continuity' \in [Keys -> SUBSET ContinuityRows]
      /\ \A k \in Keys : continuity'[k] \subseteq continuity[k]
      /\ owner' \in [Ids -> AccountIds \union {NoAccount}]
      /\ \A i \in Ids : owner'[i] = owner[i]
  BY <1>1 DEF IInv, StoresOK, Later
<1>3. ASSUME NEW a \in Selectable(NoAccount, FALSE),
             Set(r, [q EXCEPT !.pc = "sending", !.phase = "failover", !.account = a,
                              !.token = TRUE, !.prev = NoId, !.carries = NoId]),
             sticky' = [sticky EXCEPT ![q.key] = a]
      PROVE  IInv'
  <2>1. a \in Accounts /\ Usable(row[a]) /\ InLockPool(a)
    BY <1>3, SelectableSafe
  <2>2. PICK g : g = [q EXCEPT !.pc = "sending", !.phase = "failover"]
    OBVIOUS
  <2>3. PICK f : f = [g EXCEPT !.account = a, !.token = TRUE]
    OBVIOUS
  <2>4. PICK h : h = [f EXCEPT !.prev = NoId, !.carries = NoId]
    OBVIOUS
  <2>5. /\ g \in Handlers /\ g.pc = "sending" /\ g.phase = "failover" /\ g.failed = q.failed
    BY <1>1, <2>2 DEF Handlers, Places, Phases
  <2>6. /\ f \in Handlers /\ f.pc = "sending" /\ f.phase = "failover" /\ f.failed = q.failed
        /\ f.account = a /\ f.token = TRUE
    BY <2>1, <2>3, <2>5 DEF Handlers, AccountIds
  <2>7. /\ h \in Handlers /\ h.pc = "sending" /\ h.phase = "failover" /\ h.failed = q.failed
        /\ h.account = a /\ h.token = TRUE /\ h.prev = NoId /\ h.carries = NoId
    BY <2>4, <2>6 DEF Handlers
  <2>8. Set(r, h)
    <3>1. h = [q EXCEPT !.pc = "sending", !.phase = "failover", !.account = a,
                        !.token = TRUE, !.prev = NoId, !.carries = NoId]
      BY <1>1, <2>2, <2>3, <2>4 DEF Handlers
    <3> QED BY <1>3, <3>1
  <2>9. Sound(h)
    BY <2>1, <2>7 DEF Sound, HandlerOK, Asking, Sent
  <2>10. q.failed \in Accounts => Spent(row'[q.failed])
    BY <1>1 DEF IInv, FailedIsSpent
  <2>11. a = q.failed => Past(row'[a])
    BY <1>1, <2>1, <2>10, RowUpdates DEF IInv, StoresOK
  <2>12. sticky' \in [Keys -> AccountIds \union {NoAccount}]
    BY <1>3, <2>1 DEF IInv, StoresOK, AccountIds
  <2> QED BY <1>1, <1>2, <2>7, <2>8, <2>9, <2>10, <2>11, <2>12, HandlerStepKeeps
<1>4. ASSUME Finish(r), UNCHANGED sticky
      PROVE  IInv'
  BY <1>1, <1>4, DoneSound, QuietStepKeeps DEF Finish, Idle
<1> QED BY <1>3, <1>4 DEF Failover

\* The response is put on record, for the account that produced it.
LEMMA RememberKeeps ==
    ASSUME IInv, NEW r \in Requests, Remember(r)
    PROVE  IInv'
<1> DEFINE q == req[r]
<1> USE DEF IInv
<1>1. /\ q \in Handlers /\ Sound(q) /\ q.pc = "remember" /\ UNCHANGED <<row, sticky, owner>>
      /\ Set(r, Done)
  BY HandlerOf DEF Remember, At, Finish
<1>2. q.key \in Keys /\ q.account \in Accounts /\ r \in Ids /\ owner[r] = q.account
  BY <1>1 DEF Sound, HandlerOK, Handlers, Ids, OwnerOnRecord
<1>3. PICK n \in Nat : n = Latest(q.key).at + 1
  BY <1>2, LatestIsThere
<1>4. PICK c : c = [id |-> r, account |-> q.account, at |-> n]
  OBVIOUS
<1>5. /\ bridge' = [bridge EXCEPT ![q.key] = r]
      /\ continuity' = [continuity EXCEPT ![q.key] = continuity[q.key] \union {c}]
  BY <1>3, <1>4 DEF Remember
<1>6. c \in ContinuityRows /\ c.id = r /\ c.account = q.account /\ c.at = n
  BY <1>2, <1>4 DEF ContinuityRows, AccountIds
<1>7. \A k \in Keys : continuity'[k] = IF k = q.key THEN continuity[k] \union {c} ELSE continuity[k]
  BY <1>5 DEF StoresOK
<1>8. StoresOK'
  <2>1. continuity' \in [Keys -> SUBSET ContinuityRows]
    BY <1>2, <1>5, <1>6 DEF StoresOK
  <2>2. bridge' \in [Keys -> Ids \union {NoId}]
    BY <1>2, <1>5 DEF StoresOK
  <2> QED BY <1>1, <2>1, <2>2 DEF StoresOK
<1>9. /\ req \in [Requests -> Handlers] /\ req' = [req EXCEPT ![r] = Done]
      /\ \A s \in Requests : req'[s] = IF s = r THEN Done ELSE req[s]
  BY <1>1 DEF Set, HandlersOK
<1>10. Sound(Done) /\ Done.pc = "done" /\ Done.failed \notin Accounts
  BY DoneSound, ProxyAssumption DEF AccountIds
<1>11. HandlersOK'
  BY <1>9, <1>10 DEF HandlersOK, Sound
<1>12. ContinuityNamesOwner'
  BY <1>1, <1>2, <1>6, <1>7 DEF ContinuityNamesOwner
<1>13. RowsOfAnswered'
  <2>1. SUFFICES ASSUME NEW k \in Keys, NEW d \in continuity'[k], d.id \in Requests
                 PROVE  req'[d.id].pc = "done"
    BY DEF RowsOfAnswered
  <2>2. CASE d \in continuity[k]
    <3>1. req[d.id].pc = "done"
      BY <2>1, <2>2 DEF RowsOfAnswered
    <3> QED BY <1>9, <1>10, <2>1, <3>1
  <2>3. CASE d = c
    BY <1>6, <1>9, <1>10, <2>3
  <2> QED BY <1>7, <2>1, <2>2, <2>3
<1>14. RanksBounded'
  <2>1. ASSUME NEW k \in Keys
        PROVE  \E m \in Nat : \A d \in continuity'[k] : d.at <= m
    <3>1. CASE k # q.key
      BY <1>7, <3>1 DEF RanksBounded
    <3>2. CASE k = q.key
      <4>1. \A d \in continuity[k] : d.at <= n /\ d.at \in Nat
        <5>1. \A d \in continuity[k] : d.at \in Nat
          BY DEF StoresOK, ContinuityRows
        <5>2. \A d \in continuity[k] : d.at <= Latest(k).at
          BY LatestIsThere
        <5>3. Latest(k).at \in Nat
          BY LatestIsThere
        <5>4. PICK m \in Nat : m = Latest(k).at /\ n = m + 1
          BY <1>3, <3>2, <5>3
        <5>5. \A d \in continuity[k] : d.at <= m
          BY <5>2, <5>4
        <5>6. n \in Nat /\ m \in Nat /\ n = m + 1
          BY <5>4
        <5>7. ASSUME NEW d \in continuity[k]
              PROVE  d.at <= n
          <6>1. PICK z \in Nat : z = d.at
            BY <5>1
          <6>2. z <= m
            BY <5>5, <6>1
          <6> QED BY <5>6, <6>1, <6>2
        <5> QED BY <5>1, <5>7
      <4>2. \A d \in continuity'[k] : d.at <= n
        <5>1. c.at <= n
          BY <1>6
        <5>2. \A d \in continuity'[k] : d \in continuity[k] \/ d = c
          BY <1>7
        <5> QED BY <4>1, <5>1, <5>2
      <4> QED BY <4>2
    <3> QED BY <3>1, <3>2
  <2> QED BY <2>1 DEF RanksBounded
<1>15. OwnerOnRecord' /\ FailedIsSpent'
  BY <1>1, <1>9, <1>10 DEF OwnerOnRecord, FailedIsSpent
<1>16. FailoverRepeatsOnlyAfterReset'
  BY <1>1, <1>9, <1>10 DEF FailoverRepeatsOnlyAfterReset
<1> QED BY <1>8, <1>11, <1>12, <1>13, <1>14, <1>15, <1>16

\* Time passes: windows reset, and what the stores hold expires.
LEMMA TimeKeeps ==
    ASSUME IInv, (\E a \in Accounts : ResetPasses(a)) \/ (\E k \in Keys : Expire(k))
    PROVE  IInv'
<1> USE DEF IInv
<1>1. req' = req /\ owner' = owner
  BY DEF ResetPasses, Expire
<1>2. row' \in [Accounts -> AccountRows] /\ \A b \in Accounts : Later(row[b], row'[b])
  <2>1. ASSUME NEW a \in Accounts, ResetPasses(a)
        PROVE  row' \in [Accounts -> AccountRows] /\ \A b \in Accounts : Later(row[b], row'[b])
    <3>1. row \in [Accounts -> AccountRows] /\ row[a] \in AccountRows
      BY DEF StoresOK
    <3>2. PICK y : row' = [row EXCEPT ![a] = y] /\ y \in AccountRows /\ Past(y)
      <4>1. \/ row' = [row EXCEPT ![a] = [row[a] EXCEPT !.primary_reset = "past"]]
            \/ row' = [row EXCEPT ![a] = [row[a] EXCEPT !.secondary_reset = "past"]]
        BY <2>1, <3>1 DEF ResetPasses
      <4>2. /\ [row[a] EXCEPT !.primary_reset = "past"] \in AccountRows
            /\ [row[a] EXCEPT !.secondary_reset = "past"] \in AccountRows
            /\ Past([row[a] EXCEPT !.primary_reset = "past"])
            /\ Past([row[a] EXCEPT !.secondary_reset = "past"])
        BY <3>1 DEF AccountRows, Resets, Past
      <4> QED BY <4>1, <4>2
    <3> QED BY <3>1, <3>2 DEF Later, Spent
  <2>2. CASE \E k \in Keys : Expire(k)
    BY <2>2 DEF Expire, StoresOK, Later
  <2> QED BY <2>1, <2>2
<1>3. /\ sticky' \in [Keys -> AccountIds \union {NoAccount}]
      /\ bridge' \in [Keys -> Ids \union {NoId}]
      /\ continuity' \in [Keys -> SUBSET ContinuityRows]
      /\ \A k \in Keys : continuity'[k] \subseteq continuity[k]
  BY DEF ResetPasses, Expire, StoresOK
<1>4. StoresOK' /\ HandlersOK'
  BY <1>1, <1>2, <1>3 DEF StoresOK, HandlersOK
<1>5. ContinuityNamesOwner' /\ RowsOfAnswered' /\ RanksBounded'
  BY <1>1, <1>3 DEF ContinuityNamesOwner, RowsOfAnswered, RanksBounded
<1>6. OwnerOnRecord' /\ FailedIsSpent'
  BY <1>1, <1>2 DEF OwnerOnRecord, FailedIsSpent, Later
<1>7. FailoverRepeatsOnlyAfterReset'
  <2>1. SUFFICES ASSUME NEW s \in Requests, req[s].pc = "sending", req[s].phase = "failover",
                        req[s].account = req[s].failed
                 PROVE  Past(row'[req[s].account])
    BY <1>1 DEF FailoverRepeatsOnlyAfterReset, Past
  <2>2. Past(row[req[s].account])
    BY <2>1 DEF FailoverRepeatsOnlyAfterReset, Past
  <2>3. req[s].account \in Accounts
    BY <2>1, HandlerOf DEF Sound, HandlerOK
  <2> QED BY <1>2, <2>2, <2>3 DEF Later
<1> QED BY <1>4, <1>5, <1>6, <1>7

-----------------------------------------------------------------------------
(* The theorems *)

\* No request yet, and at most one earlier response on record.
LEMMA InitHolds == Init => IInv
<1> SUFFICES ASSUME Init PROVE IInv
  OBVIOUS
<1>1. PICK k \in Keys, a \in AccountIds :
         /\ owner = [i \in Ids |-> IF i = Seed THEN a ELSE NoAccount]
         /\ continuity = [j \in Keys |->
                            IF j = k THEN {[id |-> Seed, account |-> a, at |-> 0]} ELSE {}]
         /\ sticky \in [Keys -> {NoAccount, a}]
         /\ bridge = [j \in Keys |-> NoId]
  BY DEF Init
<1>2. [id |-> Seed, account |-> a, at |-> 0] \in ContinuityRows
  BY DEF ContinuityRows, Ids
<1>3. StoresOK
  <2>1. row \in [Accounts -> AccountRows]
    BY ProxyAssumption DEF Init
  <2>2. sticky \in [Keys -> AccountIds \union {NoAccount}]
    BY <1>1
  <2>3. continuity \in [Keys -> SUBSET ContinuityRows]
    BY <1>1, <1>2
  <2>4. bridge \in [Keys -> Ids \union {NoId}]
    BY <1>1
  <2>5. owner \in [Ids -> AccountIds \union {NoAccount}]
    BY <1>1
  <2> QED BY <2>1, <2>2, <2>3, <2>4, <2>5 DEF StoresOK
<1>4. AnyKey \in Keys
  BY ProxyAssumption DEF AnyKey
<1>5. PICK b : b = Blank("new")
  OBVIOUS
<1>6. /\ b \in Handlers /\ b.pc = "new" /\ b.token = FALSE /\ b.carries = NoId
      /\ b.phase = "first" /\ b.failed = NoAccount
  BY <1>4, <1>5, ProxyAssumption DEF Blank, Handlers, Places, Phases, Routes, Outcomes
<1>7. Sound(b)
  BY <1>6, ReadingSound DEF Reading
<1>8. req = [r \in Requests |-> b]
  BY <1>5 DEF Init
<1>9. HandlersOK
  BY <1>6, <1>7, <1>8 DEF HandlersOK
<1>10. ContinuityNamesOwner /\ RowsOfAnswered /\ RanksBounded
  <2>1. \A j \in Keys : \A c \in continuity[j] : c.id = Seed /\ c.account = a /\ c.at = 0
    BY <1>1
  <2>2. owner[Seed] = a
    BY <1>1 DEF Ids
  <2>3. ContinuityNamesOwner
    BY <2>1, <2>2 DEF ContinuityNamesOwner
  <2>4. RowsOfAnswered
    BY <2>1, ProxyAssumption DEF RowsOfAnswered
  <2>5. RanksBounded
    <3>1. \A j \in Keys : \A c \in continuity[j] : c.at <= 0
      BY <2>1
    <3> QED BY <3>1 DEF RanksBounded
  <2> QED BY <2>3, <2>4, <2>5
<1>11. OwnerOnRecord /\ FailedIsSpent /\ FailoverRepeatsOnlyAfterReset
  BY <1>6, <1>8, ProxyAssumption
     DEF OwnerOnRecord, FailedIsSpent, FailoverRepeatsOnlyAfterReset, AccountIds
<1> QED BY <1>3, <1>9, <1>10, <1>11 DEF IInv

\* Every step of every handler, and of the clock, keeps the invariant.
LEMMA NextKeeps == IInv /\ [Next]_vars => IInv'
<1> SUFFICES ASSUME IInv, [Next]_vars PROVE IInv'
  OBVIOUS
<1>1. ASSUME NEW r \in Requests, NEW in \in Inputs, Receive(r, in)
      PROVE  IInv'
  BY <1>1, ReceiveKeeps
<1>2. ASSUME NEW r \in Requests, Step(r)
      PROVE  IInv'
  BY <1>2, ResolveAffinityKeeps, ResolvePreferredKeeps, ResolveContinuityKeeps,
     RewritePreviousKeeps, RecoverLimitsKeeps, SelectKeeps, PlanKeeps, UpstreamKeeps,
     Check401Keeps, RefreshKeeps, RetryBridgedKeeps, RetryStrippedKeeps, CheckExhaustedKeeps,
     FailoverKeeps, RememberKeeps DEF Step
<1>3. CASE (\E a \in Accounts : ResetPasses(a)) \/ (\E k \in Keys : Expire(k))
  BY <1>3, TimeKeeps
<1>4. CASE UNCHANGED vars
  BY <1>4 DEF vars, IInv, StoresOK, HandlersOK, ContinuityNamesOwner, RowsOfAnswered,
     RanksBounded, OwnerOnRecord, FailedIsSpent, FailoverRepeatsOnlyAfterReset
<1> QED BY <1>1, <1>2, <1>3, <1>4 DEF Next

\* The invariant says more than the properties of the runs.
LEMMA InvIsSafe == IInv => RoutingSafety /\ ContinuityIsKept /\ FailoverRepeatsOnlyAfterReset
<1> SUFFICES ASSUME IInv PROVE RoutingSafety /\ ContinuityIsKept
  BY DEF IInv
<1>1. TypeOK
  BY DEF IInv, StoresOK, HandlersOK, TypeOK, Sound
<1>2. OutsidePoolOnlyByRefresh
  <2>1. SUFFICES ASSUME NEW r \in Requests, req[r].pc = "sending", req[r].token,
                        ~InLockPool(req[r].account)
                 PROVE  req[r].phase \in {"refreshed", "bridged", "stripped"}
    BY DEF OutsidePoolOnlyByRefresh
  <2>2. req[r] \in Handlers /\ Sound(req[r])
    BY HandlerOf
  <2>3. req[r].phase \in Phases
    BY <2>2 DEF Handlers
  <2> QED BY <2>1, <2>2, <2>3 DEF Sound, HandlerOK, Sent, Phases
<1>3. KnownOwnerKeepsContinuation
  BY HandlerOf DEF KnownOwnerKeepsContinuation, Sound, HandlerOK, Sent
<1> QED BY <1>1, <1>2, <1>3 DEF IInv, RoutingSafety, ContinuityIsKept

\* For any accounts, sessions, requests and lock pool, any retry budget and
\* any interleaving of the handlers: their records are well formed, and only a
\* token refresh reaches an account outside the lock pool.
THEOREM RoutingIsSafe == Spec => []RoutingSafety
<1>1. Spec => []IInv
  BY InitHolds, NextKeeps, PTL DEF Spec
<1> QED BY <1>1, InvIsSafe, PTL

\* Every continuity row names the account that produced the response, and a
\* request that carries the id of a response is sent to that account only.
THEOREM ContinuityIsSafe == Spec => []ContinuityIsKept
<1>1. Spec => []IInv
  BY InitHolds, NextKeeps, PTL DEF Spec
<1> QED BY <1>1, InvIsSafe, PTL

\* A failover returns to the account it leaves only after one of its quota
\* windows has reset.
THEOREM FailoverIsSafe == Spec => []FailoverRepeatsOnlyAfterReset
<1>1. Spec => []IInv
  BY InitHolds, NextKeeps, PTL DEF Spec
<1> QED BY <1>1, InvIsSafe, PTL

-----------------------------------------------------------------------------
(* Chat completions: the stream *)

Endings == {"completed", "max_output_tokens", "content_filter", "failed", "cut"}

ToolCalls == [id : CallIds, args : Nat]
CallSeqs == Seq(ToolCalls)

Finishes == {"tool_calls", "length", "content_filter", "stop", CNone}

Outputs == [text : 0..MaxPieces, calls : CallSeqs, ending : Endings \cup {CNone}]
ToolStates == [index : Seq(CallIds), states : CallSeqs]
Clients == [roles : 0..1, text : 0..MaxPieces, calls : CallSeqs,
            finish : Finishes, error : BOOLEAN, usage : 0..1, done : 0..1]

\* Both name the same calls in the same order.
SameIds(a, b) == Len(a) = Len(b) /\ \A i \in 1..Len(a) : a[i].id = b[i].id

ChatTyped == said \in Outputs /\ tools \in ToolStates /\ client \in Clients /\ regular \in BOOLEAN

\* Upstream, translator and client know the same calls, each once.
CallsAgree ==
    /\ SameIds(said.calls, tools.states) /\ SameIds(said.calls, client.calls)
    /\ Len(tools.index) = Len(said.calls)
    /\ \A i \in 1..Len(said.calls) : tools.index[i] = said.calls[i].id
    /\ \A i, j \in 1..Len(said.calls) : said.calls[i].id = said.calls[j].id => i = j

\* While the stream is regular they know the same arguments.
ArgumentsAgree ==
    regular => \A i \in 1..Len(said.calls) :
                 said.calls[i].args = tools.states[i].args /\ said.calls[i].args = client.calls[i].args

ChatInv ==
    /\ ChatTyped /\ CallsAgree /\ ArgumentsAgree
    /\ client.text = said.text
    /\ StreamAgreesWithJson /\ RequestIsWhole

\* Of two calls' sequences, the one differs from the other in the i-th call.
Changed(old, new, i, args) ==
    /\ new \in CallSeqs /\ Len(new) = Len(old)
    /\ new[i].id = old[i].id /\ new[i].args = args
    /\ \A j \in 1..Len(old) : j # i => new[j] = old[j]

\* A call, a sequence with another i-th call, the translator and the client with
\* other calls.
ToolCall(c, n) == [id |-> c, args |-> n]
WithCall(q, i, x) == [q EXCEPT ![i] = x]
ToolsOf(index, q) == [index |-> index, states |-> q]
ClientWith(c, q) == [c EXCEPT !.roles = 1, !.calls = q]

\* The client with other calls.
LEMMA ClientGrows ==
    ASSUME NEW c \in Clients, NEW q \in CallSeqs
    PROVE  /\ ClientWith(c, q) \in Clients /\ ClientWith(c, q).text = c.text
           /\ ClientWith(c, q).done = c.done /\ ClientWith(c, q).calls = q
<1>0. PICK d : d = ClientWith(c, q)
  OBVIOUS
<1>1. c = [roles |-> c.roles, text |-> c.text, calls |-> c.calls, finish |-> c.finish,
           error |-> c.error, usage |-> c.usage, done |-> c.done]
  BY DEF Clients
<1>2. c.text \in 0..MaxPieces /\ c.finish \in Finishes /\ c.usage \in 0..1 /\ c.done \in 0..1
  BY DEF Clients
<1>3. c.error \in BOOLEAN
  BY ZenonT(20) DEF Clients
<1>4. d = [roles |-> 1, text |-> c.text, calls |-> q, finish |-> c.finish,
           error |-> c.error, usage |-> c.usage, done |-> c.done]
  BY <1>0, <1>1 DEF ClientWith
<1>5. 1 \in 0..1
  OBVIOUS
<1>6. d \in Clients
  BY <1>2, <1>3, <1>4, <1>5, ZenonT(20) DEF Clients
<1> QED BY <1>0, <1>4, <1>6

\* What a call is made of.
LEMMA CallFields ==
    /\ \A x \in ToolCalls : x.id \in CallIds /\ x.args \in Nat /\ x = [id |-> x.id, args |-> x.args]
    /\ \A c \in CallIds, n \in Nat : ToolCall(c, n) \in ToolCalls
    /\ \A c, n : ToolCall(c, n).id = c /\ ToolCall(c, n).args = n
BY DEF ToolCalls, ToolCall

\* What the translator keeps.
LEMMA ToolsFields ==
    ASSUME NEW index, NEW q
    PROVE  /\ ToolsOf(index, q).index = index /\ ToolsOf(index, q).states = q
           /\ index \in Seq(CallIds) /\ q \in CallSeqs => ToolsOf(index, q) \in ToolStates
BY DEF ToolsOf, ToolStates

\* Replacing one call of a sequence.
LEMMA CallReplaced ==
    ASSUME NEW q \in CallSeqs, NEW i \in 1..Len(q), NEW x \in ToolCalls, x.id = q[i].id
    PROVE  Changed(q, WithCall(q, i, x), i, x.args)
<1>1. q \in Seq(ToolCalls)
  BY DEF CallSeqs
<1>2. PICK p : p = WithCall(q, i, x)
  OBVIOUS
<1>3. p \in Seq(ToolCalls) /\ Len(p) = Len(q) /\ p[i] = x /\ \A j \in 1..Len(q) : j # i => p[j] = q[j]
  BY <1>1, <1>2 DEF WithCall
<1> QED BY <1>2, <1>3 DEF Changed, CallSeqs

\* Adding one at its end.
LEMMA CallAdded ==
    ASSUME NEW q \in CallSeqs, NEW n \in Nat, Len(q) = n, NEW x \in ToolCalls
    PROVE  /\ Append(q, x) \in CallSeqs /\ Len(Append(q, x)) = n + 1
           /\ Append(q, x)[n + 1] = x /\ \A j \in 1..n : Append(q, x)[j] = q[j]
BY DEF CallSeqs

\* A vector that is long enough is not padded.
LEMMA PaddedSame ==
    ASSUME NEW q \in CallSeqs, NEW i \in 1..Len(q)
    PROVE  Padded(q, i) = q
<1>1. PICK n \in Nat : n = Len(q) /\ DOMAIN q = 1..n /\ q = [j \in 1..n |-> q[j]]
  BY DEF CallSeqs
<1>2. Padded(q, i) = [j \in 1..n |-> IF j <= n THEN q[j] ELSE NoTool]
  BY <1>1 DEF Padded
<1>3. [j \in 1..n |-> IF j <= n THEN q[j] ELSE NoTool] = [j \in 1..n |-> q[j]]
  BY <1>1
<1> QED BY <1>1, <1>2, <1>3

\* Otherwise it gets one entry, which then is the new call.
LEMMA PaddedAdded ==
    ASSUME NEW q \in CallSeqs, NEW n \in Nat, Len(q) = n, NEW x \in ToolCalls
    PROVE  /\ Padded(q, n + 1)[n + 1] = NoTool
           /\ WithCall(Padded(q, n + 1), n + 1, x) = Append(q, x)
<1>0. PICK p : p = Padded(q, n + 1)
  OBVIOUS
<1>0a. p = [j \in 1..(n + 1) |-> IF j <= n THEN q[j] ELSE NoTool]
  BY <1>0 DEF Padded
<1>0b. p[n + 1] = NoTool /\ DOMAIN p = 1..(n + 1) /\ \A j \in 1..n : p[j] = q[j]
  BY <1>0a
<1>1. PICK a : a = Append(q, x)
  OBVIOUS
<1>2. a \in Seq(ToolCalls) /\ Len(a) = n + 1 /\ a[n + 1] = x /\ \A j \in 1..n : a[j] = q[j]
  BY <1>1, CallAdded DEF CallSeqs
<1>3. DOMAIN a = 1..(n + 1) /\ a = [j \in 1..(n + 1) |-> a[j]]
  BY <1>2
<1>4. PICK b : b = WithCall(p, n + 1, x)
  OBVIOUS
<1>4a. b = [j \in 1..(n + 1) |-> IF j = n + 1 THEN x ELSE p[j]]
  BY <1>0b, <1>4 DEF WithCall
<1>5. /\ DOMAIN b = 1..(n + 1) /\ b = [j \in 1..(n + 1) |-> b[j]]
      /\ b[n + 1] = x /\ \A j \in 1..n : b[j] = p[j]
  BY <1>4a
<1>6. \A j \in 1..(n + 1) : j = n + 1 \/ j \in 1..n
  OBVIOUS
<1>7. \A j \in 1..(n + 1) : a[j] = b[j]
  BY <1>0b, <1>2, <1>5, <1>6
<1>8. a = b
  BY <1>3, <1>5, <1>7
<1> QED BY <1>0, <1>0b, <1>1, <1>4, <1>8

\* Calls with the same ids and arguments are the same.
LEMMA SameCalls ==
    ASSUME NEW a \in CallSeqs, NEW b \in CallSeqs, SameIds(a, b),
           \A i \in 1..Len(a) : a[i].args = b[i].args
    PROVE  a = b
<1>1. \A i \in 1..Len(a) : a[i] = b[i]
  <2> SUFFICES ASSUME NEW i \in 1..Len(a) PROVE a[i] = b[i]
    OBVIOUS
  <2>1. a[i] \in ToolCalls /\ b[i] \in ToolCalls
    BY DEF CallSeqs, SameIds
  <2> QED BY <2>1, CallFields DEF SameIds
<1>2. a \in Seq(ToolCalls) /\ b \in Seq(ToolCalls) /\ Len(a) = Len(b)
  BY DEF CallSeqs, SameIds
<1> QED BY <1>1, <1>2

\* merge_tool_call_delta and the chunk, with the padded vectors, the kept and
\* the sent arguments and the two new entries named.
LEMMA ToolEventIs ==
    ASSUME NEW id, NEW mode, NEW length, NEW extends, ToolEvent(id, mode, length, extends),
           NEW i, i = IndexFor(tools.index, id), NEW st, st = Padded(tools.states, i),
           NEW cl, cl = Padded(client.calls, i), NEW kept, NEW sent,
           NormalizeArguments(st[i].args, mode, length, extends) = [kept |-> kept, sent |-> sent]
    PROVE  /\ tools' = ToolsOf(IF id # CNone /\ i > Len(tools.index) THEN Append(tools.index, id)
                               ELSE tools.index,
                               WithCall(st, i, ToolCall(IF id = CNone THEN st[i].id ELSE id, kept)))
           /\ client' = IF ~(id # CNone /\ st[i].id # id) /\ sent = 0 THEN client
                        ELSE ClientWith(client, WithCall(cl, i,
                               ToolCall(IF id # CNone /\ st[i].id # id THEN id ELSE cl[i].id,
                                        cl[i].args + sent)))
<1> DEFINE new == NormalizeArguments(st[i].args, mode, length, extends)
<1>0. new.kept = kept /\ new.sent = sent
  OBVIOUS
<1> HIDE DEF new
<1>1. tools' = [index |-> IF id # CNone /\ i > Len(tools.index) THEN Append(tools.index, id)
                          ELSE tools.index,
                states |-> [st EXCEPT ![i] = [id |-> IF id = CNone THEN st[i].id ELSE id,
                                              args |-> new.kept]]]
  BY DEF ToolEvent, new
<1>2. client' = IF ~(id # CNone /\ st[i].id # id) /\ new.sent = 0 THEN client
                ELSE [client EXCEPT !.roles = 1,
                                    !.calls = [cl EXCEPT ![i] =
                                       [id |-> IF id # CNone /\ st[i].id # id THEN id ELSE cl[i].id,
                                        args |-> cl[i].args + new.sent]]]
  BY DEF ToolEvent, new
<1> QED BY <1>0, <1>1, <1>2 DEF ToolsOf, WithCall, ToolCall, ClientWith

\* merge_tool_call_delta of an event about a call that is known: the kept
\* arguments are those of normalize_tool_call_arguments, and what it sends is
\* appended by the client.
LEMMA ToolEventKnown ==
    ASSUME ChatTyped, CallsAgree, NEW i \in 1..Len(said.calls),
           NEW id, NEW mode, NEW length, NEW extends, ToolEvent(id, mode, length, extends),
           id = said.calls[i].id \/ (id = CNone /\ i = 1),
           NEW kept \in Nat, NEW sent \in Nat,
           NormalizeArguments(tools.states[i].args, mode, length, extends) = [kept |-> kept, sent |-> sent]
    PROVE  /\ tools' \in ToolStates /\ tools'.index = tools.index
           /\ Changed(tools.states, tools'.states, i, kept)
           /\ client' \in Clients /\ client'.text = client.text /\ client'.done = client.done
           /\ Changed(client.calls, client'.calls, i, client.calls[i].args + sent)
<1>1. PICK n \in Nat : /\ n = Len(said.calls) /\ n = Len(tools.states) /\ n = Len(client.calls)
                       /\ n = Len(tools.index) /\ i \in 1..n
  BY DEF ChatTyped, CallsAgree, SameIds, Outputs, CallSeqs
<1>2. IndexFor(tools.index, id) = i
  <2>1. CASE id = CNone /\ i = 1
    BY <2>1 DEF IndexFor
  <2>2. CASE id = said.calls[i].id
    <3>1. id \in CallIds /\ id # CNone
      <4>1. said.calls \in Seq(ToolCalls)
        BY DEF ChatTyped, Outputs, CallSeqs
      <4>2. said.calls[i] \in ToolCalls
        BY <4>1
      <4> QED BY <2>2, <4>2, CallFields, ChatAssumption
    <3>2. \A j \in 1..n : tools.index[j] = id <=> j = i
      BY <1>1, <2>2 DEF CallsAgree
    <3> QED BY <1>1, <3>1, <3>2 DEF IndexFor
  <2> QED BY <2>1, <2>2
<1>3. tools.states \in CallSeqs /\ client.calls \in CallSeqs /\ tools.index \in Seq(CallIds)
  BY DEF ChatTyped, ToolStates, Clients
<1>4. Padded(tools.states, i) = tools.states /\ Padded(client.calls, i) = client.calls
  BY <1>1, <1>3, PaddedSame
<1>5. id # CNone => id = tools.states[i].id /\ id = client.calls[i].id
  BY <1>1 DEF CallsAgree, SameIds
<1>6. tools.states[i] \in ToolCalls /\ client.calls[i] \in ToolCalls
  <2>1. tools.states \in Seq(ToolCalls) /\ client.calls \in Seq(ToolCalls)
    BY <1>3 DEF CallSeqs
  <2>2. i \in 1..Len(tools.states) /\ i \in 1..Len(client.calls)
    BY <1>1
  <2> QED BY <2>1, <2>2, ElementOfSeq
<1> DEFINE x == ToolCall(tools.states[i].id, kept)
           y == ToolCall(client.calls[i].id, client.calls[i].args + sent)
           st == WithCall(tools.states, i, x)
           cl == WithCall(client.calls, i, y)
<1>7. /\ tools' = ToolsOf(tools.index, st)
      /\ client' = IF sent = 0 THEN client ELSE ClientWith(client, cl)
  <2>1. ~(id # CNone /\ tools.states[i].id # id) /\ ~(i > Len(tools.index))
    BY <1>1, <1>5
  <2>2. (IF id = CNone THEN tools.states[i].id ELSE id) = tools.states[i].id
    BY <1>5
  <2> QED BY <1>2, <1>4, <2>1, <2>2, ToolEventIs
<1>8. /\ x \in ToolCalls /\ x.id = tools.states[i].id /\ x.args = kept
      /\ y \in ToolCalls /\ y.id = client.calls[i].id /\ y.args = client.calls[i].args + sent
  <2>1. tools.states[i].id \in CallIds /\ client.calls[i].id \in CallIds /\ client.calls[i].args \in Nat
    BY <1>6 DEF ToolCalls
  <2>2. client.calls[i].args + sent \in Nat
    BY <2>1
  <2> QED BY <2>1, <2>2, CallFields
<1> HIDE DEF x, y
<1>9. Changed(tools.states, st, i, kept) /\ Changed(client.calls, cl, i, client.calls[i].args + sent)
  BY <1>1, <1>3, <1>8, CallReplaced
<1> HIDE DEF st, cl
<1>9b. st \in CallSeqs /\ cl \in CallSeqs
  BY <1>9 DEF Changed
<1>9c. tools' \in ToolStates /\ tools'.index = tools.index /\ tools'.states = st
  BY <1>3, <1>7, <1>9b, ToolsFields
<1>10. CASE sent = 0
  <2>1. client' = client
    BY <1>7, <1>10
  <2>2. client.calls[i].args + sent = client.calls[i].args
    BY <1>6, <1>10, CallFields
  <2>3. Changed(client.calls, client.calls, i, client.calls[i].args)
    BY <1>3 DEF Changed
  <2> QED BY <1>9, <1>9c, <2>1, <2>2, <2>3 DEF ChatTyped
<1>11. CASE sent # 0
  <2>1. client' = ClientWith(client, cl) /\ client \in Clients
    BY <1>7, <1>11 DEF ChatTyped
  <2>2. client' \in Clients /\ client'.text = client.text /\ client'.done = client.done /\ client'.calls = cl
    BY <1>9b, <2>1, ClientGrows
  <2> QED BY <1>9, <1>9c, <2>2
<1> QED BY <1>10, <1>11

\* response.output_item.added: a call nobody knew is the last one everywhere.
LEMMA CallOpenedKeeps ==
    ASSUME ChatInv, NEW id \in CallIds, CallOpened(id)
    PROVE  ChatTyped' /\ CallsAgree' /\ ArgumentsAgree' /\ client'.text = said'.text /\ client'.done = 0
<1>0. ChatTyped /\ CallsAgree /\ ArgumentsAgree /\ client.text = said.text
  BY DEF ChatInv
<1>1. PICK n \in Nat : /\ n = Len(said.calls) /\ n = Len(tools.states) /\ n = Len(client.calls)
                       /\ n = Len(tools.index)
  BY <1>0 DEF ChatTyped, CallsAgree, SameIds, Outputs, CallSeqs
<1>2. /\ tools.states \in CallSeqs /\ client.calls \in CallSeqs /\ tools.index \in Seq(CallIds)
      /\ said.calls \in CallSeqs
  BY <1>0 DEF ChatTyped, ToolStates, Clients, Outputs
<1>3. \A j \in 1..n : said.calls[j].id # id /\ tools.index[j] # id
  BY <1>0, <1>1 DEF CallOpened, CallsAgree
<1>4. id # CNone /\ IndexFor(tools.index, id) = n + 1
  BY <1>1, <1>3, ChatAssumption DEF IndexFor
<1> DEFINE new == ToolCall(id, 0)
           st == Padded(tools.states, n + 1)
           cl == Padded(client.calls, n + 1)
<1>5. new \in ToolCalls /\ new.id = id /\ new.args = 0
  BY CallFields
<1>6. /\ st[n + 1] = NoTool /\ WithCall(st, n + 1, new) = Append(tools.states, new)
      /\ cl[n + 1] = NoTool /\ WithCall(cl, n + 1, new) = Append(client.calls, new)
  <2> HIDE DEF new
  <2> QED BY <1>1, <1>2, <1>5, PaddedAdded
<1>7. said' = [said EXCEPT !.calls = Append(@, new)] /\ regular' = regular /\ client.done = 0
  BY DEF CallOpened, Streaming, ToolCall
<1>8. /\ tools' = ToolsOf(Append(tools.index, id), WithCall(st, n + 1, new))
      /\ client' = ClientWith(client, WithCall(cl, n + 1, new))
  <2>1. NoTool.args = 0 /\ NoTool.id = CNone
    BY DEF NoTool
  <2>2. st[n + 1].args = 0 /\ st[n + 1].id = CNone /\ cl[n + 1].args = 0 /\ cl[n + 1].id = CNone
    BY <1>6, <2>1
  <2>3. NormalizeArguments(st[n + 1].args, "snapshot", 0, TRUE) = [kept |-> 0, sent |-> 0]
    BY <2>2 DEF NormalizeArguments
  <2>4. id # CNone /\ st[n + 1].id # id /\ n + 1 > Len(tools.index) /\ cl[n + 1].args + 0 = 0
    BY <1>1, <1>4, <2>2
  <2>5. ToolEvent(id, "snapshot", 0, TRUE)
    BY DEF CallOpened
  <2> HIDE DEF st, cl
  <2>6. /\ tools' = ToolsOf(IF id # CNone /\ n + 1 > Len(tools.index) THEN Append(tools.index, id)
                            ELSE tools.index,
                            WithCall(st, n + 1, ToolCall(IF id = CNone THEN st[n + 1].id ELSE id, 0)))
        /\ client' = IF ~(id # CNone /\ st[n + 1].id # id) /\ 0 = 0 THEN client
                     ELSE ClientWith(client, WithCall(cl, n + 1,
                            ToolCall(IF id # CNone /\ st[n + 1].id # id THEN id ELSE cl[n + 1].id,
                                     cl[n + 1].args + 0)))
    <3>1. st = Padded(tools.states, n + 1) /\ cl = Padded(client.calls, n + 1)
      BY DEF st, cl
    <3>2. PICK i : i = n + 1
      OBVIOUS
    <3>3. PICK z : z = 0
      OBVIOUS
    <3>4. i = IndexFor(tools.index, id) /\ st = Padded(tools.states, i) /\ cl = Padded(client.calls, i)
      BY <1>4, <3>1, <3>2
    <3>5. NormalizeArguments(st[i].args, "snapshot", 0, TRUE) = [kept |-> z, sent |-> z]
      BY <2>3, <3>2, <3>3
    <3>6. /\ tools' = ToolsOf(IF id # CNone /\ i > Len(tools.index) THEN Append(tools.index, id)
                              ELSE tools.index,
                              WithCall(st, i, ToolCall(IF id = CNone THEN st[i].id ELSE id, z)))
          /\ client' = IF ~(id # CNone /\ st[i].id # id) /\ z = 0 THEN client
                       ELSE ClientWith(client, WithCall(cl, i,
                              ToolCall(IF id # CNone /\ st[i].id # id THEN id ELSE cl[i].id,
                                       cl[i].args + z)))
      <4>1. PICK extends : extends = TRUE
        OBVIOUS
      <4>2. PICK mode : mode = "snapshot"
        OBVIOUS
      <4>3. ToolEvent(id, mode, 0, extends)
        BY <2>5, <4>1, <4>2, Zenon
      <4>4. NormalizeArguments(st[i].args, mode, 0, extends) = [kept |-> z, sent |-> z]
        BY <3>5, <4>1, <4>2, Zenon
      <4> QED BY <3>4, <4>3, <4>4, ToolEventIs
    <3> QED BY <3>2, <3>3, <3>6
  <2> QED BY <2>4, <2>6
<1> HIDE DEF new, st, cl
<1>15. ASSUME NEW q \in CallSeqs, Len(q) = n
       PROVE  /\ Append(q, new) \in CallSeqs /\ Len(Append(q, new)) = n + 1
              /\ Append(q, new)[n + 1] = new /\ \A j \in 1..n : Append(q, new)[j] = q[j]
  BY <1>5, <1>15, CallAdded
<1>14. /\ Append(tools.states, new) \in CallSeqs /\ Append(client.calls, new) \in CallSeqs
       /\ Append(said.calls, new) \in CallSeqs /\ Append(tools.index, id) \in Seq(CallIds)
  <2>1. Append(tools.index, id) \in Seq(CallIds)
    BY <1>2
  <2> QED BY <1>1, <1>2, <1>15, <2>1
<1>16. /\ tools'.states = Append(tools.states, new) /\ tools'.index = Append(tools.index, id)
       /\ tools' \in ToolStates
       /\ client'.calls = Append(client.calls, new) /\ client' \in Clients
       /\ client'.text = client.text /\ client'.done = client.done
       /\ said'.calls = Append(said.calls, new) /\ said' \in Outputs /\ said'.text = said.text
  <2>1. /\ tools'.states = Append(tools.states, new) /\ tools'.index = Append(tools.index, id)
        /\ tools' \in ToolStates
    BY <1>6, <1>8, <1>14, ToolsFields
  <2>2. /\ client'.calls = Append(client.calls, new) /\ client' \in Clients
        /\ client'.text = client.text /\ client'.done = client.done
    BY <1>0, <1>6, <1>8, <1>14, ClientGrows DEF ChatTyped
  <2>3. said'.calls = Append(said.calls, new) /\ said' \in Outputs /\ said'.text = said.text
    BY <1>0, <1>7, <1>14 DEF ChatTyped, Outputs
  <2> QED BY <2>1, <2>2, <2>3
<1>17. ChatTyped' /\ client'.text = said'.text /\ client'.done = 0
  BY <1>0, <1>7, <1>16 DEF ChatTyped
<1>18. \A j \in 1..(n + 1) : j = n + 1 \/ j \in 1..n
  OBVIOUS
<1>21. /\ Len(said'.calls) = n + 1 /\ said'.calls[n + 1] = new
       /\ \A j \in 1..n : said'.calls[j] = said.calls[j]
  <2>1. PICK q \in CallSeqs : q = said.calls /\ Len(q) = n
    BY <1>1, <1>2
  <2>2. PICK p : p = Append(q, new)
    OBVIOUS
  <2>3. Len(p) = n + 1 /\ p[n + 1] = new /\ \A j \in 1..n : p[j] = q[j]
    BY <1>15, <2>1, <2>2
  <2>4. said'.calls = p
    BY <1>16, <2>1, <2>2
  <2> QED BY <2>1, <2>3, <2>4
<1>22. /\ Len(tools'.states) = n + 1 /\ tools'.states[n + 1] = new
       /\ \A j \in 1..n : tools'.states[j] = tools.states[j]
  <2>1. PICK q \in CallSeqs : q = tools.states /\ Len(q) = n
    BY <1>1, <1>2
  <2>2. PICK p : p = Append(q, new)
    OBVIOUS
  <2>3. Len(p) = n + 1 /\ p[n + 1] = new /\ \A j \in 1..n : p[j] = q[j]
    BY <1>15, <2>1, <2>2
  <2>4. tools'.states = p
    BY <1>16, <2>1, <2>2
  <2> QED BY <2>1, <2>3, <2>4
<1>23. /\ Len(client'.calls) = n + 1 /\ client'.calls[n + 1] = new
       /\ \A j \in 1..n : client'.calls[j] = client.calls[j]
  <2>1. PICK q \in CallSeqs : q = client.calls /\ Len(q) = n
    BY <1>1, <1>2
  <2>2. PICK p : p = Append(q, new)
    OBVIOUS
  <2>3. Len(p) = n + 1 /\ p[n + 1] = new /\ \A j \in 1..n : p[j] = q[j]
    BY <1>15, <2>1, <2>2
  <2>4. client'.calls = p
    BY <1>16, <2>1, <2>2
  <2> QED BY <2>1, <2>3, <2>4
<1>19. CallsAgree'
  <2>1. Len(tools'.index) = n + 1 /\ tools'.index[n + 1] = id /\ \A j \in 1..n : tools'.index[j] = tools.index[j]
    BY <1>1, <1>2, <1>16
  <2>2. /\ Len(said'.calls) = n + 1 /\ Len(tools'.states) = n + 1 /\ Len(client'.calls) = n + 1
        /\ said'.calls[n + 1] = new /\ tools'.states[n + 1] = new /\ client'.calls[n + 1] = new
        /\ \A j \in 1..n : /\ said'.calls[j] = said.calls[j] /\ tools'.states[j] = tools.states[j]
                           /\ client'.calls[j] = client.calls[j]
    BY <1>21, <1>22, <1>23
  <2>3. SameIds(said.calls, tools.states) /\ SameIds(said.calls, client.calls)
    BY <1>0 DEF CallsAgree
  <2>4. SameIds(said.calls, tools.states)' /\ SameIds(said.calls, client.calls)'
    <3>1. \A j \in 1..n : said.calls[j].id = tools.states[j].id /\ said.calls[j].id = client.calls[j].id
      BY <1>1, <2>3 DEF SameIds
    <3>2. ASSUME NEW j \in 1..(n + 1)
          PROVE  said'.calls[j].id = tools'.states[j].id /\ said'.calls[j].id = client'.calls[j].id
      <4>1. CASE j = n + 1
        BY <2>2, <4>1
      <4>2. CASE j \in 1..n
        BY <2>2, <3>1, <4>2
      <4> QED BY <1>18, <4>1, <4>2
    <3> QED BY <2>2, <3>2 DEF SameIds
  <2>5. \A j \in 1..(n + 1) : tools'.index[j] = said'.calls[j].id
    <3>1. \A j \in 1..n : tools.index[j] = said.calls[j].id
      BY <1>0, <1>1 DEF CallsAgree
    <3>2. ASSUME NEW j \in 1..(n + 1)
          PROVE  tools'.index[j] = said'.calls[j].id
      <4>1. CASE j = n + 1
        BY <1>5, <2>1, <2>2, <4>1
      <4>2. CASE j \in 1..n
        BY <2>1, <2>2, <3>1, <4>2
      <4> QED BY <1>18, <4>1, <4>2
    <3> QED BY <3>2
  <2>6. \A j, k \in 1..(n + 1) : said'.calls[j].id = said'.calls[k].id => j = k
    <3>1. /\ \A j \in 1..n : said'.calls[j].id = said.calls[j].id /\ said.calls[j].id # id
          /\ said'.calls[n + 1].id = id
      BY <1>3, <1>5, <2>2
    <3>2. \A j, k \in 1..n : said.calls[j].id = said.calls[k].id => j = k
      BY <1>0, <1>1 DEF CallsAgree
    <3> QED BY <1>18, <3>1, <3>2
  <2> QED BY <2>1, <2>2, <2>4, <2>5, <2>6 DEF CallsAgree
<1>20. ArgumentsAgree'
  <2>1. regular' = regular
    BY <1>7
  <2>2. ASSUME regular, NEW j \in 1..(n + 1)
        PROVE  /\ said'.calls[j].args = tools'.states[j].args
               /\ said'.calls[j].args = client'.calls[j].args
    <3>1. CASE j = n + 1
      BY <1>21, <1>22, <1>23, <3>1
    <3>2. CASE j \in 1..n
      <4>1. said.calls[j].args = tools.states[j].args /\ said.calls[j].args = client.calls[j].args
        BY <1>0, <1>1, <2>2, <3>2 DEF ArgumentsAgree
      <4> QED BY <1>21, <1>22, <1>23, <3>2, <4>1
    <3> QED BY <1>18, <3>1, <3>2
  <2> QED BY <1>21, <2>1, <2>2 DEF ArgumentsAgree
<1> QED BY <1>17, <1>19, <1>20

\* After an event about the e-th call that changed what was said of the i-th,
\* ids agree as before, and arguments do if both are the same call and changed
\* alike.
LEMMA ChangedAgree ==
    ASSUME CallsAgree, ArgumentsAgree, NEW n \in Nat, n = Len(said.calls), NEW i \in 1..n, NEW e \in 1..n,
           NEW a, NEW k, NEW c, Changed(said.calls, said'.calls, i, a), tools'.index = tools.index,
           Changed(tools.states, tools'.states, e, k), Changed(client.calls, client'.calls, e, c),
           regular' => regular /\ i = e /\ a = k /\ a = c
    PROVE  CallsAgree' /\ ArgumentsAgree'
<1>1. /\ n = Len(tools.states) /\ n = Len(client.calls) /\ n = Len(tools.index)
      /\ \A j \in 1..n : /\ said.calls[j].id = tools.states[j].id /\ said.calls[j].id = client.calls[j].id
                         /\ tools.index[j] = said.calls[j].id
      /\ \A j, l \in 1..n : said.calls[j].id = said.calls[l].id => j = l
  BY DEF CallsAgree, SameIds
<1>2. /\ Len(said'.calls) = n /\ Len(tools'.states) = n /\ Len(client'.calls) = n
      /\ \A j \in 1..n : /\ said'.calls[j].id = said.calls[j].id /\ tools'.states[j].id = tools.states[j].id
                         /\ client'.calls[j].id = client.calls[j].id
  BY <1>1 DEF Changed
<1>3. CallsAgree'
  BY <1>1, <1>2 DEF CallsAgree, SameIds
<1>4. ASSUME regular', NEW j \in 1..n
      PROVE  said'.calls[j].args = tools'.states[j].args /\ said'.calls[j].args = client'.calls[j].args
  <2>1. CASE j = i
    BY <1>1, <1>4, <2>1 DEF Changed
  <2>2. CASE j # i
    <3>1. said'.calls[j] = said.calls[j] /\ tools'.states[j] = tools.states[j] /\ client'.calls[j] = client.calls[j]
      BY <1>1, <1>4, <2>2 DEF Changed
    <3> QED BY <1>4, <3>1 DEF ArgumentsAgree
  <2> QED BY <2>1, <2>2
<1> QED BY <1>2, <1>3, <1>4 DEF ArgumentsAgree

\* What was said of the i-th call, with other arguments.
SaidWith(answer, i, n) == [answer EXCEPT !.calls[i].args = n]

\* It is an answer in which one call changed.
LEMMA SaidChanged ==
    ASSUME NEW answer \in Outputs, NEW i \in 1..Len(answer.calls), NEW n \in Nat
    PROVE  /\ SaidWith(answer, i, n) \in Outputs /\ SaidWith(answer, i, n).text = answer.text
           /\ Changed(answer.calls, SaidWith(answer, i, n).calls, i, n)
<1>0. PICK new : new = SaidWith(answer, i, n)
  OBVIOUS
<1>1. answer.calls \in CallSeqs /\ answer.calls \in Seq(ToolCalls)
  BY DEF Outputs, CallSeqs
<1>2. answer.calls[i] \in ToolCalls
  BY <1>1, ElementOfSeq
<1>3. PICK x : x = [answer.calls[i] EXCEPT !.args = n]
  OBVIOUS
<1>4. x \in ToolCalls /\ x.id = answer.calls[i].id /\ x.args = n
  BY <1>2, <1>3 DEF ToolCalls
<1>5. PICK q : q = WithCall(answer.calls, i, x)
  OBVIOUS
<1>6. Changed(answer.calls, q, i, n)
  BY <1>1, <1>4, <1>5, CallReplaced
<1>7. new = [answer EXCEPT !.calls = q]
  BY <1>0, <1>3, <1>5 DEF WithCall, SaidWith
<1>8. q \in CallSeqs
  BY <1>6 DEF Changed
<1>9. new \in Outputs /\ new.text = answer.text /\ new.calls = q
  BY <1>7, <1>8 DEF Outputs
<1> QED BY <1>0, <1>6, <1>9

\* What holds of the stream's part of the state while it goes on.
StreamKept == ChatTyped /\ CallsAgree /\ ArgumentsAgree /\ client.text = said.text /\ client.done = 0

\* response.function_call_arguments.delta, which may be taken for the first call's.
LEMMA ArgumentsPieceKeeps ==
    ASSUME ChatInv, NEW i \in 1..Len(said.calls), NEW labelled \in BOOLEAN, ArgumentsPiece(i, labelled)
    PROVE  StreamKept'
<1>0. ChatTyped /\ CallsAgree /\ ArgumentsAgree /\ client.text = said.text /\ client.done = 0
  BY DEF ChatInv, ArgumentsPiece, Streaming
<1>1. said \in Outputs /\ said.calls \in Seq(ToolCalls) /\ client.calls \in Seq(ToolCalls)
      /\ tools.states \in Seq(ToolCalls)
  BY <1>0 DEF ChatTyped, Outputs, CallSeqs, Clients, ToolStates
<1>2. PICK n \in Nat : /\ n = Len(said.calls) /\ n = Len(tools.states) /\ n = Len(client.calls)
                       /\ i \in 1..n
  BY <1>0, <1>1 DEF CallsAgree, SameIds
<1>3. PICK e \in 1..n : (labelled => e = i) /\ (~labelled => e = 1)
  BY <1>2
<1>4. PICK id : (labelled => id = said.calls[i].id) /\ (~labelled => id = CNone)
  OBVIOUS
<1>5. ToolEvent(id, "delta", 1, TRUE)
  BY <1>4 DEF ArgumentsPiece
<1>6. PICK k \in Nat, s \in Nat, c \in Nat :
        k = tools.states[e].args /\ s = said.calls[i].args /\ c = client.calls[e].args
  <2>1. tools.states[e] \in ToolCalls /\ said.calls[i] \in ToolCalls /\ client.calls[e] \in ToolCalls
    BY <1>1, <1>2, <1>3, ElementOfSeq
  <2> QED BY <2>1, CallFields
<1>7. NormalizeArguments(tools.states[e].args, "delta", 1, TRUE) = [kept |-> k + 1, sent |-> 1]
  BY <1>6 DEF NormalizeArguments
<1>8. /\ tools' \in ToolStates /\ tools'.index = tools.index
      /\ Changed(tools.states, tools'.states, e, k + 1)
      /\ client' \in Clients /\ client'.text = client.text /\ client'.done = client.done
      /\ Changed(client.calls, client'.calls, e, client.calls[e].args + 1)
  <2>1. id = said.calls[e].id \/ (id = CNone /\ e = 1)
    BY <1>3, <1>4
  <2>2. PICK extends : extends = TRUE
    OBVIOUS
  <2>3. PICK mode : mode = "delta"
    OBVIOUS
  <2>4. ToolEvent(id, mode, 1, extends)
    BY <1>5, <2>2, <2>3, Zenon
  <2>5. NormalizeArguments(tools.states[e].args, mode, 1, extends) = [kept |-> k + 1, sent |-> 1]
    BY <1>7, <2>2, <2>3, Zenon
  <2>6. k + 1 \in Nat /\ 1 \in Nat /\ e \in 1..Len(said.calls)
    BY <1>2
  <2> QED BY <1>0, <2>1, <2>4, <2>5, <2>6, ToolEventKnown
<1>9. said' \in Outputs /\ said'.text = said.text /\ Changed(said.calls, said'.calls, i, s + 1)
  <2>1. said' = SaidWith(said, i, s + 1) /\ s + 1 \in Nat
    BY <1>6 DEF ArgumentsPiece, SaidWith
  <2> QED BY <1>1, <2>1, SaidChanged
<1>10. regular' \in BOOLEAN
  BY <1>0 DEF ArgumentsPiece, ChatTyped
<1>11. regular' => regular /\ i = e /\ s + 1 = k + 1 /\ s + 1 = c + 1
  <2> SUFFICES ASSUME regular' PROVE regular /\ i = e /\ s + 1 = k + 1 /\ s + 1 = c + 1
    OBVIOUS
  <2>1. regular /\ (labelled \/ i = 1)
    BY DEF ArgumentsPiece
  <2>2. i = e
    BY <1>3, <2>1
  <2> QED BY <1>0, <1>2, <1>6, <2>1, <2>2 DEF ArgumentsAgree
<1>12. CallsAgree' /\ ArgumentsAgree'
  <2>1. Changed(client.calls, client'.calls, e, c + 1)
    BY <1>6, <1>8
  <2>2. PICK a : a = s + 1
    OBVIOUS
  <2>3. PICK b : b = k + 1
    OBVIOUS
  <2>4. PICK d : d = c + 1
    OBVIOUS
  <2>5. /\ Changed(said.calls, said'.calls, i, a) /\ Changed(tools.states, tools'.states, e, b)
        /\ Changed(client.calls, client'.calls, e, d) /\ tools'.index = tools.index
    BY <1>8, <1>9, <2>1, <2>2, <2>3, <2>4
  <2>6. regular' => regular /\ i = e /\ a = b /\ a = d
    BY <1>11, <2>2, <2>3, <2>4
  <2> QED BY <1>0, <1>2, <2>5, <2>6, ChangedAgree
<1>13. client'.text = said'.text /\ client'.done = 0
  BY <1>0, <1>8, <1>9
<1> QED BY <1>8, <1>9, <1>10, <1>12, <1>13 DEF StreamKept, ChatTyped

\* response.function_call_arguments.done and response.output_item.done.
LEMMA ArgumentsSnapshotKeeps ==
    ASSUME ChatInv, NEW i \in 1..Len(said.calls), NEW more \in 0..1, NEW revised \in BOOLEAN,
           ArgumentsSnapshot(i, more, revised)
    PROVE  StreamKept'
<1>0. ChatTyped /\ CallsAgree /\ ArgumentsAgree /\ client.text = said.text /\ client.done = 0
  BY DEF ChatInv, ArgumentsSnapshot, Streaming
<1>1. said \in Outputs /\ said.calls \in Seq(ToolCalls) /\ client.calls \in Seq(ToolCalls)
      /\ tools.states \in Seq(ToolCalls)
  BY <1>0 DEF ChatTyped, Outputs, CallSeqs, Clients, ToolStates
<1>2. PICK n \in Nat : /\ n = Len(said.calls) /\ n = Len(tools.states) /\ n = Len(client.calls)
                       /\ i \in 1..n
  BY <1>0, <1>1 DEF CallsAgree, SameIds
<1>3. PICK k \in Nat, s \in Nat, c \in Nat :
        k = tools.states[i].args /\ s = said.calls[i].args /\ c = client.calls[i].args
  <2>1. tools.states[i] \in ToolCalls /\ said.calls[i] \in ToolCalls /\ client.calls[i] \in ToolCalls
    BY <1>1, <1>2, ElementOfSeq
  <2> QED BY <2>1, CallFields
<1>4. PICK length \in Nat : length = s + more /\ length > 0
  BY <1>3, ChatAssumption DEF ArgumentsSnapshot
<1>5. ToolEvent(said.calls[i].id, "snapshot", length, ~revised)
  BY <1>3, <1>4 DEF ArgumentsSnapshot
<1>6. PICK sent \in Nat : sent = IF ~revised /\ length >= k THEN length - k ELSE 0
  BY <1>3, <1>4
<1>7. NormalizeArguments(k, "snapshot", length, ~revised) = [kept |-> length, sent |-> sent]
  <2>1. CASE ~revised /\ length >= k
    BY <1>4, <1>6, <2>1 DEF NormalizeArguments
  <2>2. CASE ~(~revised /\ length >= k)
    BY <1>4, <1>6, <2>2 DEF NormalizeArguments
  <2> QED BY <2>1, <2>2
<1>8. /\ tools' \in ToolStates /\ tools'.index = tools.index
      /\ Changed(tools.states, tools'.states, i, length)
      /\ client' \in Clients /\ client'.text = client.text /\ client'.done = client.done
      /\ Changed(client.calls, client'.calls, i, client.calls[i].args + sent)
  <2>2. PICK extends : extends = ~revised
    OBVIOUS
  <2>3. PICK mode : mode = "snapshot"
    OBVIOUS
  <2>4. ToolEvent(said.calls[i].id, mode, length, extends)
    BY <1>5, <2>2, <2>3, Zenon
  <2>5. NormalizeArguments(tools.states[i].args, mode, length, extends) = [kept |-> length, sent |-> sent]
    BY <1>3, <1>7, <2>2, <2>3, Zenon
  <2> QED BY <1>0, <2>4, <2>5, ToolEventKnown
<1>9. said' \in Outputs /\ said'.text = said.text /\ Changed(said.calls, said'.calls, i, length)
  <2>1. said' = SaidWith(said, i, length)
    BY <1>3, <1>4 DEF ArgumentsSnapshot, SaidWith
  <2> QED BY <1>1, <2>1, SaidChanged
<1>10. regular' \in BOOLEAN
  BY <1>0 DEF ArgumentsSnapshot, ChatTyped
<1>11. PICK d : d = c + sent
  OBVIOUS
<1>12. regular' => regular /\ length = d
  <2> SUFFICES ASSUME regular' PROVE regular /\ length = d
    OBVIOUS
  <2>1. regular /\ ~revised
    BY DEF ArgumentsSnapshot
  <2>2. s = k /\ s = c
    BY <1>0, <1>2, <1>3, <2>1 DEF ArgumentsAgree
  <2> QED BY <1>4, <1>6, <1>11, <2>1, <2>2
<1>13. CallsAgree' /\ ArgumentsAgree'
  <2>1. Changed(client.calls, client'.calls, i, d)
    BY <1>3, <1>8, <1>11
  <2> QED BY <1>0, <1>2, <1>8, <1>9, <1>12, <2>1, ChangedAgree
<1>14. client'.text = said'.text /\ client'.done = 0
  BY <1>0, <1>8, <1>9
<1> QED BY <1>8, <1>9, <1>10, <1>13, <1>14 DEF StreamKept, ChatTyped

\* An event that is not about a call.
LEMMA CallsUnchanged ==
    ASSUME CallsAgree, ArgumentsAgree, said'.calls = said.calls, client'.calls = client.calls,
           tools' = tools, regular' = regular
    PROVE  CallsAgree' /\ ArgumentsAgree'
<1>1. CallsAgree'
  BY DEF CallsAgree
<1>2. ArgumentsAgree'
  BY DEF ArgumentsAgree
<1> QED BY <1>1, <1>2

\* response.output_text.delta
LEMMA TextPieceKeeps ==
    ASSUME ChatInv, TextPiece
    PROVE  StreamKept'
<1>0. ChatTyped /\ CallsAgree /\ ArgumentsAgree /\ client.text = said.text /\ client.done = 0
  BY DEF ChatInv, TextPiece, Streaming
<1>1. said \in Outputs /\ client \in Clients
  BY <1>0 DEF ChatTyped
<1>2. PICK t \in 0..MaxPieces : t = said.text + 1
  BY <1>1, ChatAssumption DEF TextPiece, Outputs
<1>3. said' = [said EXCEPT !.text = t]
  BY <1>2 DEF TextPiece
<1>4. client' = [client EXCEPT !.roles = 1, !.text = t]
  BY <1>0, <1>2 DEF TextPiece
<1>5. said' \in Outputs /\ said'.text = t /\ said'.calls = said.calls
  BY <1>1, <1>3 DEF Outputs
<1>6. client'.text = t /\ client'.calls = client.calls /\ client'.done = client.done
  BY <1>1, <1>4 DEF Clients
<1>7. client' \in Clients
  <2>1. client = [roles |-> client.roles, text |-> client.text, calls |-> client.calls,
                  finish |-> client.finish, error |-> client.error, usage |-> client.usage,
                  done |-> client.done]
    BY <1>1 DEF Clients
  <2>2. client' = [roles |-> 1, text |-> t, calls |-> client.calls, finish |-> client.finish,
                   error |-> client.error, usage |-> client.usage, done |-> client.done]
    BY <1>4, <2>1
  <2>3. /\ 1 \in 0..1 /\ client.calls \in CallSeqs /\ client.finish \in Finishes
        /\ client.usage \in 0..1 /\ client.done \in 0..1
    BY <1>1 DEF Clients
  <2>4. client.error \in BOOLEAN
    BY <1>1, ZenonT(20) DEF Clients
  <2> QED BY <2>2, <2>3, <2>4, ZenonT(20) DEF Clients
<1>8. tools' = tools /\ regular' = regular
  BY DEF TextPiece
<1>9. CallsAgree' /\ ArgumentsAgree'
  BY <1>0, <1>5, <1>6, <1>8, CallsUnchanged
<1> QED BY <1>0, <1>5, <1>6, <1>7, <1>8, <1>9 DEF StreamKept, ChatTyped

\* In a regular stream the client has rebuilt the calls.
LEMMA CallsAreThose ==
    ASSUME ChatTyped, CallsAgree, ArgumentsAgree
    PROVE  ClientRebuildsTheCalls
<1> SUFFICES ASSUME regular PROVE client.calls = said.calls
  BY DEF ClientRebuildsTheCalls
<1>1. said.calls \in CallSeqs /\ client.calls \in CallSeqs /\ SameIds(said.calls, client.calls)
  BY DEF ChatTyped, Outputs, Clients, CallsAgree
<1>2. \A i \in 1..Len(said.calls) : said.calls[i].args = client.calls[i].args
  BY DEF ArgumentsAgree
<1> QED BY <1>1, <1>2, SameCalls

\* While the stream goes on there is nothing to compare with the JSON answer.
LEMMA StreamKeptIsSafe ==
    ASSUME StreamKept', chatProbe' = chatProbe, ChatInv
    PROVE  ChatInv'
<1>1. StreamAgreesWithJson'
  BY DEF StreamKept, StreamAgreesWithJson
<1>2. RequestIsWhole'
  BY DEF ChatInv, RequestIsWhole
<1> QED BY <1>1, <1>2 DEF StreamKept, ChatInv

\* A terminal event, or the end of the stream without one.
LEMMA StreamEndsKeeps ==
    ASSUME ChatInv, NEW ending \in Endings, NEW usage \in BOOLEAN, StreamEnds(ending, usage)
    PROVE  ChatInv'
<1>0. ChatTyped /\ CallsAgree /\ ArgumentsAgree /\ client.text = said.text /\ RequestIsWhole
  BY DEF ChatInv
<1>1. said \in Outputs /\ client \in Clients
  BY <1>0 DEF ChatTyped
<1>2. said' = [said EXCEPT !.ending = ending] /\ tools' = tools /\ regular' = regular /\ chatProbe' = chatProbe
  BY DEF StreamEnds
<1>3. said' \in Outputs /\ said'.text = said.text /\ said'.calls = said.calls /\ said'.ending = ending
  BY <1>1, <1>2 DEF Outputs
<1> DEFINE bad == ending \in {"failed", "cut"}
           finish == IF bad THEN CNone ELSE FinishReason(client.calls # <<>>, ending)
<1>4. PICK f : f = finish
  OBVIOUS
<1>5. f \in Finishes
  BY <1>4 DEF Finishes, FinishReason, FinishFromIncomplete
<1>6. PICK u \in 0..1 : u = IF ~bad /\ usage THEN 1 ELSE 0
  OBVIOUS
<1>7. client' = [client EXCEPT !.done = 1, !.error = bad, !.finish = f, !.usage = u]
  BY <1>4, <1>6 DEF StreamEnds
<1>8. client' = [roles |-> client.roles, text |-> client.text, calls |-> client.calls,
                 finish |-> f, error |-> bad, usage |-> u, done |-> 1]
  BY <1>1, <1>7 DEF Clients
<1>9. client' \in Clients
  <2>1. client.roles \in 0..1 /\ client.text \in 0..MaxPieces /\ client.calls \in CallSeqs /\ 1 \in 0..1
    BY <1>1 DEF Clients
  <2>2. bad \in BOOLEAN
    OBVIOUS
  <2> HIDE DEF bad
  <2> QED BY <1>5, <1>6, <1>8, <2>1, <2>2, ZenonT(20) DEF Clients
<1>10. client'.text = client.text /\ client'.calls = client.calls /\ client'.finish = f
  BY <1>8
<1>11. client'.error <=> bad
  BY <1>8, Zenon
<1>12. CallsAgree' /\ ArgumentsAgree'
  BY <1>0, <1>2, <1>3, <1>10, CallsUnchanged
<1>13. client.calls # <<>> <=> said.calls # <<>>
  <2>1. said.calls \in Seq(ToolCalls) /\ client.calls \in Seq(ToolCalls) /\ Len(said.calls) = Len(client.calls)
    BY <1>0, <1>1 DEF Outputs, Clients, CallSeqs, CallsAgree, SameIds
  <2> QED BY <2>1
<1>14. ASSUME ~bad PROVE f = JsonCompletion(said').finish
  BY <1>3, <1>4, <1>13, <1>14 DEF FinishReason, JsonCompletion
<1>15. regular => client.calls = said.calls
  BY <1>0, CallsAreThose DEF ClientRebuildsTheCalls
<1>16. StreamAgreesWithJson'
  <2>1. CASE bad
    BY <1>3, <1>4, <1>10, <1>11, <2>1 DEF StreamAgreesWithJson
  <2>2. CASE ~bad
    <3>1. JsonCompletion(said').text = said.text /\ JsonCompletion(said').calls = said.calls
      BY <1>3 DEF JsonCompletion
    <3> QED BY <1>0, <1>2, <1>3, <1>10, <1>11, <1>14, <1>15, <2>2, <3>1 DEF StreamAgreesWithJson
  <2> QED BY <2>1, <2>2
<1>17. RequestIsWhole'
  BY <1>0, <1>2 DEF RequestIsWhole
<1> QED BY <1>0, <1>2, <1>3, <1>9, <1>10, <1>12, <1>16, <1>17 DEF ChatInv, ChatTyped

-----------------------------------------------------------------------------
(* Chat completions: the request *)

Kinds == Contents \cup {"error", "function_call", "function_call_output"}
ItemKinds == {"function_call", "function_call_output"}
Items == [from : Nat, kind : Kinds, call : CallIds \cup {CNone}]

\* The items with which a message's translation may end up.
OfMessage(t, m, i) ==
    /\ t \in Seq(Items)
    /\ m.role # "system" => Len(t) = 1 + Len(m.calls)
    /\ \A k \in 1..Len(t) : t[k].from = i /\ (t[k].kind \in ItemKinds => t[k].call # CNone)

\* The places of a message's items.
ItemPlaces(s, i) == {k \in 1..Len(s) : s[k].from = i}

\* The items of the first n messages.
Whole(messages, s, n) ==
    /\ s \in Seq(Items)
    /\ \A k \in 1..Len(s) : s[k].from \in 1..n /\ (s[k].kind \in ItemKinds => s[k].call # CNone)
    /\ \A k, l \in 1..Len(s) : k < l => s[k].from <= s[l].from
    /\ \A i \in 1..n : messages[i].role # "system" =>
         Cardinality(ItemPlaces(s, i)) = 1 + Len(messages[i].calls)

\* What a message is made of.
LEMMA MessageFields ==
    ASSUME NEW m \in Messages
    PROVE  /\ m.content \in Contents /\ m.call \in CallIds \cup {CNone}
           /\ m.calls \in Seq(CallIds \cup {CNone})
           /\ m.role \in {"system", "tool", "user"} => m.calls = <<>>
<1>0. \A x \in CallIds \cup {CNone} : <<x>> \in Seq(CallIds \cup {CNone})
  OBVIOUS
<1>0a. <<>> \in Seq(CallIds \cup {CNone})
  OBVIOUS
<1>1. CASE m \in [role : {"system", "user", "assistant"}, content : Contents, call : {CNone}, calls : {<<>>}]
  <2>1. m.content \in Contents /\ m.call = CNone /\ m.calls = <<>>
    BY <1>1
  <2> QED BY <1>0a, <2>1
<1>2. CASE m \in [role : {"assistant"}, content : {"null", "text"}, call : {CNone},
                  calls : {<<c>> : c \in CallIds} \cup {<<CNone>>}]
  <2>1. /\ m.role = "assistant" /\ m.content \in {"null", "text"} /\ m.call = CNone
        /\ m.calls \in {<<c>> : c \in CallIds} \cup {<<CNone>>}
    BY <1>2
  <2>2. PICK x \in CallIds \cup {CNone} : m.calls = <<x>>
    BY <2>1
  <2> QED BY <1>0, <2>1, <2>2 DEF Contents
<1>3. CASE m \in [role : {"tool"}, content : {"null", "text", "image"}, call : {CNone} \cup CallIds, calls : {<<>>}]
  <2>1. m.content \in {"null", "text", "image"} /\ m.call \in {CNone} \cup CallIds /\ m.calls = <<>>
    BY <1>3
  <2> QED BY <1>0a, <2>1 DEF Contents
<1>4. CASE m \in [role : {"critic"}, content : {"text"}, call : {CNone}, calls : {<<>>}]
  <2>1. m.content = "text" /\ m.call = CNone /\ m.calls = <<>>
    BY <1>4
  <2> QED BY <1>0a, <2>1 DEF Contents
<1> QED BY <1>1, <1>2, <1>3, <1>4 DEF Messages

\* append_message: a valid message becomes its items.
LEMMA MessageBecomes ==
    ASSUME NEW m \in Messages, NEW i \in Nat, MessageIsValid(m)
    PROVE  OfMessage(MessageItems(m, i), m, i)
<1>0. /\ m.content \in Contents /\ m.call \in CallIds \cup {CNone}
      /\ m.calls \in Seq(CallIds \cup {CNone})
      /\ m.role \in {"system", "tool", "user"} => m.calls = <<>>
  BY MessageFields
<1>1. PICK t : t = MessageItems(m, i)
  OBVIOUS
<1>2. CASE m.role = "system"
  <2>1. t = <<>>
    BY <1>1, <1>2 DEF MessageItems
  <2>2. t \in Seq(Items) /\ Len(t) = 0
    BY <2>1
  <2> QED BY <1>1, <1>2, <2>2 DEF OfMessage
<1>3. CASE m.role = "tool"
  <2>1. PICK x : x = [from |-> i, kind |-> "function_call_output", call |-> m.call]
    OBVIOUS
  <2>2. t = <<x>>
    BY <1>1, <1>3, <2>1 DEF MessageItems
  <2>3. x \in Items /\ x.from = i
    BY <1>0, <2>1 DEF Items, Kinds
  <2>4. m.call # CNone /\ x.call = m.call
    BY <1>3, <2>1 DEF MessageIsValid
  <2>5. t \in Seq(Items) /\ Len(t) = 1 /\ t[1] = x
    BY <2>2, <2>3
  <2>6. Len(m.calls) = 0
    BY <1>0, <1>3
  <2> QED BY <1>1, <2>3, <2>4, <2>5, <2>6 DEF OfMessage
<1>4. CASE m.role \notin {"system", "tool"}
  <2>0. m.role \in {"user", "assistant"}
    BY <1>4 DEF MessageIsValid
  <2>1. PICK part : part = IF m.role = "user" THEN MapUserPart(m.content) ELSE MapAssistantPart(m.content)
    OBVIOUS
  <2>2. part \in Contents
    <3>1. part # "error"
      BY <2>0, <2>1 DEF MessageIsValid
    <3> QED BY <1>0, <2>1, <3>1 DEF MapUserPart, MapAssistantPart, Contents
  <2>3. PICK x : x = [from |-> i, kind |-> part, call |-> CNone]
    OBVIOUS
  <2>4. x \in Items /\ x.from = i /\ x.kind \notin ItemKinds
    BY <2>2, <2>3 DEF Items, Kinds, ItemKinds, Contents
  <2>5. PICK n \in Nat : n = Len(m.calls)
    BY <1>0
  <2>6. PICK q : q = [k \in 1..n |-> [from |-> i, kind |-> "function_call", call |-> m.calls[k]]]
    OBVIOUS
  <2>7. t = <<x>> \o q
    BY <1>1, <1>4, <2>1, <2>3, <2>5, <2>6 DEF MessageItems
  <2>8. \A k \in 1..n : m.calls[k] # CNone /\ m.calls[k] \in CallIds \cup {CNone}
    <3>1. \A k \in 1..n : m.calls[k] \in CallIds \cup {CNone}
      BY <1>0, <2>5
    <3>2. CASE m.role = "assistant"
      BY <2>5, <3>1, <3>2 DEF MessageIsValid
    <3>3. CASE m.role = "user"
      <4>1. m.calls = <<>>
        BY <1>0, <3>3
      <4> QED BY <2>5, <4>1
    <3> QED BY <2>0, <3>2, <3>3
  <2>9. \A k \in 1..n : q[k] \in Items /\ q[k].from = i /\ q[k].call # CNone
    BY <2>6, <2>8 DEF Items, Kinds
  <2>10. q \in Seq(Items) /\ Len(q) = n
    BY <2>6, <2>9
  <2>11. t \in Seq(Items) /\ Len(t) = 1 + n /\ t[1] = x /\ \A k \in 1..n : t[1 + k] = q[k]
    BY <2>4, <2>7, <2>10
  <2>12. \A k \in 1..(1 + n) : k = 1 \/ \E j \in 1..n : k = 1 + j
    BY <2>5
  <2>13. \A k \in 1..(1 + n) : t[k].from = i /\ (t[k].kind \in ItemKinds => t[k].call # CNone)
    <3> SUFFICES ASSUME NEW k \in 1..(1 + n)
                 PROVE  t[k].from = i /\ (t[k].kind \in ItemKinds => t[k].call # CNone)
      OBVIOUS
    <3>1. CASE k = 1
      BY <2>4, <2>11, <3>1
    <3>2. ASSUME NEW j \in 1..n, k = 1 + j PROVE t[k] = q[j]
      BY <2>11, <3>2
    <3> QED BY <2>9, <2>12, <3>1, <3>2
  <2> QED BY <1>1, <2>5, <2>11, <2>13 DEF OfMessage
<1> QED BY <1>2, <1>3, <1>4

\* The items of one message more.
LEMMA OneMore ==
    ASSUME NEW messages, NEW n \in Nat, n > 0, NEW s, Whole(messages, s, n - 1),
           NEW t, OfMessage(t, messages[n], n), Len(messages[n].calls) \in Nat
    PROVE  Whole(messages, s \o t, n)
<1>1. s \in Seq(Items) /\ t \in Seq(Items)
  BY DEF Whole, OfMessage
<1>2. PICK a \in Nat, b \in Nat : a = Len(s) /\ b = Len(t)
  BY <1>1
<1>3. PICK u : u = s \o t
  OBVIOUS
<1>4. /\ u \in Seq(Items) /\ Len(u) = a + b
      /\ \A k \in 1..a : u[k] = s[k]
      /\ \A k \in (a + 1)..(a + b) : u[k] = t[k - a] /\ k - a \in 1..b
  BY <1>1, <1>2, <1>3
<1>5. \A k \in 1..a : u[k].from \in 1..(n - 1) /\ (u[k].kind \in ItemKinds => u[k].call # CNone)
  BY <1>2, <1>4 DEF Whole
<1>6. \A k \in (a + 1)..(a + b) : u[k].from = n /\ (u[k].kind \in ItemKinds => u[k].call # CNone)
  BY <1>2, <1>4 DEF OfMessage
<1>7. \A k \in 1..(a + b) : k \in 1..a \/ k \in (a + 1)..(a + b)
  OBVIOUS
<1>8. \A k \in 1..(a + b) : u[k].from \in 1..n /\ (u[k].kind \in ItemKinds => u[k].call # CNone)
  BY <1>5, <1>6, <1>7
<1>9. ASSUME NEW k \in 1..(a + b), NEW l \in 1..(a + b), k < l PROVE u[k].from <= u[l].from
  <2>1. CASE l \in 1..a
    <3>1. k \in 1..a
      BY <1>9, <2>1
    <3>2. s[k].from <= s[l].from
      BY <1>2, <1>9, <2>1, <3>1 DEF Whole
    <3> QED BY <1>4, <2>1, <3>1, <3>2
  <2>2. CASE l \in (a + 1)..(a + b)
    BY <1>6, <1>8, <2>2
  <2> QED BY <1>7, <2>1, <2>2
<1>10. ASSUME NEW i \in 1..n, messages[i].role # "system"
       PROVE  Cardinality(ItemPlaces(u, i)) = 1 + Len(messages[i].calls)
  <2>1. CASE i = n
    <3>1. ItemPlaces(u, i) = (a + 1)..(a + b)
      <4>1. \A k \in 1..(a + b) : u[k].from = n <=> k \in (a + 1)..(a + b)
        BY <1>5, <1>6, <1>7
      <4>2. \A k \in (a + 1)..(a + b) : k \in 1..(a + b)
        OBVIOUS
      <4> QED BY <1>4, <2>1, <4>1, <4>2 DEF ItemPlaces
    <3>2. Cardinality((a + 1)..(a + b)) = b
      <4>1. CASE b = 0
        <5>1. (a + 1)..(a + b) = {}
          BY <4>1
        <5> QED BY <4>1, <5>1, FS_EmptySet
      <4>2. CASE b > 0
        <5>1. a + 1 <= a + b /\ a + b - (a + 1) + 1 = b
          BY <4>2
        <5>2. Cardinality((a + 1)..(a + b)) = a + b - (a + 1) + 1
          BY <5>1, FS_Interval
        <5> QED BY <5>1, <5>2
      <4> QED BY <4>1, <4>2
    <3>3. b = 1 + Len(messages[n].calls)
      BY <1>2, <1>10, <2>1 DEF OfMessage
    <3> QED BY <2>1, <3>1, <3>2, <3>3
  <2>2. CASE i # n
    <3>1. i \in 1..(n - 1)
      BY <2>2
    <3>2. ItemPlaces(u, i) = ItemPlaces(s, i)
      <4>1. \A k \in 1..(a + b) : u[k].from = i => k \in 1..a
        BY <1>6, <1>7, <2>2
      <4>2. \A k \in 1..a : k \in 1..(a + b) /\ u[k].from = s[k].from
        BY <1>4
      <4> QED BY <1>2, <1>4, <4>1, <4>2 DEF ItemPlaces
    <3> QED BY <1>10, <3>1, <3>2 DEF Whole
  <2> QED BY <2>1, <2>2
<1> QED BY <1>3, <1>4, <1>8, <1>9, <1>10 DEF Whole

\* A nonempty set of natural numbers has a least element.
LEMMA LeastNumber ==
    ASSUME NEW T, T \subseteq Nat, T # {}
    PROVE  \E x \in T : \A y \in T : x <= y
<1>1. IsWellFoundedOn(OpToRel(<,Nat), Nat)
  BY NatLessThanWellFounded
<1>2. PICK x \in T : \A y \in T : ~ (<<y, x>> \in OpToRel(<,Nat))
  BY <1>1, WFMin
<1>3. \A y \in T : ~ (y < x)
  BY <1>2 DEF OpToRel
<1> QED BY <1>3

\* The recursive definition of TransformChatRequest, up to the n-th message.
IsTranslation(f, messages, n) ==
    f = [k \in 0..n |-> IF k = 0 THEN <<>> ELSE f[k - 1] \o MessageItems(messages[k], k)]

HasTranslation(messages, n) == \E f : IsTranslation(f, messages, n)

\* What it says of one message more.
LEMMA TranslationAt ==
    ASSUME NEW messages, NEW n \in Nat, NEW f, IsTranslation(f, messages, n)
    PROVE  f[0] = <<>> /\ \A k \in 1..n : f[k] = f[k - 1] \o MessageItems(messages[k], k)
BY DEF IsTranslation

\* Items added message by message are a function of the messages.
LEMMA TranslationExists ==
    ASSUME NEW messages, NEW m \in Nat
    PROVE  HasTranslation(messages, m)
<1> DEFINE Bad == {n \in Nat : ~HasTranslation(messages, n)}
<1> SUFFICES ASSUME m \in Bad PROVE FALSE
  OBVIOUS
<1>1. PICK n \in Bad : \A k \in Bad : n <= k
  <2>1. Bad \subseteq Nat /\ Bad # {}
    OBVIOUS
  <2> HIDE DEF Bad
  <2> QED BY <2>1, LeastNumber
<1>2. n # 0
  <2>1. ASSUME NEW f, f = [k \in 0..0 |-> <<>>] PROVE IsTranslation(f, messages, 0)
    <3>1. \A k \in 0..0 : k = 0
      OBVIOUS
    <3>2. [k \in 0..0 |-> IF k = 0 THEN <<>> ELSE f[k - 1] \o MessageItems(messages[k], k)] = [k \in 0..0 |-> <<>>]
      BY <3>1
    <3> QED BY <2>1, <3>2 DEF IsTranslation
  <2>2. HasTranslation(messages, 0)
    BY <2>1 DEF HasTranslation
  <2> QED BY <2>2
<1>3. n \in Nat /\ n - 1 \in Nat /\ n - 1 \notin Bad
  BY <1>1, <1>2
<1>4. PICK f : IsTranslation(f, messages, n - 1)
  BY <1>3 DEF HasTranslation
<1>5. f[0] = <<>> /\ \A k \in 1..(n - 1) : f[k] = f[k - 1] \o MessageItems(messages[k], k)
  <2> HIDE DEF Bad
  <2> QED BY <1>3, <1>4, TranslationAt
<1>6. PICK g : g = [k \in 0..n |-> IF k = n THEN f[n - 1] \o MessageItems(messages[n], n) ELSE f[k]]
  OBVIOUS
<1>7. ASSUME NEW k \in 0..n
      PROVE  g[k] = IF k = 0 THEN <<>> ELSE g[k - 1] \o MessageItems(messages[k], k)
  <2>1. CASE k = 0
    BY <1>2, <1>3, <1>5, <1>6, <2>1
  <2>2. CASE k = n
    <3>1. g[n - 1] = f[n - 1] /\ g[n] = f[n - 1] \o MessageItems(messages[n], n)
      BY <1>2, <1>3, <1>6
    <3> QED BY <1>2, <2>2, <3>1
  <2>3. CASE k \in 1..(n - 1)
    <3>1. g[k] = f[k] /\ g[k - 1] = f[k - 1] /\ k # 0
      BY <1>3, <1>6, <2>3
    <3> QED BY <1>5, <2>3, <3>1
  <2> QED BY <1>3, <2>1, <2>2, <2>3
<1>8. IsTranslation(g, messages, n)
  <2>1. g = [k \in 0..n |-> g[k]]
    BY <1>6
  <2> QED BY <1>7, <2>1 DEF IsTranslation
<1> QED BY <1>1, <1>8 DEF HasTranslation

\* Its items are those of the messages, as long as all of these are valid.
LEMMA TranslationWhole ==
    ASSUME NEW messages, NEW n \in Nat, NEW f, IsTranslation(f, messages, n),
           \A i \in 1..n : messages[i] \in Messages /\ MessageIsValid(messages[i]), NEW m \in 0..n
    PROVE  Whole(messages, f[m], m)
<1> DEFINE Bad == {k \in 0..n : ~Whole(messages, f[k], k)}
<1> SUFFICES ASSUME m \in Bad PROVE FALSE
  OBVIOUS
<1>1. PICK k \in Bad : \A l \in Bad : k <= l
  <2>1. Bad \subseteq Nat /\ Bad # {}
    OBVIOUS
  <2> HIDE DEF Bad
  <2> QED BY <2>1, LeastNumber
<1>2. f[0] = <<>> /\ \A l \in 1..n : f[l] = f[l - 1] \o MessageItems(messages[l], l)
  <2> HIDE DEF Bad
  <2> QED BY TranslationAt
<1>3. CASE k = 0
  <2>1. f[0] \in Seq(Items) /\ Len(f[0]) = 0
    BY <1>2
  <2>2. Whole(messages, f[0], 0)
    BY <2>1 DEF Whole
  <2> QED BY <1>1, <1>3, <2>2
<1>4. CASE k # 0
  <2>1. k \in 1..n /\ k - 1 \in 0..n /\ k - 1 \notin Bad /\ k \in Nat
    BY <1>1, <1>4
  <2>2. Whole(messages, f[k - 1], k - 1)
    BY <2>1
  <2>3. ~Whole(messages, f[k], k)
    BY <1>1
  <2> HIDE DEF Bad
  <2>4. OfMessage(MessageItems(messages[k], k), messages[k], k)
    BY <2>1, MessageBecomes
  <2>5. Len(messages[k].calls) \in Nat
    <3>1. messages[k].calls \in Seq(CallIds \cup {CNone})
      BY <2>1, MessageFields
    <3> QED BY <3>1
  <2>6. Whole(messages, f[k - 1] \o MessageItems(messages[k], k), k)
    BY <2>1, <2>2, <2>4, <2>5, OneMore
  <2> QED BY <1>2, <2>1, <2>3, <2>6
<1> QED BY <1>3, <1>4

\* The size of an interval.
LEMMA CardinalityUpTo ==
    ASSUME NEW n \in Nat
    PROVE  Cardinality(1..n) = n
<1>1. CASE n = 0
  <2>1. 1..n = {}
    BY <1>1
  <2> QED BY <1>1, <2>1, FS_EmptySet
<1>2. CASE n > 0
  <2>1. 1 <= n /\ n - 1 + 1 = n
    BY <1>2
  <2>2. Cardinality(1..n) = n - 1 + 1
    BY <2>1, FS_Interval
  <2> QED BY <2>1, <2>2
<1> QED BY <1>1, <1>2

\* transform_chat_request: refused, or every message but the system's and every
\* call becomes an item, in order.
LEMMA TransformIsWhole ==
    ASSUME NEW messages, NEW n \in Nat, messages \in [1..n -> Messages], NEW o,
           TransformChatRequest(messages, o).status = 0,
           NEW items, items = TransformChatRequest(messages, o).items
    PROVE  /\ \A i \in 1..n : messages[i].role # "system" =>
                Cardinality(ItemPlaces(items, i)) = 1 + Len(messages[i].calls)
           /\ \A k, l \in 1..Len(items) : k < l => items[k].from <= items[l].from
           /\ \A k \in 1..Len(items) : items[k].kind \in ItemKinds => items[k].call # CNone
           /\ items # <<>>
<1>0. Len(messages) = n
  OBVIOUS
<1> DEFINE all == CHOOSE f : IsTranslation(f, messages, Len(messages))
           valid == /\ messages # <<>>
                    /\ \A i \in 1..Len(messages) : MessageIsValid(messages[i])
                    /\ NormalizeTools(o) # "error" /\ ApplyResponseFormat(o) # "error"
           alone == <<[from |-> 0, kind |-> "text", call |-> CNone]>>
<1>1. /\ TransformChatRequest(messages, o).status = IF valid THEN 0 ELSE 400
      /\ TransformChatRequest(messages, o).items =
            IF ~valid THEN <<>> ELSE IF all[Len(messages)] = <<>> THEN alone ELSE all[Len(messages)]
  BY DEF TransformChatRequest, IsTranslation
<1>2. IsTranslation(all, messages, n)
  <2>1. \E f : IsTranslation(f, messages, n)
    BY TranslationExists DEF HasTranslation
  <2> QED BY <1>0, <2>1
<1> HIDE DEF all
<1>3. valid
  <2> HIDE DEF valid, alone
  <2> QED BY <1>1
<1>4. items = IF all[n] = <<>> THEN alone ELSE all[n]
  <2> HIDE DEF valid, alone
  <2> QED BY <1>0, <1>1, <1>3
<1>5. \A i \in 1..n : messages[i] \in Messages /\ MessageIsValid(messages[i])
  BY <1>0, <1>3
<1>6. Whole(messages, all[n], n)
  <2> HIDE DEF valid
  <2> QED BY <1>2, <1>5, TranslationWhole
<1> HIDE DEF valid
<1>7. CASE all[n] # <<>>
  <2>1. items = all[n]
    BY <1>4, <1>7
  <2> QED BY <1>6, <1>7, <2>1 DEF Whole
<1>8. CASE all[n] = <<>>
  <2>1. items = alone
    BY <1>4, <1>8
  <2>2. PICK x : x = [from |-> 0, kind |-> "text", call |-> CNone]
    OBVIOUS
  <2>3. items = <<x>> /\ x.kind \notin ItemKinds
    BY <2>1, <2>2 DEF ItemKinds
  <2>4. Len(items) = 1 /\ items[1] = x /\ items # <<>>
    BY <2>3
  <2>5. ASSUME NEW i \in 1..n, messages[i].role # "system" PROVE FALSE
    <3>1. ItemPlaces(all[n], i) = {}
      BY <1>8 DEF ItemPlaces
    <3>2. Cardinality(ItemPlaces(all[n], i)) = 0
      BY <3>1, FS_EmptySet
    <3>3. Len(messages[i].calls) \in Nat
      <4>1. messages[i].calls \in Seq(CallIds \cup {CNone})
        BY <1>5, MessageFields
      <4> QED BY <4>1
    <3>4. Cardinality(ItemPlaces(all[n], i)) = 1 + Len(messages[i].calls)
      BY <1>6, <2>5 DEF Whole
    <3> QED BY <3>2, <3>3, <3>4
  <2>6. \A k \in 1..Len(items) : k = 1
    BY <2>4
  <2>7. \A k, l \in 1..Len(items) : ~(k < l)
    BY <2>6
  <2> QED BY <2>3, <2>4, <2>5, <2>6, <2>7
<1> QED BY <1>7, <1>8

\* The translation of a request keeps everything else.
LEMMA RequestTranslatedKeeps ==
    ASSUME ChatInv, NEW n \in Nat, NEW messages \in [1..n -> Messages], NEW o, RequestTranslated(messages, o)
    PROVE  ChatInv'
<1>1. UNCHANGED <<said, tools, client, regular>>
  BY DEF RequestTranslated
<1>2. /\ chatProbe'.messages = messages /\ Len(messages) = n
      /\ chatProbe'.result = TransformChatRequest(messages, o)
  BY DEF RequestTranslated
<1>3. RequestIsWhole'
  <2> SUFFICES ASSUME TransformChatRequest(messages, o).status = 0 PROVE RequestIsWhole'
    BY <1>2 DEF RequestIsWhole
  <2>1. PICK items : items = TransformChatRequest(messages, o).items
    OBVIOUS
  <2>2. /\ \A i \in 1..n : messages[i].role # "system" =>
             Cardinality(ItemPlaces(items, i)) = 1 + Len(messages[i].calls)
        /\ \A k, l \in 1..Len(items) : k < l => items[k].from <= items[l].from
        /\ \A k \in 1..Len(items) : items[k].kind \in ItemKinds => items[k].call # CNone
        /\ items # <<>>
    BY <2>1, TransformIsWhole
  <2>3. items = chatProbe'.result.items
    BY <1>2, <2>1
  <2> QED BY <1>2, <2>2, <2>3 DEF RequestIsWhole, ItemPlaces, ItemKinds
<1>4. ChatTyped' /\ client'.text = said'.text
  BY <1>1 DEF ChatInv, ChatTyped
<1>5. CallsAgree' /\ ArgumentsAgree'
  BY <1>1, CallsUnchanged DEF ChatInv
<1>6. StreamAgreesWithJson'
  BY <1>1 DEF ChatInv, StreamAgreesWithJson
<1> QED BY <1>3, <1>4, <1>5, <1>6 DEF ChatInv

\* Before the stream nothing is known to anyone.
LEMMA ChatInitHolds == ChatInit => ChatInv
<1> SUFFICES ASSUME ChatInit PROVE ChatInv
  OBVIOUS
<1>1. said = NothingSaid /\ tools = [index |-> <<>>, states |-> <<>>] /\ client = NoClient /\ regular = TRUE
      /\ chatProbe = CNone
  BY DEF ChatInit
<1>2. <<>> \in CallSeqs /\ <<>> \in Seq(CallIds) /\ Len(<<>>) = 0
  BY DEF CallSeqs
<1>3. /\ said.calls = <<>> /\ said.text = 0 /\ tools.index = <<>> /\ tools.states = <<>>
      /\ client.calls = <<>> /\ client.text = 0 /\ client.done = 0
  BY <1>1 DEF NothingSaid, NoClient
<1>4. said \in Outputs
  BY <1>1, <1>2, ChatAssumption DEF NothingSaid, Outputs
<1>5. tools \in ToolStates
  BY <1>1, <1>2 DEF ToolStates
<1>6. client \in Clients
  <2>1. 0 \in 0..1 /\ 0 \in 0..MaxPieces /\ CNone \in Finishes /\ FALSE \in BOOLEAN
    BY ChatAssumption DEF Finishes
  <2> QED BY <1>1, <1>2, <2>1, ZenonT(20) DEF NoClient, Clients
<1>7. ChatTyped
  BY <1>1, <1>4, <1>5, <1>6 DEF ChatTyped
<1>8. CallsAgree /\ ArgumentsAgree
  BY <1>2, <1>3 DEF CallsAgree, SameIds, ArgumentsAgree
<1>9. StreamAgreesWithJson /\ RequestIsWhole
  BY <1>1, <1>3 DEF StreamAgreesWithJson, RequestIsWhole
<1> QED BY <1>3, <1>7, <1>8, <1>9 DEF ChatInv

\* Every event, the end of the stream and every request keep it.
LEMMA ChatNextKeeps == ChatInv /\ [ChatNext]_chatVars => ChatInv'
<1> SUFFICES ASSUME ChatInv, [ChatNext]_chatVars PROVE ChatInv'
  OBVIOUS
<1>1. ASSUME NEW id \in CallIds, CallOpened(id) PROVE ChatInv'
  <2>1. StreamKept'
    BY <1>1, CallOpenedKeeps DEF StreamKept
  <2> QED BY <1>1, <2>1, StreamKeptIsSafe DEF CallOpened
<1>2. ASSUME NEW i \in 1..Len(said.calls), NEW b \in BOOLEAN, ArgumentsPiece(i, b) PROVE ChatInv'
  <2>1. StreamKept'
    BY <1>2, ArgumentsPieceKeeps
  <2> QED BY <1>2, <2>1, StreamKeptIsSafe DEF ArgumentsPiece
<1>3. ASSUME NEW i \in 1..Len(said.calls), NEW b \in BOOLEAN, NEW more \in 0..1, ArgumentsSnapshot(i, more, b)
      PROVE  ChatInv'
  <2>1. StreamKept'
    BY <1>3, ArgumentsSnapshotKeeps
  <2> QED BY <1>3, <2>1, StreamKeptIsSafe DEF ArgumentsSnapshot
<1>4. CASE TextPiece
  <2>1. StreamKept'
    BY <1>4, TextPieceKeeps
  <2> QED BY <1>4, <2>1, StreamKeptIsSafe DEF TextPiece
<1>5. ASSUME NEW ending \in Endings, NEW usage \in BOOLEAN, StreamEnds(ending, usage) PROVE ChatInv'
  BY <1>5, StreamEndsKeeps
<1>6. ASSUME NEW n \in 0..MaxMessages, NEW messages \in [1..n -> Messages], NEW o, RequestTranslated(messages, o)
      PROVE  ChatInv'
  <2>1. n \in Nat
    BY ChatAssumption
  <2> QED BY <1>6, <2>1, RequestTranslatedKeeps
<1>7. ASSUME NEW m \in Messages, NEW o, RequestTranslated(<<m>>, o) PROVE ChatInv'
  <2>1. <<m>> \in [1..1 -> Messages] /\ 1 \in Nat
    OBVIOUS
  <2> QED BY <1>7, <2>1, RequestTranslatedKeeps
<1>8. ASSUME UNCHANGED chatVars PROVE ChatInv'
  <2>1. said' = said /\ tools' = tools /\ client' = client /\ regular' = regular /\ chatProbe' = chatProbe
    BY <1>8 DEF chatVars
  <2>2. ChatTyped' /\ client'.text = said'.text
    BY <2>1 DEF ChatInv, ChatTyped
  <2>3. CallsAgree' /\ ArgumentsAgree'
    BY <2>1, CallsUnchanged DEF ChatInv
  <2>4. StreamAgreesWithJson' /\ RequestIsWhole'
    BY <2>1 DEF ChatInv, StreamAgreesWithJson, RequestIsWhole
  <2> QED BY <2>2, <2>3, <2>4 DEF ChatInv
<1> QED BY <1>1, <1>2, <1>3, <1>4, <1>5, <1>6, <1>7, <1>8 DEF ChatNext, Endings

\* The invariant is enough.
LEMMA ChatInvIsSafe == ChatInv => TranslationSafety
<1> SUFFICES ASSUME ChatInv PROVE TranslationSafety
  OBVIOUS
<1>1. ChatTyped /\ CallsAgree /\ ArgumentsAgree
  BY DEF ChatInv
<1>2. ClientRebuildsTheCalls
  BY <1>1, CallsAreThose
<1>3. PICK n \in Nat : /\ n = Len(said.calls) /\ n = Len(tools.states) /\ n = Len(tools.index)
                       /\ n = Len(client.calls)
  BY <1>1 DEF ChatTyped, CallsAgree, SameIds, Outputs, CallSeqs
<1>4. said.calls \in Seq(ToolCalls) /\ client.calls \in Seq(ToolCalls)
  BY <1>1 DEF ChatTyped, Outputs, Clients, CallSeqs
<1>5. n <= Cardinality(CallIds)
  <2>1. PICK f : f = [i \in 1..n |-> said.calls[i].id]
    OBVIOUS
  <2>2. \A i \in 1..n : said.calls[i].id \in CallIds
    BY <1>3, <1>4, ElementOfSeq, CallFields
  <2>3. f \in Injection(1..n, CallIds)
    BY <1>1, <1>3, <2>1, <2>2 DEF CallsAgree, Injection, IsInjective
  <2>4. Cardinality(1..n) <= Cardinality(CallIds)
    BY <2>3, FS_Injection, ChatAssumption
  <2>5. Cardinality(1..n) = n
    BY CardinalityUpTo
  <2> QED BY <2>4, <2>5
<1>6. \A i \in 1..Len(client.calls) : client.calls[i].id \in CallIds \cup {CNone}
  BY <1>4, ElementOfSeq, CallFields
<1>7. client.roles \in 0..1 /\ client.done \in 0..1 /\ client.text \in 0..MaxPieces
  BY <1>1 DEF ChatTyped, Clients
<1>8. ChatTypeOK
  BY <1>3, <1>5, <1>6, <1>7 DEF ChatTypeOK
<1> QED BY <1>2, <1>8 DEF ChatInv, TranslationSafety

\* For any calls, pieces, snapshots, messages and options: what a client gets by
\* appending the chunks is what the upstream said while pieces name their calls
\* and no snapshot takes anything back, a stream agrees with the JSON answer,
\* and a request is translated whole or refused.
THEOREM TranslationIsSafe == ChatSpec => []TranslationSafety
<1>1. ChatInit => ChatInv
  BY ChatInitHolds
<1>2. ChatInv /\ [ChatNext]_chatVars => ChatInv'
  BY ChatNextKeeps
<1>3. ChatInv => TranslationSafety
  BY ChatInvIsSafe
<1> QED BY <1>1, <1>2, <1>3, PTL DEF ChatSpec
=============================================================================
