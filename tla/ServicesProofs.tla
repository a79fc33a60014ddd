--------------------------- MODULE ServicesProofs ---------------------------
(***************************************************************************)
(* The safety of four services of the server process and of the desktop's  *)
(* settings page, each for every value of its constants.  None of the five *)
(* properties is inductive.                                                *)
(*                                                                         *)
(* Upstream sessions: a connection is lost when two requests think it is   *)
(* theirs, so the invariant says what a request has at each place          *)
(* (RequestShape), that a session in hand is nobody else's and not in the  *)
(* map (CandidatesAreApart), and what is known of the connection of a      *)
(* session in hand (SessionsInHand).                                       *)
(*                                                                         *)
(* OAuth logins: what the event loop is waiting for (LoopShape), that only *)
(* a thread that is waited for was told to stop (StoppedIsJoined), and     *)
(* that whoever is about to report a success has saved the account         *)
(* (SavedHasAccount).                                                      *)
(*                                                                         *)
(* Dashboard: which rows the database may hold, NULLs included (RowOK),    *)
(* and that no code of a secret waiting to be confirmed was ever accepted  *)
(* (PendingIsFresh), without which confirming it would bring the row back  *)
(* to a step that was used.                                                *)
(*                                                                         *)
(* Settings page: what each call has captured by the step it is at         *)
(* (CallOK, EditsOK), that while calls do not overlap an answer is what is *)
(* stored (AnswersOK, StoredOK), and between which steps the cluster may   *)
(* run with settings other than the stored ones (RunsOK).                  *)
(*                                                                         *)
(* Request handlers: how much was sent by each execution (SendsOK), what   *)
(* each execution leaves of the request (PhaseOK), and that an account     *)
(* whose exhaustion is not yet recorded is the one the handler is about to *)
(* retire (SpentOK).  What is collected from a stream is a recursive       *)
(* function of its events; a shortest prefix on which it differed from the *)
(* property would be a counterexample to one event more (CollectStep).     *)
(***************************************************************************)
EXTENDS UpstreamSessions, OAuthLogin, Dashboard, SettingsDraft, ProxyHandlers, FiniteSetTheorems,
        WellFoundedInduction, NaturalsInduction, TLAPS

-----------------------------------------------------------------------------
(* Persistent upstream sessions *)

\* The request has a session it took out of the map, or one it has yet to put there.
Displacing == {"displacing"}
Inserting == {"insert", "purging2", "discarding"}
\* It was given a session and may have run it.
Given == {"trimming", "discarding", "run", "streaming", "removing", "retrying"}
Locking == {"purging", "purging2", "trimming"}
UPlaces == {"new", "lookup", "purging", "connect", "done"} \union Displacing \union Inserting \union Given

URequests ==
    [pc : UPlaces, key : UKeys \union {NoSession}, account : UAccounts \union {NoReq},
     previous : BOOLEAN, create : BOOLEAN, sess : USessions \union {NoSession},
     cand : USessions \union {NoSession}, runs : 0..2, retry : BOOLEAN]

Connections ==
    [open : BOOLEAN, account : UAccounts \union {NoReq}, cancel : BOOLEAN, stale : BOOLEAN,
     lock : UReqs \union {NoReq}]

SessionsTyped ==
    /\ uReq \in [UReqs -> URequests]
    /\ uMap \in [UKeys -> USessions \union {NoSession}]
    /\ uLock \in UReqs \union {NoReq}
    /\ uSess \in [USessions -> Connections]

\* What a request has at each place.
HasAt(q) ==
    /\ q.pc \notin {"new", "done"} => q.key \in UKeys
    /\ q.pc \in Given <=> q.sess # NoSession
    /\ q.pc \in Displacing \union Inserting <=> q.cand # NoSession
    /\ q.pc \notin {"streaming", "removing", "done"} => q.runs <= 1

RequestShape ==
    \A r \in UReqs : HasAt(uReq[r]) /\ (uReq[r].pc \in Locking => uLock = r)

\* A session in one request's hands is in no other's, and not in the map.
CandidatesAreApart ==
    \A r \in UReqs : uReq[r].cand # NoSession =>
        /\ ~InMap(uReq[r].cand)
        /\ \A p \in UReqs \ {r} : uReq[p].cand # uReq[r].cand
        /\ uReq[r].pc \in Inserting => \A p \in UReqs : uReq[p].sess # uReq[r].cand

\* Whether its connection is open.
SessionsInHand ==
    \A r \in UReqs :
        /\ uReq[r].pc \in Inserting => uSess[uReq[r].cand].open
        /\ uReq[r].pc = "streaming" => uSess[uReq[r].sess].open /\ uSess[uReq[r].sess].lock = r
        /\ uReq[r].pc \in {"removing", "retrying"} => ~uSess[uReq[r].sess].open

OpenIsHeld ==
    \A s \in USessions : uSess[s].open => InMap(s) \/ \E r \in UReqs : uReq[r].cand = s

SessionsInv ==
    /\ SessionsTyped /\ RequestShape /\ CandidatesAreApart /\ SessionsInHand
    /\ OpenIsHeld /\ ClosedSessionsLeave /\ SessionsAreBounded

\* A bridge that has just been made has no session and no request.
LEMMA SessionsInitHolds == SessionsInit => SessionsInv
<1> SUFFICES ASSUME SessionsInit PROVE SessionsInv
  OBVIOUS
<1> USE UpstreamAssumption
<1>1. PICK n : n = NewRequest
  OBVIOUS
<1>2. /\ n \in URequests /\ n.pc = "new" /\ n.sess = NoSession /\ n.cand = NoSession /\ n.runs = 0
  BY <1>1 DEF NewRequest, URequests, UPlaces
<1>3. PICK u : u = Unopened
  OBVIOUS
<1>4. u \in Connections /\ u.open = FALSE
  BY <1>3 DEF Unopened, Connections
<1>5. /\ uReq = [r \in UReqs |-> n] /\ uMap = [k \in UKeys |-> NoSession] /\ uLock = NoReq
      /\ uSess = [s \in USessions |-> u]
  BY <1>1, <1>3 DEF SessionsInit
<1>6. SessionsTyped
  BY <1>2, <1>4, <1>5 DEF SessionsTyped
<1>7. RequestShape /\ CandidatesAreApart /\ SessionsInHand
  BY <1>2, <1>5 DEF RequestShape, HasAt, CandidatesAreApart, SessionsInHand, Given, Displacing, Inserting, Locking
<1>8. OpenIsHeld /\ ClosedSessionsLeave
  BY <1>4, <1>5 DEF OpenIsHeld, ClosedSessionsLeave, InMap
<1>9. SessionsAreBounded
  <2>1. Mapped = {}
    BY <1>5 DEF Mapped
  <2> QED BY <2>1, FS_EmptySet DEF SessionsAreBounded
<1> QED BY <1>6, <1>7, <1>8, <1>9 DEF SessionsInv

\* Keys that lose their session make the map smaller.
LEMMA MapShrinks ==
    ASSUME \A k \in UKeys : uMap'[k] # NoSession => uMap[k] # NoSession
    PROVE  /\ Cardinality(Mapped') \in Nat /\ Cardinality(Mapped) \in Nat
           /\ Cardinality(Mapped') <= Cardinality(Mapped)
<1>1. Mapped' \subseteq Mapped /\ Mapped \subseteq UKeys
  BY DEF Mapped
<1>2. IsFiniteSet(Mapped)
  BY <1>1, FS_Subset, UpstreamAssumption
<1>3. IsFiniteSet(Mapped') /\ Cardinality(Mapped') <= Cardinality(Mapped)
  BY <1>1, <1>2, FS_Subset
<1> QED BY <1>2, <1>3, FS_CardinalityType

\* What the request p may do in a step that closes the sessions in C: nobody was
\* about to insert one or streaming over one, and whoever lets go of a session
\* in hand, or of one that is to be removed, closes it.
LetsGo(p, C) ==
    /\ uReq'[p].cand # NoSession =>
         uReq'[p].cand = uReq[p].cand /\ (uReq'[p].pc \in Inserting => uReq[p].pc \in Inserting)
    /\ uReq'[p].sess # NoSession => uReq'[p].sess = uReq[p].sess \/ InMap(uReq'[p].sess)
    /\ uReq[p].cand # NoSession /\ uReq'[p].cand = NoSession => uReq[p].cand \in C
    /\ uReq'[p].pc \in Inserting => uReq'[p].cand \notin C
    /\ uReq'[p].pc = "streaming" =>
         uReq[p].pc = "streaming" /\ uReq'[p].sess = uReq[p].sess /\ uReq[p].sess \notin C
    /\ uReq'[p].pc \in {"removing", "retrying"} => ~uSess[uReq'[p].sess].open
    /\ uReq[p].pc = "removing" /\ uReq'[p].pc # "removing" => uReq[p].sess \in C
    /\ uReq[p].pc = "removing" /\ uReq'[p].pc = "removing" => uReq'[p].sess = uReq[p].sess

\* A step that closes the sessions in C and takes them out of the map.
LEMMA ClosingKeeps ==
    ASSUME SessionsInv, NEW C \in SUBSET USessions,
           uReq' \in [UReqs -> URequests], RequestShape', uLock' \in UReqs \union {NoReq},
           uMap' \in [UKeys -> USessions \union {NoSession}], uSess' \in [USessions -> Connections],
           \A s \in USessions : s \notin C => uSess'[s] = uSess[s],
           \A s \in C : ~uSess'[s].open,
           \A k \in UKeys : uMap'[k] = IF uMap[k] \in C THEN NoSession ELSE uMap[k],
           \A p \in UReqs : LetsGo(p, C),
           uLock' = NoReq => Cardinality(Mapped) <= kPersistentBridgeMaxSessions
    PROVE  SessionsInv'
<1> USE UpstreamAssumption DEF LetsGo
<1>1. SessionsTyped'
  BY DEF SessionsTyped
<1>2. \A s \in USessions : InMap(s)' <=> InMap(s) /\ s \notin C
  BY DEF InMap, SessionsInv, SessionsTyped
<1>3. \A p \in UReqs : uReq[p].cand \in USessions \union {NoSession} /\ uReq[p].sess \in USessions \union {NoSession}
                       /\ uReq'[p].cand \in USessions \union {NoSession}
                       /\ uReq'[p].sess \in USessions \union {NoSession}
  BY DEF SessionsInv, SessionsTyped, URequests
<1>4. CandidatesAreApart'
  BY <1>2, <1>3 DEF SessionsInv, CandidatesAreApart
<1>5. SessionsInHand'
  <2>1. ASSUME NEW p \in UReqs, uReq'[p].pc \in Inserting
        PROVE  uSess'[uReq'[p].cand].open
    <3>1. uReq'[p].cand # NoSession
      BY <2>1 DEF RequestShape, HasAt
    <3> QED BY <1>3, <2>1, <3>1 DEF SessionsInv, SessionsInHand
  <2>2. ASSUME NEW p \in UReqs, uReq'[p].pc = "streaming"
        PROVE  uSess'[uReq'[p].sess].open /\ uSess'[uReq'[p].sess].lock = p
    <3>1. uReq'[p].sess # NoSession
      BY <2>2 DEF RequestShape, HasAt, Given
    <3> QED BY <1>3, <2>2, <3>1 DEF SessionsInv, SessionsInHand
  <2>3. ASSUME NEW p \in UReqs, uReq'[p].pc \in {"removing", "retrying"}
        PROVE  ~uSess'[uReq'[p].sess].open
    <3>1. uReq'[p].sess # NoSession
      BY <2>3 DEF RequestShape, HasAt, Given
    <3> QED BY <1>3, <2>3, <3>1
  <2> QED BY <2>1, <2>2, <2>3 DEF SessionsInHand
<1>6. OpenIsHeld'
  <2>1. SUFFICES ASSUME NEW s \in USessions, uSess'[s].open, ~InMap(s)'
                 PROVE  \E r \in UReqs : uReq'[r].cand = s
    BY DEF OpenIsHeld
  <2>2. s \notin C /\ uSess[s].open /\ ~InMap(s)
    BY <1>2, <2>1
  <2>3. PICK r \in UReqs : uReq[r].cand = s
    BY <2>2 DEF SessionsInv, OpenIsHeld
  <2> QED BY <2>2, <2>3
<1>7. ClosedSessionsLeave'
  <2>1. SUFFICES ASSUME NEW s \in USessions, InMap(s)', ~uSess'[s].open
                 PROVE  \E r \in UReqs : uReq'[r].pc = "removing" /\ uReq'[r].sess = s
    BY DEF ClosedSessionsLeave
  <2>2. s \notin C /\ ~uSess[s].open /\ InMap(s)
    BY <1>2, <2>1
  <2>3. PICK r \in UReqs : uReq[r].pc = "removing" /\ uReq[r].sess = s
    BY <2>2 DEF SessionsInv, ClosedSessionsLeave
  <2> QED BY <2>2, <2>3
<1>8. SessionsAreBounded'
  <2>1. Cardinality(Mapped') \in Nat /\ Cardinality(Mapped) \in Nat
        /\ Cardinality(Mapped') <= Cardinality(Mapped)
    BY MapShrinks
  <2> QED BY <2>1 DEF SessionsAreBounded
<1> QED BY <1>1, <1>4, <1>5, <1>6, <1>7, <1>8 DEF SessionsInv

\* One request moves.
LEMMA MoveOne ==
    ASSUME SessionsInv, NEW r \in UReqs, NEW h \in URequests, USet(r, h), HasAt(h),
           h.pc \in Locking => uLock' = r, uLock' = uLock \/ uLock \in {r, NoReq}
    PROVE  /\ uReq' \in [UReqs -> URequests]
           /\ \A p \in UReqs : uReq'[p] = IF p = r THEN h ELSE uReq[p]
           /\ RequestShape'
<1>1. /\ uReq' \in [UReqs -> URequests]
      /\ \A p \in UReqs : uReq'[p] = IF p = r THEN h ELSE uReq[p]
  BY DEF USet, SessionsInv, SessionsTyped
<1> QED BY <1>1, UpstreamAssumption DEF SessionsInv, RequestShape

\* One request moves, and map and sessions stay.
LEMMA QuietMove ==
    ASSUME SessionsInv, NEW r \in UReqs, NEW h \in URequests, USet(r, h), HasAt(h),
           h.pc \in Locking => uLock' = r, uLock' = uLock \/ uLock \in {r, NoReq},
           uLock' \in UReqs \union {NoReq}, UNCHANGED <<uMap, uSess>>,
           h.cand = uReq[r].cand, h.pc \in Inserting => uReq[r].pc \in Inserting,
           h.sess # NoSession => h.sess = uReq[r].sess \/ InMap(h.sess), h.pc # "streaming",
           uReq[r].pc # "removing", h.pc \in {"removing", "retrying"} => ~uSess[h.sess].open,
           uLock' = NoReq => Cardinality(Mapped) <= kPersistentBridgeMaxSessions
    PROVE  SessionsInv'
<1>1. /\ uReq' \in [UReqs -> URequests] /\ RequestShape'
      /\ \A p \in UReqs : uReq'[p] = IF p = r THEN h ELSE uReq[p]
  BY MoveOne
<1>2. uMap' \in [UKeys -> USessions \union {NoSession}] /\ uSess' \in [USessions -> Connections]
  BY DEF SessionsInv, SessionsTyped
<1>3. \A p \in UReqs :
        /\ uReq'[p].cand # NoSession =>
             uReq'[p].cand = uReq[p].cand /\ (uReq'[p].pc \in Inserting => uReq[p].pc \in Inserting)
        /\ uReq'[p].sess # NoSession => uReq'[p].sess = uReq[p].sess \/ InMap(uReq'[p].sess)
        /\ uReq[p].cand # NoSession => uReq'[p].cand # NoSession
        /\ uReq'[p].pc = "streaming" => uReq[p].pc = "streaming" /\ uReq'[p].sess = uReq[p].sess
        /\ uReq'[p].pc \in {"removing", "retrying"} => ~uSess[uReq'[p].sess].open
        /\ uReq[p].pc = "removing" => uReq'[p].pc = "removing" /\ uReq'[p].sess = uReq[p].sess
  BY <1>1 DEF SessionsInv, SessionsInHand
<1> DEFINE C == {}
<1>4. /\ C \in SUBSET USessions /\ \A s \in C : ~uSess'[s].open
      /\ \A s \in USessions : s \notin C => uSess'[s] = uSess[s]
      /\ \A k \in UKeys : uMap'[k] = IF uMap[k] \in C THEN NoSession ELSE uMap[k]
  OBVIOUS
<1>5. \A s : s \notin C
  OBVIOUS
<1> HIDE DEF C
<1>6. \A p \in UReqs : LetsGo(p, C)
  BY <1>3, <1>5 DEF LetsGo
<1> QED BY <1>1, <1>2, <1>4, <1>6, ClosingKeeps

\* A request and its session, read from the invariant.
LEMMA RequestOf ==
    ASSUME SessionsInv, NEW r \in UReqs
    PROVE  /\ uReq[r] \in URequests /\ HasAt(uReq[r]) /\ (uReq[r].pc \in Locking => uLock = r)
           /\ uMap \in [UKeys -> USessions \union {NoSession}] /\ uLock \in UReqs \union {NoReq}
           /\ uSess \in [USessions -> Connections]
           /\ uReq[r].pc \in Given => uReq[r].sess \in USessions
           /\ uReq[r].pc \in Displacing \union Inserting => uReq[r].cand \in USessions
           /\ uReq[r].pc \notin {"new", "done"} => uReq[r].key \in UKeys
  BY DEF SessionsInv, SessionsTyped, RequestShape, HasAt, URequests

\* A request that is new, or has been answered, holds nothing.
LEMMA FreshRequest ==
    /\ NewRequest \in URequests /\ HasAt(NewRequest)
    /\ NewRequest.sess = NoSession /\ NewRequest.cand = NoSession /\ NewRequest.runs = 0
    /\ NewRequest.pc = "new"
    /\ [NewRequest EXCEPT !.pc = "done"] \in URequests /\ HasAt([NewRequest EXCEPT !.pc = "done"])
    /\ [NewRequest EXCEPT !.pc = "done"].pc = "done"
    /\ [NewRequest EXCEPT !.pc = "done"].sess = NoSession
    /\ [NewRequest EXCEPT !.pc = "done"].cand = NoSession
<1>1. /\ NewRequest \in URequests
      /\ NewRequest.sess = NoSession /\ NewRequest.cand = NoSession /\ NewRequest.runs = 0
      /\ NewRequest.pc = "new"
  BY DEF NewRequest, URequests, UPlaces
<1>2. PICK d : d = [NewRequest EXCEPT !.pc = "done"]
  OBVIOUS
<1>3. d \in URequests /\ d.pc = "done" /\ d.sess = NoSession /\ d.cand = NoSession
  BY <1>1, <1>2 DEF URequests, UPlaces
<1>4. HasAt(NewRequest) /\ HasAt(d)
  BY <1>1, <1>3 DEF HasAt, Given, Displacing, Inserting
<1> QED BY <1>1, <1>2, <1>3, <1>4

\* A request that moves without changing what it has.
LEMMA Goes ==
    ASSUME NEW q \in URequests, NEW pc \in UPlaces
    PROVE  LET h == [q EXCEPT !.pc = pc] IN
           /\ h \in URequests /\ h.pc = pc /\ h.key = q.key /\ h.sess = q.sess /\ h.cand = q.cand
           /\ h.runs = q.runs
  BY DEF URequests

\* A request arrives.
LEMMA ExecuteKeeps ==
    ASSUME SessionsInv, NEW r \in UReqs, NEW k \in UKeys, NEW a \in UAccounts,
           NEW previous \in BOOLEAN, NEW create \in BOOLEAN,
           ExecuteOverBridge(r, k, a, previous, create)
    PROVE  SessionsInv'
<1>1. PICK g : g = [NewRequest EXCEPT !.pc = "lookup", !.key = k]
  OBVIOUS
<1>2. /\ g \in URequests /\ g.pc = "lookup" /\ g.key = k /\ g.sess = NoSession /\ g.cand = NoSession
      /\ g.runs = 0
  BY <1>1, FreshRequest DEF URequests, UPlaces
<1>3. PICK f : f = [g EXCEPT !.account = a, !.previous = previous]
  OBVIOUS
<1>4. /\ f \in URequests /\ f.pc = "lookup" /\ f.key = k /\ f.sess = NoSession /\ f.cand = NoSession
      /\ f.runs = 0
  BY <1>2, <1>3 DEF URequests
<1>5. PICK h : h = [f EXCEPT !.create = create]
  OBVIOUS
<1>6. /\ h \in URequests /\ h.pc = "lookup" /\ h.key = k /\ h.sess = NoSession /\ h.cand = NoSession
      /\ h.runs = 0
  BY <1>4, <1>5 DEF URequests
<1>7. h = [NewRequest EXCEPT !.pc = "lookup", !.key = k, !.account = a, !.previous = previous,
                             !.create = create]
  BY <1>1, <1>3, <1>5, FreshRequest DEF URequests
<1>8. HasAt(h)
  BY <1>6 DEF HasAt, Given, Displacing, Inserting
<1>9. uReq[r].pc = "new" /\ uReq[r].cand = NoSession
  BY RequestOf DEF ExecuteOverBridge, UAt, HasAt, Displacing, Inserting
<1>10. USet(r, h) /\ UNCHANGED <<uMap, uLock, uSess>>
  BY <1>7 DEF ExecuteOverBridge
<1>11. uLock' = NoReq => Cardinality(Mapped) <= kPersistentBridgeMaxSessions
  BY <1>10 DEF SessionsInv, SessionsAreBounded
<1> QED BY <1>6, <1>8, <1>9, <1>10, <1>11, RequestOf, QuietMove DEF Locking, Inserting

\* The map's mutex is taken.
LEMMA LockBridgeKeeps == ASSUME SessionsInv, NEW r \in UReqs, LockBridge(r) PROVE SessionsInv'
<1>1. PICK pc \in {"purging", "purging2"} :
        /\ (pc = "purging2" <=> uReq[r].pc = "insert") /\ (pc = "purging" <=> uReq[r].pc = "lookup")
        /\ USet(r, [uReq[r] EXCEPT !.pc = pc])
        /\ uReq[r].pc \in {"lookup", "insert"} /\ uLock = NoReq /\ uLock' = r
        /\ UNCHANGED <<uMap, uSess>>
  BY DEF LockBridge, Goto, UAt
<1>2. PICK h : h = [uReq[r] EXCEPT !.pc = pc]
  OBVIOUS
<1>3. /\ h \in URequests /\ h.pc = pc /\ h.key = uReq[r].key /\ h.sess = uReq[r].sess
      /\ h.cand = uReq[r].cand /\ h.runs = uReq[r].runs
  BY <1>2, RequestOf, Goes DEF UPlaces, Inserting
<1>4. HasAt(h)
  BY <1>1, <1>3, RequestOf DEF HasAt, Given, Displacing, Inserting
<1> QED BY <1>1, <1>2, <1>3, <1>4, UpstreamAssumption, QuietMove, RequestOf DEF Inserting, Locking, HasAt, Given

\* The session of the key is used, or taken out of the map, or there is none.
LEMMA FindSessionKeeps == ASSUME SessionsInv, NEW r \in UReqs, FindSession(r) PROVE SessionsInv'
<1> USE UpstreamAssumption
<1>1. PICK q : q = uReq[r]
  OBVIOUS
<1>2. /\ q \in URequests /\ q.pc = "purging" /\ q.sess = NoSession /\ q.cand = NoSession
      /\ q.key \in UKeys /\ q.runs <= 1 /\ uLock = r
  BY <1>1, RequestOf DEF FindSession, UAt, HasAt, Given, Displacing, Inserting, Locking
<1>3. /\ uLock' = NoReq /\ uSess' = uSess
      /\ Cardinality(Mapped) <= kPersistentBridgeMaxSessions
  BY DEF FindSession, Trimmed
<1>4. PICK s \in USessions \union {NoSession} : s = uMap[q.key]
  BY <1>2, RequestOf
<1>5. \/ s # NoSession /\ USet(r, [q EXCEPT !.pc = "run", !.sess = s]) /\ uMap' = uMap
      \/ /\ s # NoSession /\ USet(r, [q EXCEPT !.pc = "displacing", !.cand = s])
         /\ uMap' = Erased(s)
      \/ s = NoSession /\ USet(r, [q EXCEPT !.pc = "connect"]) /\ uMap' = uMap
  BY <1>1, <1>4 DEF FindSession, Goto
<1>6. CASE s # NoSession /\ USet(r, [q EXCEPT !.pc = "run", !.sess = s]) /\ uMap' = uMap
  <2>1. PICK h : h = [q EXCEPT !.pc = "run", !.sess = s]
    OBVIOUS
  <2>2. h \in URequests /\ h.pc = "run" /\ h.sess = s /\ h.cand = NoSession /\ h.key = q.key /\ h.runs = q.runs
    BY <1>2, <2>1 DEF URequests, UPlaces, Given
  <2>3. HasAt(h)
    BY <1>2, <1>6, <2>2 DEF HasAt, Given, Displacing, Inserting
  <2>4. InMap(s)
    BY <1>2, <1>4 DEF InMap
  <2> QED BY <1>1, <1>2, <1>3, <1>6, <2>1, <2>2, <2>3, <2>4, QuietMove DEF Locking, Inserting
<1>7. CASE s = NoSession /\ USet(r, [q EXCEPT !.pc = "connect"]) /\ uMap' = uMap
  <2>1. PICK h : h = [q EXCEPT !.pc = "connect"]
    OBVIOUS
  <2>2. /\ h \in URequests /\ h.pc = "connect" /\ h.sess = NoSession /\ h.cand = NoSession
        /\ h.key = q.key /\ h.runs = q.runs
    BY <1>2, <2>1 DEF URequests, UPlaces
  <2>3. HasAt(h)
    BY <1>2, <2>2 DEF HasAt, Given, Displacing, Inserting
  <2> QED BY <1>1, <1>2, <1>3, <1>7, <2>1, <2>2, <2>3, QuietMove DEF Locking, Inserting
<1>8. CASE s # NoSession /\ USet(r, [q EXCEPT !.pc = "displacing", !.cand = s]) /\ uMap' = Erased(s)
  <2>1. PICK h : h = [q EXCEPT !.pc = "displacing", !.cand = s]
    OBVIOUS
  <2>2. /\ h \in URequests /\ h.pc = "displacing" /\ h.sess = NoSession /\ h.cand = s
        /\ h.key = q.key /\ h.runs = q.runs
    BY <1>2, <2>1 DEF URequests, UPlaces, Displacing
  <2>3. HasAt(h)
    BY <1>2, <1>8, <2>2 DEF HasAt, Given, Displacing, Inserting
  <2>4. /\ uReq' \in [UReqs -> URequests] /\ RequestShape'
        /\ \A p \in UReqs : uReq'[p] = IF p = r THEN h ELSE uReq[p]
    BY <1>2, <1>3, <1>8, <2>1, <2>2, <2>3, MoveOne DEF Locking
  <2>5. /\ uMap' \in [UKeys -> USessions \union {NoSession}]
        /\ \A k \in UKeys : uMap'[k] = IF uMap[k] = s THEN NoSession ELSE uMap[k]
    BY <1>8, RequestOf DEF Erased
  <2>6. InMap(s) /\ \A z \in USessions : InMap(z)' <=> InMap(z) /\ z # s
    BY <1>2, <1>4, <1>8, <2>5 DEF InMap
  <2>7. SessionsTyped'
    BY <1>3, <2>4, <2>5 DEF SessionsInv, SessionsTyped
  <2>8. \A p \in UReqs : uReq[p].cand # s
    BY <1>8, <2>6 DEF SessionsInv, CandidatesAreApart
  <2>9. CandidatesAreApart'
    <3>1. \A p \in UReqs : uReq[p].cand \in USessions \union {NoSession}
      BY RequestOf DEF URequests
    <3> QED BY <1>2, <1>4, <1>8, <2>2, <2>4, <2>6, <2>8, <3>1
            DEF SessionsInv, CandidatesAreApart, Inserting
  <2>10. SessionsInHand'
    BY <1>3, <2>2, <2>4 DEF SessionsInv, SessionsInHand, Inserting
  <2>11. OpenIsHeld'
    BY <1>1, <1>2, <1>3, <1>4, <2>2, <2>4, <2>6 DEF SessionsInv, OpenIsHeld
  <2>12. ClosedSessionsLeave'
    BY <1>1, <1>2, <1>3, <2>4, <2>6 DEF SessionsInv, ClosedSessionsLeave
  <2>13. SessionsAreBounded'
    <3>1. \A k \in UKeys : uMap'[k] # NoSession => uMap[k] # NoSession
      BY <2>5
    <3> QED BY <1>3, <3>1, MapShrinks DEF SessionsAreBounded
  <2> QED BY <2>4, <2>7, <2>9, <2>10, <2>11, <2>12, <2>13 DEF SessionsInv
<1> QED BY <1>5, <1>6, <1>7, <1>8

\* The state of a session that is closed.
LEMMA UnopenedTyped == Unopened \in Connections /\ Unopened.open = FALSE
  BY DEF Unopened, Connections

\* A connection is opened for a session nobody knows.
LEMMA OpenConnectionKeeps ==
    ASSUME SessionsInv, NEW r \in UReqs, NEW s \in USessions, OpenConnection(r, s)
    PROVE  SessionsInv'
<1> USE UpstreamAssumption
<1>1. PICK q : q = uReq[r]
  OBVIOUS
<1>2. /\ q \in URequests /\ q.pc = "connect" /\ q.sess = NoSession /\ q.cand = NoSession
      /\ q.key \in UKeys /\ q.runs <= 1 /\ q.account \in UAccounts \union {NoReq}
  BY <1>1, RequestOf DEF OpenConnection, UAt, HasAt, Given, Displacing, Inserting, URequests
<1>3. /\ ~InMap(s) /\ \A p \in UReqs : uReq[p].sess # s /\ uReq[p].cand # s
  BY DEF OpenConnection, Fresh
<1>4. PICK h : h = [q EXCEPT !.pc = "insert", !.cand = s]
  OBVIOUS
<1>5. /\ h \in URequests /\ h.pc = "insert" /\ h.sess = NoSession /\ h.cand = s
      /\ h.key = q.key /\ h.runs = q.runs
  BY <1>2, <1>4 DEF URequests, UPlaces, Inserting
<1>6. HasAt(h)
  BY <1>2, <1>5 DEF HasAt, Given, Displacing, Inserting
<1>7. USet(r, h) /\ UNCHANGED <<uMap, uLock>>
  BY <1>1, <1>4 DEF OpenConnection
<1>8. /\ uReq' \in [UReqs -> URequests] /\ RequestShape'
      /\ \A p \in UReqs : uReq'[p] = IF p = r THEN h ELSE uReq[p]
  BY <1>5, <1>6, <1>7, MoveOne DEF Locking
<1>9. PICK u : u = [Unopened EXCEPT !.open = TRUE, !.account = q.account]
  OBVIOUS
<1>10. u \in Connections /\ u.open = TRUE
  BY <1>2, <1>9, UnopenedTyped DEF Connections
<1>11. /\ uSess' \in [USessions -> Connections]
       /\ \A z \in USessions : uSess'[z] = IF z = s THEN u ELSE uSess[z]
  BY <1>1, <1>9, <1>10, RequestOf DEF OpenConnection
<1>12. SessionsTyped'
  BY <1>7, <1>8, <1>11 DEF SessionsInv, SessionsTyped
<1>13. CandidatesAreApart'
  BY <1>1, <1>2, <1>3, <1>5, <1>7, <1>8 DEF SessionsInv, CandidatesAreApart, InMap
<1>14. SessionsInHand'
  <2>1. \A p \in UReqs \ {r} : uReq[p].pc \in Inserting => uReq[p].cand \in USessions
    BY RequestOf
  <2>2. \A p \in UReqs \ {r} : uReq[p].pc \in Given => uReq[p].sess \in USessions
    BY RequestOf
  <2> QED BY <1>3, <1>5, <1>8, <1>10, <1>11, <2>1, <2>2 DEF SessionsInv, SessionsInHand, Inserting, Given
<1>15. OpenIsHeld'
  BY <1>1, <1>2, <1>5, <1>7, <1>8, <1>11 DEF SessionsInv, OpenIsHeld, InMap
<1>16. ClosedSessionsLeave'
  BY <1>1, <1>2, <1>3, <1>7, <1>8, <1>11 DEF SessionsInv, ClosedSessionsLeave, InMap
<1>17. SessionsAreBounded'
  BY <1>7 DEF SessionsInv, SessionsAreBounded, Mapped
<1> QED BY <1>8, <1>12, <1>13, <1>14, <1>15, <1>16, <1>17 DEF SessionsInv

\* No connection: the request is answered.
LEMMA OpenFailsKeeps == ASSUME SessionsInv, NEW r \in UReqs, OpenFails(r) PROVE SessionsInv'
<1>1. PICK h : h = [NewRequest EXCEPT !.pc = "done"]
  OBVIOUS
<1>2. h \in URequests /\ HasAt(h) /\ h.pc = "done" /\ h.sess = NoSession /\ h.cand = NoSession
  BY <1>1, FreshRequest
<1>3. uReq[r].pc = "connect" /\ uReq[r].cand = NoSession
  BY RequestOf DEF OpenFails, UAt, HasAt, Displacing, Inserting
<1>4. USet(r, h) /\ UNCHANGED <<uMap, uLock, uSess>>
  BY <1>1 DEF OpenFails, Finished
<1>5. uLock' = NoReq => Cardinality(Mapped) <= kPersistentBridgeMaxSessions
  BY <1>4 DEF SessionsInv, SessionsAreBounded
<1> QED BY <1>2, <1>3, <1>4, <1>5, RequestOf, QuietMove DEF Locking, Inserting

\* try_emplace: the connection goes into the map, or is somebody else's.
LEMMA InsertSessionKeeps == ASSUME SessionsInv, NEW r \in UReqs, InsertSession(r) PROVE SessionsInv'
<1> USE UpstreamAssumption
<1>1. PICK q : q = uReq[r]
  OBVIOUS
<1>2. /\ q \in URequests /\ q.pc = "purging2" /\ q.sess = NoSession /\ q.cand \in USessions
      /\ q.key \in UKeys /\ q.runs <= 1 /\ uLock = r
  BY <1>1, RequestOf DEF InsertSession, UAt, HasAt, Given, Displacing, Inserting, Locking
<1>3. uSess' = uSess /\ Cardinality(Mapped) <= kPersistentBridgeMaxSessions
  BY DEF InsertSession, Trimmed
<1>4. CASE uMap[q.key] # NoSession
  <2>1. PICK s \in USessions : s = uMap[q.key]
    BY <1>2, <1>4, RequestOf
  <2>2. PICK h : h = [q EXCEPT !.pc = "discarding", !.sess = s]
    OBVIOUS
  <2>3. USet(r, h) /\ uLock' = NoReq /\ uMap' = uMap
    BY <1>1, <1>4, <2>1, <2>2 DEF InsertSession
  <2>4. /\ h \in URequests /\ h.pc = "discarding" /\ h.sess = s /\ h.cand = q.cand
        /\ h.key = q.key /\ h.runs = q.runs
    BY <1>2, <2>2 DEF URequests, UPlaces, Inserting
  <2>5. HasAt(h)
    BY <1>2, <2>4 DEF HasAt, Given, Displacing, Inserting
  <2>6. InMap(s)
    BY <1>2, <2>1 DEF InMap
  <2> QED BY <1>1, <1>2, <1>3, <2>3, <2>4, <2>5, <2>6, QuietMove DEF Locking, Inserting
<1>5. CASE uMap[q.key] = NoSession
  <2>1. PICK s \in USessions : s = q.cand
    BY <1>2
  <2>2. PICK h : h = [q EXCEPT !.pc = "trimming", !.sess = s, !.cand = NoSession]
    OBVIOUS
  <2>3. USet(r, h) /\ uLock' = uLock /\ uMap' = [uMap EXCEPT ![q.key] = s]
    BY <1>1, <1>5, <2>1, <2>2 DEF InsertSession
  <2>4. /\ h \in URequests /\ h.pc = "trimming" /\ h.sess = s /\ h.cand = NoSession
        /\ h.key = q.key /\ h.runs = q.runs
    <3>1. PICK g : g = [q EXCEPT !.pc = "trimming", !.sess = s]
      OBVIOUS
    <3>2. /\ g \in URequests /\ g.pc = "trimming" /\ g.sess = s /\ g.key = q.key /\ g.runs = q.runs
      BY <1>2, <3>1 DEF URequests, UPlaces, Given
    <3>3. h = [g EXCEPT !.cand = NoSession]
      BY <1>2, <2>2, <3>1 DEF URequests
    <3> QED BY <3>2, <3>3 DEF URequests
  <2>5. HasAt(h)
    BY <1>2, <2>4 DEF HasAt, Given, Displacing, Inserting
  <2>6. /\ uReq' \in [UReqs -> URequests] /\ RequestShape'
        /\ \A p \in UReqs : uReq'[p] = IF p = r THEN h ELSE uReq[p]
    BY <1>2, <2>3, <2>4, <2>5, MoveOne DEF Locking
  <2>7. /\ uMap' \in [UKeys -> USessions \union {NoSession}]
        /\ \A k \in UKeys : uMap'[k] = IF k = q.key THEN s ELSE uMap[k]
    BY <1>2, <2>3, RequestOf
  <2>8. \A z \in USessions : InMap(z)' <=> InMap(z) \/ z = s
    BY <1>2, <1>5, <2>7 DEF InMap
  <2>9. SessionsTyped'
    BY <1>2, <1>3, <2>3, <2>6, <2>7 DEF SessionsInv, SessionsTyped
  <2>10. /\ uSess[s].open /\ \A p \in UReqs : p # r => uReq[p].cand # s
         /\ \A p \in UReqs : uReq[p].sess # s
    BY <1>1, <1>2, <2>1 DEF SessionsInv, SessionsInHand, CandidatesAreApart, Inserting
  <2>11. CandidatesAreApart'
    <3>1. \A p \in UReqs : uReq[p].cand \in USessions \union {NoSession}
      BY RequestOf DEF URequests
    <3> QED BY <2>4, <2>6, <2>8, <2>10, <3>1 DEF SessionsInv, CandidatesAreApart
  <2>12. SessionsInHand'
    BY <1>3, <2>4, <2>6 DEF SessionsInv, SessionsInHand, Inserting
  <2>13. OpenIsHeld'
    BY <1>1, <1>3, <2>1, <2>6, <2>8 DEF SessionsInv, OpenIsHeld
  <2>14. ClosedSessionsLeave'
    BY <1>1, <1>2, <1>3, <2>6, <2>8, <2>10 DEF SessionsInv, ClosedSessionsLeave
  <2>15. SessionsAreBounded'
    BY <1>2, <2>3 DEF SessionsAreBounded
  <2> QED BY <2>6, <2>9, <2>11, <2>12, <2>13, <2>14, <2>15 DEF SessionsInv
<1> QED BY <1>4, <1>5

\* The map has its size again, and its mutex is released.
LEMMA InsertedKeeps == ASSUME SessionsInv, NEW r \in UReqs, InsertedAndTrimmed(r) PROVE SessionsInv'
<1>1. /\ uReq[r].pc = "trimming" /\ uLock' = NoReq /\ UNCHANGED <<uMap, uSess>>
      /\ USet(r, [uReq[r] EXCEPT !.pc = "run"])
      /\ Cardinality(Mapped) <= kPersistentBridgeMaxSessions
  BY DEF InsertedAndTrimmed, Goto, UAt
<1>2. PICK h : h = [uReq[r] EXCEPT !.pc = "run"]
  OBVIOUS
<1>3. /\ h \in URequests /\ h.pc = "run" /\ h.key = uReq[r].key /\ h.sess = uReq[r].sess
      /\ h.cand = uReq[r].cand /\ h.runs = uReq[r].runs
  BY <1>2, RequestOf, Goes DEF UPlaces, Given
<1>4. HasAt(h) /\ uLock = r
  BY <1>1, <1>3, RequestOf DEF HasAt, Given, Displacing, Inserting, Locking
<1> QED BY <1>1, <1>2, <1>3, <1>4, QuietMove DEF Inserting, Locking

\* A session in hand is closed: the one displaced, or the one not needed.
LEMMA CloseInHandKeeps ==
    ASSUME SessionsInv, NEW r \in UReqs, DisplaceSession(r) \/ DiscardCandidate(r)
    PROVE  SessionsInv'
<1> USE UpstreamAssumption
<1>1. PICK q : q = uReq[r]
  OBVIOUS
<1>2. /\ q \in URequests /\ q.pc \in {"displacing", "discarding"} /\ q.cand \in USessions
      /\ q.key \in UKeys /\ q.runs <= 1 /\ (q.sess # NoSession <=> q.pc = "discarding")
  BY <1>1, RequestOf DEF DisplaceSession, DiscardCandidate, UAt, HasAt, Given, Displacing, Inserting
<1>3. PICK pc \in {"connect", "run"} :
        /\ (pc = "run" <=> q.pc = "discarding")
        /\ USet(r, [q EXCEPT !.pc = pc, !.cand = NoSession])
        /\ uSess' = [uSess EXCEPT ![q.cand] = Unopened] /\ UNCHANGED <<uMap, uLock>>
        /\ (q.pc = "displacing" => uSess[q.cand].lock = NoReq)
  BY <1>1, <1>2 DEF DisplaceSession, DiscardCandidate, UAt, CloseConnection
<1>4. PICK h : h = [q EXCEPT !.pc = pc, !.cand = NoSession]
  OBVIOUS
<1>5. h \in URequests /\ h.pc = pc /\ h.sess = q.sess /\ h.cand = NoSession /\ h.key = q.key /\ h.runs = q.runs
  BY <1>2, <1>4 DEF URequests, UPlaces, Given
<1>6. HasAt(h)
  BY <1>2, <1>3, <1>5 DEF HasAt, Given, Displacing, Inserting
<1>7. /\ uReq' \in [UReqs -> URequests] /\ RequestShape'
      /\ \A p \in UReqs : uReq'[p] = IF p = r THEN h ELSE uReq[p]
  BY <1>3, <1>4, <1>5, <1>6, MoveOne DEF Locking
<1>8. PICK C \in SUBSET USessions : C = {q.cand}
  BY <1>2
<1>9. /\ uSess' \in [USessions -> Connections] /\ \A s \in C : ~uSess'[s].open
      /\ \A s \in USessions : s \notin C => uSess'[s] = uSess[s]
  BY <1>2, <1>3, <1>8, RequestOf, UnopenedTyped
<1>10. /\ uMap' \in [UKeys -> USessions \union {NoSession}]
       /\ \A k \in UKeys : uMap'[k] = IF uMap[k] \in C THEN NoSession ELSE uMap[k]
  <2>1. \A k \in UKeys : uMap[k] \notin C
    BY <1>1, <1>2, <1>8 DEF SessionsInv, CandidatesAreApart, InMap
  <2> QED BY <1>3, <2>1, RequestOf
<1>11. uLock' = NoReq => Cardinality(Mapped) <= kPersistentBridgeMaxSessions
  BY <1>3 DEF SessionsInv, SessionsAreBounded
<1>12. \A p \in UReqs : p # r =>
         /\ uReq[p].pc \in Inserting => uReq[p].cand \notin C
         /\ uReq[p].pc = "streaming" => uReq[p].sess \notin C
  <2>1. \A p \in UReqs : p # r => uReq[p].cand # q.cand
    BY <1>1, <1>2 DEF SessionsInv, CandidatesAreApart
  <2>2. ASSUME NEW p \in UReqs, uReq[p].pc = "streaming", uReq[p].sess = q.cand
        PROVE  FALSE
    <3>1. uSess[q.cand].lock = p
      BY <2>2 DEF SessionsInv, SessionsInHand
    <3>2. CASE q.pc = "displacing"
      BY <1>3, <3>1, <3>2
    <3>3. CASE q.pc = "discarding"
      BY <1>1, <1>2, <2>2, <3>3 DEF SessionsInv, CandidatesAreApart, Inserting
    <3> QED BY <1>2, <3>2, <3>3
  <2> QED BY <1>8, <2>1, <2>2
<1>13. \A p \in UReqs :
         /\ uReq[p].pc \in {"removing", "retrying"} => ~uSess[uReq[p].sess].open
  BY DEF SessionsInv, SessionsInHand
<1>14. \A p \in UReqs : LetsGo(p, C)
  BY <1>1, <1>2, <1>3, <1>5, <1>7, <1>8, <1>12, <1>13 DEF Inserting, LetsGo
<1> QED BY <1>3, <1>7, <1>9, <1>10, <1>11, <1>14, RequestOf, ClosingKeeps

\* A session that failed leaves the map, at once or again before the retry.
LEMMA RemoveKeeps ==
    ASSUME SessionsInv, NEW r \in UReqs, RemoveSession(r) \/ RetryFresh(r)
    PROVE  SessionsInv'
<1> USE UpstreamAssumption
<1>1. PICK q : q = uReq[r]
  OBVIOUS
<1>2. /\ q \in URequests /\ q.pc \in {"removing", "retrying"} /\ q.sess \in USessions
      /\ q.key \in UKeys /\ (q.pc = "retrying" => q.runs <= 1) /\ q.cand = NoSession
  BY <1>1, RequestOf DEF RemoveSession, RetryFresh, UAt, HasAt, Given, Displacing, Inserting
<1>3. /\ uSess' = [uSess EXCEPT ![q.sess] = Unopened] /\ uMap' = Erased(q.sess) /\ uLock' = uLock
  BY <1>1 DEF RemoveSession, RetryFresh, CloseConnection
<1>4. PICK h \in URequests : /\ USet(r, h) /\ HasAt(h) /\ h.pc \in {"retrying", "done", "lookup"}
                             /\ h.cand = NoSession /\ h.sess \in {q.sess, NoSession}
                             /\ (h.pc = "retrying" => h.sess = q.sess)
  <2>1. CASE RemoveSession(r) /\ q.retry /\ q.runs = 1
    <3>1. PICK h : h = [q EXCEPT !.pc = "retrying"]
      OBVIOUS
    <3>2. /\ h \in URequests /\ h.pc = "retrying" /\ h.sess = q.sess /\ h.cand = NoSession
          /\ h.key = q.key /\ h.runs = q.runs
      BY <1>2, <3>1, Goes DEF UPlaces, Given
    <3>3. HasAt(h)
      BY <1>2, <2>1, <3>2 DEF HasAt, Given, Displacing, Inserting
    <3>4. USet(r, h)
      BY <1>1, <2>1, <3>1 DEF RemoveSession, Goto
    <3> QED BY <3>2, <3>3, <3>4
  <2>2. CASE RemoveSession(r) /\ ~(q.retry /\ q.runs = 1)
    BY <1>1, <2>2, FreshRequest DEF RemoveSession, Finished
  <2>3. CASE RetryFresh(r)
    <3>1. PICK g : g = [q EXCEPT !.pc = "lookup", !.sess = NoSession]
      OBVIOUS
    <3>2. /\ g \in URequests /\ g.pc = "lookup" /\ g.sess = NoSession /\ g.cand = NoSession
          /\ g.key = q.key /\ g.runs = q.runs
      BY <1>2, <3>1 DEF URequests, UPlaces
    <3>3. PICK h : h = [g EXCEPT !.retry = FALSE]
      OBVIOUS
    <3>4. /\ h \in URequests /\ h.pc = "lookup" /\ h.sess = NoSession /\ h.cand = NoSession
          /\ h.key = q.key /\ h.runs = q.runs
      BY <3>2, <3>3 DEF URequests
    <3>5. h = [q EXCEPT !.pc = "lookup", !.sess = NoSession, !.retry = FALSE]
      BY <1>2, <3>1, <3>3 DEF URequests
    <3>6. HasAt(h)
      BY <1>1, <1>2, <2>3, <3>4 DEF RetryFresh, UAt, HasAt, Given, Displacing, Inserting
    <3>7. USet(r, h)
      BY <1>1, <2>3, <3>5 DEF RetryFresh
    <3> QED BY <3>4, <3>6, <3>7
  <2> QED BY <2>1, <2>2, <2>3
<1>5. /\ uReq' \in [UReqs -> URequests] /\ RequestShape'
      /\ \A p \in UReqs : uReq'[p] = IF p = r THEN h ELSE uReq[p]
  BY <1>3, <1>4, MoveOne DEF Locking
<1>6. PICK C \in SUBSET USessions : C = {q.sess}
  BY <1>2
<1>7. /\ uSess' \in [USessions -> Connections] /\ \A s \in C : ~uSess'[s].open
      /\ \A s \in USessions : s \notin C => uSess'[s] = uSess[s]
  BY <1>2, <1>3, <1>6, RequestOf, UnopenedTyped
<1>8. /\ uMap' \in [UKeys -> USessions \union {NoSession}]
      /\ \A k \in UKeys : uMap'[k] = IF uMap[k] \in C THEN NoSession ELSE uMap[k]
  BY <1>3, <1>6, RequestOf DEF Erased
<1>9. uLock' = NoReq => Cardinality(Mapped) <= kPersistentBridgeMaxSessions
  BY <1>3 DEF SessionsInv, SessionsAreBounded
<1>10. ~uSess[q.sess].open
  BY <1>1, <1>2 DEF SessionsInv, SessionsInHand
<1>11. \A p \in UReqs :
         /\ uReq[p].pc \in Inserting => uReq[p].cand \notin C
         /\ uReq[p].pc = "streaming" => uReq[p].sess \notin C
  <2>1. ASSUME NEW p \in UReqs, uReq[p].pc \in Inserting
        PROVE  uReq[p].cand # q.sess
    <3>1. uReq[p].cand # NoSession
      BY <2>1, RequestOf DEF HasAt
    <3> QED BY <1>1, <2>1, <3>1 DEF SessionsInv, CandidatesAreApart
  <2>2. \A p \in UReqs : uReq[p].pc = "streaming" => uReq[p].sess # q.sess
    BY <1>10 DEF SessionsInv, SessionsInHand
  <2> QED BY <1>6, <2>1, <2>2
<1>12. \A p \in UReqs :
         /\ uReq[p].pc \in {"removing", "retrying"} => ~uSess[uReq[p].sess].open
  BY DEF SessionsInv, SessionsInHand
<1>13. \A p \in UReqs : LetsGo(p, C)
  BY <1>1, <1>2, <1>4, <1>5, <1>6, <1>10, <1>11, <1>12 DEF Inserting, LetsGo
<1> QED BY <1>3, <1>5, <1>7, <1>8, <1>9, <1>13, RequestOf, ClosingKeeps

\* Sessions of the map nobody streams over are closed: by a purge, by a trim, or all of them.
LEMMA CloseMappedKeeps ==
    ASSUME SessionsInv, NEW C \in SUBSET USessions, \A s \in C : InMap(s) /\ uSess[s].lock = NoReq,
           uSess' \in [USessions -> Connections], \A s \in C : ~uSess'[s].open,
           \A s \in USessions : s \notin C => uSess'[s] = uSess[s],
           uMap' \in [UKeys -> USessions \union {NoSession}],
           \A k \in UKeys : uMap'[k] = IF uMap[k] \in C THEN NoSession ELSE uMap[k],
           UNCHANGED <<uReq, uLock>>
    PROVE  SessionsInv'
<1>1. \A p \in UReqs : uReq[p].pc \in Inserting => uReq[p].cand \notin C
  BY RequestOf DEF SessionsInv, CandidatesAreApart, HasAt
<1>2. \A p \in UReqs : uReq[p].pc = "streaming" => uReq[p].sess \notin C
  BY UpstreamAssumption DEF SessionsInv, SessionsInHand
<1>3. \A p \in UReqs : uReq[p].pc \in {"removing", "retrying"} => ~uSess[uReq[p].sess].open
  BY DEF SessionsInv, SessionsInHand
<1>4. \A p \in UReqs : LetsGo(p, C)
  BY <1>1, <1>2, <1>3 DEF LetsGo
<1>5. /\ uReq' \in [UReqs -> URequests] /\ RequestShape' /\ uLock' \in UReqs \union {NoReq}
      /\ (uLock' = NoReq => Cardinality(Mapped) <= kPersistentBridgeMaxSessions)
  BY DEF SessionsInv, SessionsTyped, RequestShape, SessionsAreBounded
<1> QED BY <1>4, <1>5, ClosingKeeps

\* A session that went stale, or the one to trim, is closed and erased under the
\* lock of the map.
LEMMA PurgeKeeps ==
    ASSUME SessionsInv, NEW r \in UReqs, NEW s \in USessions, PurgeStale(r, s) \/ TrimSession(r, s)
    PROVE  SessionsInv'
<1>1. /\ InMap(s) /\ uSess[s].lock = NoReq /\ uSess' = [uSess EXCEPT ![s] = Unopened]
      /\ uMap' = Erased(s) /\ UNCHANGED <<uReq, uLock>>
  BY DEF PurgeStale, TrimSession, StaleInMap, CloseConnection
<1>2. PICK C \in SUBSET USessions : C = {s}
  OBVIOUS
<1>3. /\ uSess' \in [USessions -> Connections] /\ \A z \in C : ~uSess'[z].open
      /\ \A z \in USessions : z \notin C => uSess'[z] = uSess[z]
  BY <1>1, <1>2, RequestOf, UnopenedTyped
<1>4. /\ uMap' \in [UKeys -> USessions \union {NoSession}]
      /\ \A k \in UKeys : uMap'[k] = IF uMap[k] \in C THEN NoSession ELSE uMap[k]
  BY <1>1, <1>2, RequestOf DEF Erased
<1>5. \A z \in C : InMap(z) /\ uSess[z].lock = NoReq
  BY <1>1, <1>2
<1> QED BY <1>1, <1>3, <1>4, <1>5, CloseMappedKeeps

\* reset(): every session of the map is closed and the map cleared.
LEMMA ResetKeeps == ASSUME SessionsInv, ResetSessions PROVE SessionsInv'
<1> USE UpstreamAssumption
<1>1. PICK C \in SUBSET USessions : C = {s \in USessions : InMap(s)}
  OBVIOUS
<1>2. uMap \in [UKeys -> USessions \union {NoSession}] /\ uSess \in [USessions -> Connections]
  BY DEF SessionsInv, SessionsTyped
<1>3. \A s \in C : InMap(s) /\ uSess[s].lock = NoReq
  BY <1>1, <1>2 DEF ResetSessions, Mapped, InMap
<1>4. /\ uSess' \in [USessions -> Connections] /\ \A s \in C : ~uSess'[s].open
      /\ \A s \in USessions : s \notin C => uSess'[s] = uSess[s]
  BY <1>1, <1>2, UnopenedTyped DEF ResetSessions
<1>5. /\ uMap' \in [UKeys -> USessions \union {NoSession}]
      /\ \A k \in UKeys : uMap'[k] = IF uMap[k] \in C THEN NoSession ELSE uMap[k]
  BY <1>1, <1>2 DEF ResetSessions, InMap
<1>6. UNCHANGED <<uReq, uLock>>
  BY DEF ResetSessions
<1> QED BY <1>3, <1>4, <1>5, <1>6, CloseMappedKeeps

\* A cancellation or the clock marks a session.
LEMMA MarksKeep ==
    ASSUME SessionsInv, (\E k \in UKeys : RequestCancel(k)) \/ (\E s \in USessions : SessionGoesStale(s))
    PROVE  SessionsInv'
<1>1. /\ uMap \in [UKeys -> USessions \union {NoSession}] /\ uSess \in [USessions -> Connections]
      /\ UNCHANGED <<uReq, uMap, uLock>>
  BY DEF SessionsInv, SessionsTyped, RequestCancel, SessionGoesStale
<1>2. PICK s \in USessions : \/ uSess' = [uSess EXCEPT ![s].cancel = TRUE]
                             \/ uSess' = [uSess EXCEPT ![s].stale = TRUE]
  BY <1>1 DEF RequestCancel, SessionGoesStale
<1>3. PICK c \in Connections : uSess' = [uSess EXCEPT ![s] = c] /\ c.open = uSess[s].open /\ c.lock = uSess[s].lock
  <2>1. \/ uSess' = [uSess EXCEPT ![s] = [uSess[s] EXCEPT !.cancel = TRUE]]
        \/ uSess' = [uSess EXCEPT ![s] = [uSess[s] EXCEPT !.stale = TRUE]]
    BY <1>1, <1>2
  <2>2. uSess[s] \in Connections
    BY <1>1
  <2>3. /\ [uSess[s] EXCEPT !.cancel = TRUE] \in Connections
        /\ [uSess[s] EXCEPT !.cancel = TRUE].open = uSess[s].open
        /\ [uSess[s] EXCEPT !.cancel = TRUE].lock = uSess[s].lock
    BY <2>2 DEF Connections
  <2>4. /\ [uSess[s] EXCEPT !.stale = TRUE] \in Connections
        /\ [uSess[s] EXCEPT !.stale = TRUE].open = uSess[s].open
        /\ [uSess[s] EXCEPT !.stale = TRUE].lock = uSess[s].lock
    BY <2>2 DEF Connections
  <2> QED BY <2>1, <2>3, <2>4
<1>4. /\ uSess' \in [USessions -> Connections]
      /\ \A z \in USessions : uSess'[z].open = uSess[z].open /\ uSess'[z].lock = uSess[z].lock
  BY <1>1, <1>3
<1>5. SessionsTyped' /\ RequestShape' /\ CandidatesAreApart'
  BY <1>1, <1>4 DEF SessionsInv, SessionsTyped, RequestShape, CandidatesAreApart, InMap
<1>6. SessionsInHand'
  <2>1. \A p \in UReqs : /\ uReq[p].pc \in Inserting => uReq[p].cand \in USessions
                         /\ uReq[p].pc \in Given => uReq[p].sess \in USessions
    BY RequestOf
  <2> QED BY <1>1, <1>4, <2>1 DEF SessionsInv, SessionsInHand, Given
<1>7. OpenIsHeld' /\ ClosedSessionsLeave' /\ SessionsAreBounded'
  BY <1>1, <1>4 DEF SessionsInv, OpenIsHeld, ClosedSessionsLeave, SessionsAreBounded, InMap, Mapped
<1> QED BY <1>5, <1>6, <1>7 DEF SessionsInv

\* The request is written with the session's mutex held, or finds the connection closed.
LEMMA WriteKeeps == ASSUME SessionsInv, NEW r \in UReqs, WriteRequest(r) PROVE SessionsInv'
<1> USE UpstreamAssumption
<1>1. PICK q : q = uReq[r]
  OBVIOUS
<1>2. /\ q \in URequests /\ q.pc = "run" /\ q.sess \in USessions /\ q.cand = NoSession
      /\ q.key \in UKeys /\ q.runs + 1 \in 0..2 /\ UNCHANGED <<uMap, uLock>>
      /\ uSess[q.sess].lock = NoReq /\ q.create \in BOOLEAN
  BY <1>1, RequestOf DEF WriteRequest, UAt, HasAt, Given, Displacing, Inserting, URequests
<1>3. CASE ~uSess[q.sess].open
  <2>1. PICK g : g = [q EXCEPT !.pc = "removing", !.runs = q.runs + 1]
    OBVIOUS
  <2>2. g \in URequests /\ g.pc = "removing" /\ g.sess = q.sess /\ g.cand = NoSession /\ g.key = q.key
    BY <1>2, <2>1 DEF URequests, UPlaces, Given
  <2>3. PICK h : h = [g EXCEPT !.retry = q.create]
    OBVIOUS
  <2>4. h \in URequests /\ h.pc = "removing" /\ h.sess = q.sess /\ h.cand = NoSession /\ h.key = q.key
    BY <1>2, <2>2, <2>3 DEF URequests
  <2>5. h = [q EXCEPT !.pc = "removing", !.runs = @ + 1, !.retry = q.create]
    BY <1>2, <2>1, <2>3 DEF URequests
  <2>6. USet(r, h) /\ uSess' = uSess
    BY <1>1, <1>3, <2>5 DEF WriteRequest
  <2>7. HasAt(h)
    BY <1>2, <2>4 DEF HasAt, Given, Displacing, Inserting
  <2>8. uLock' = NoReq => Cardinality(Mapped) <= kPersistentBridgeMaxSessions
    BY <1>2 DEF SessionsInv, SessionsAreBounded
  <2> QED BY <1>1, <1>2, <1>3, <2>4, <2>6, <2>7, <2>8, RequestOf, QuietMove DEF Locking, Inserting
<1>4. CASE uSess[q.sess].open
  <2>1. PICK h : h = [q EXCEPT !.pc = "streaming", !.runs = q.runs + 1]
    OBVIOUS
  <2>2. h \in URequests /\ h.pc = "streaming" /\ h.sess = q.sess /\ h.cand = NoSession /\ h.key = q.key
    BY <1>2, <2>1 DEF URequests, UPlaces, Given
  <2>3. USet(r, h) /\ uSess' = [uSess EXCEPT ![q.sess].lock = r]
    BY <1>1, <1>4, <2>1 DEF WriteRequest
  <2>4. HasAt(h)
    BY <1>2, <2>2 DEF HasAt, Given, Displacing, Inserting
  <2>5. /\ uReq' \in [UReqs -> URequests] /\ RequestShape'
        /\ \A p \in UReqs : uReq'[p] = IF p = r THEN h ELSE uReq[p]
    BY <1>2, <2>2, <2>3, <2>4, MoveOne DEF Locking
  <2>6. PICK c : c = [uSess[q.sess] EXCEPT !.lock = r]
    OBVIOUS
  <2>7. c \in Connections /\ c.open = uSess[q.sess].open /\ c.lock = r
    BY <1>2, <2>6, RequestOf DEF Connections
  <2>8. /\ uSess' \in [USessions -> Connections] /\ uSess'[q.sess] = c
        /\ \A z \in USessions : z # q.sess => uSess'[z] = uSess[z]
    BY <1>2, <2>3, <2>6, <2>7, RequestOf
  <2>9. \A z \in USessions : uSess'[z].open = uSess[z].open
    BY <2>7, <2>8
  <2>10. SessionsTyped' /\ CandidatesAreApart'
    BY <1>1, <1>2, <2>2, <2>5, <2>8 DEF SessionsInv, SessionsTyped, CandidatesAreApart, InMap
  <2>11. SessionsInHand'
    <3>1. \A p \in UReqs : /\ uReq[p].pc \in Inserting => uReq[p].cand \in USessions
                           /\ uReq[p].pc \in Given => uReq[p].sess \in USessions
      BY RequestOf
    <3>2. \A p \in UReqs : uReq[p].pc = "streaming" => uReq[p].sess # q.sess
      BY <1>2 DEF SessionsInv, SessionsInHand
    <3>3. ASSUME NEW p \in UReqs, p # r
          PROVE  /\ uReq'[p].pc \in Inserting => uSess'[uReq'[p].cand].open
                 /\ uReq'[p].pc = "streaming" =>
                      uSess'[uReq'[p].sess].open /\ uSess'[uReq'[p].sess].lock = p
                 /\ uReq'[p].pc \in {"removing", "retrying"} => ~uSess'[uReq'[p].sess].open
      <4>1. uReq'[p] = uReq[p]
        BY <2>5, <3>3
      <4> QED BY <2>8, <2>9, <3>1, <3>2, <4>1 DEF SessionsInv, SessionsInHand, Given
    <3>4. uReq'[r] = h
      BY <2>5
    <3> QED BY <1>4, <2>2, <2>7, <2>8, <3>3, <3>4, ZenonT(60) DEF SessionsInHand, Inserting
  <2>12. OpenIsHeld' /\ ClosedSessionsLeave'
    BY <1>1, <1>2, <2>2, <2>5, <2>9 DEF SessionsInv, OpenIsHeld, ClosedSessionsLeave, InMap
  <2>13. SessionsAreBounded'
    BY <1>2 DEF SessionsInv, SessionsAreBounded, Mapped
  <2> QED BY <2>5, <2>10, <2>11, <2>12, <2>13 DEF SessionsInv
<1> QED BY <1>3, <1>4

\* The stream ends: the session is kept, or closed and about to leave the map.
LEMMA EndStreamKeeps ==
    ASSUME SessionsInv, NEW r \in UReqs, NEW ended \in Ends, EndStream(r, ended)
    PROVE  SessionsInv'
<1> USE UpstreamAssumption
<1>1. PICK q : q = uReq[r]
  OBVIOUS
<1>2. /\ q \in URequests /\ q.pc = "streaming" /\ q.sess \in USessions /\ q.cand = NoSession
      /\ q.key \in UKeys /\ UNCHANGED <<uMap, uLock>> /\ uSess[q.sess].open
      /\ uSess[q.sess].lock = r
  <2>1. q.pc = "streaming" /\ UNCHANGED <<uMap, uLock>>
    BY <1>1 DEF EndStream, UAt
  <2> QED BY <1>1, <2>1, RequestOf DEF HasAt, Given, Displacing, Inserting, SessionsInv, SessionsInHand
<1>3. PICK keep \in BOOLEAN : keep = (ended = "terminal")
  OBVIOUS
<1>4. PICK h \in URequests :
        /\ USet(r, h) /\ HasAt(h) /\ h.cand = NoSession
        /\ (keep => h.pc = "done" /\ h.sess = NoSession)
        /\ (~keep => h.pc = "removing" /\ h.sess = q.sess)
  <2>1. CASE keep
    BY <1>3, <2>1, FreshRequest DEF EndStream, Finished
  <2>2. CASE ~keep
    <3>1. PICK retry \in BOOLEAN : USet(r, [q EXCEPT !.pc = "removing", !.retry = retry])
      BY <1>1, <1>3, <2>2, <1>2 DEF EndStream, URequests
    <3>2. PICK h : h = [q EXCEPT !.pc = "removing", !.retry = retry]
      OBVIOUS
    <3>3. h \in URequests /\ h.pc = "removing" /\ h.sess = q.sess /\ h.cand = NoSession /\ h.key = q.key
      BY <1>2, <3>1, <3>2 DEF URequests, UPlaces, Given
    <3>4. HasAt(h)
      BY <1>2, <3>3 DEF HasAt, Given, Displacing, Inserting
    <3> QED BY <2>2, <3>1, <3>2, <3>3, <3>4
  <2> QED BY <2>1, <2>2
<1>5. h.pc \in {"done", "removing"}
  BY <1>4
<1>6. /\ uReq' \in [UReqs -> URequests] /\ RequestShape'
      /\ \A p \in UReqs : uReq'[p] = IF p = r THEN h ELSE uReq[p]
  BY <1>2, <1>4, <1>5, MoveOne DEF Locking
<1>7. PICK c : c = [uSess[q.sess] EXCEPT !.lock = NoReq, !.open = keep, !.stale = FALSE]
  OBVIOUS
<1>8. c \in Connections /\ c.open = keep
  <2>1. PICK b : b = [uSess[q.sess] EXCEPT !.lock = NoReq, !.open = keep]
    OBVIOUS
  <2>2. b \in Connections /\ b.open = keep
    BY <1>2, <1>3, <2>1, RequestOf, ZenonT(60) DEF Connections
  <2>3. c = [b EXCEPT !.stale = FALSE]
    BY <1>2, <1>7, <2>1, RequestOf DEF Connections
  <2> QED BY <2>2, <2>3 DEF Connections
<1>9. /\ uSess' \in [USessions -> Connections] /\ uSess'[q.sess] = c
      /\ \A z \in USessions : z # q.sess => uSess'[z] = uSess[z]
  <2>1. uSess' = [uSess EXCEPT ![q.sess].lock = NoReq, ![q.sess].open = keep, ![q.sess].stale = FALSE]
    BY <1>1, <1>3 DEF EndStream
  <2>2. uSess' = [uSess EXCEPT ![q.sess] = c]
    BY <1>2, <1>7, <2>1, RequestOf
  <2> QED BY <1>2, <1>8, <2>2, RequestOf
<1>10. \A p \in UReqs : /\ uReq[p].pc \in Inserting => uReq[p].cand \in USessions
                        /\ uReq[p].pc \in Given => uReq[p].sess \in USessions
  BY RequestOf
<1>11. SessionsTyped' /\ CandidatesAreApart'
  <2>1. h.sess \in {NoSession, q.sess}
    BY <1>4
  <2> QED BY <1>1, <1>2, <1>4, <1>5, <1>6, <1>9, <2>1
          DEF SessionsInv, SessionsTyped, CandidatesAreApart, InMap
<1>12. SessionsInHand'
  <2>1. ASSUME NEW p \in UReqs, p # r
        PROVE  /\ uReq'[p].pc \in Inserting => uSess'[uReq'[p].cand].open
               /\ uReq'[p].pc = "streaming" =>
                    uSess'[uReq'[p].sess].open /\ uSess'[uReq'[p].sess].lock = p
               /\ uReq'[p].pc \in {"removing", "retrying"} => ~uSess'[uReq'[p].sess].open
    <3>1. uReq'[p] = uReq[p]
      BY <1>6, <2>1
    <3>2. uReq[p].pc \in Inserting => uReq[p].cand # q.sess
      BY <1>1, <2>1, RequestOf DEF SessionsInv, CandidatesAreApart, HasAt
    <3>3. uReq[p].pc \in {"streaming", "removing", "retrying"} => uReq[p].sess # q.sess
      BY <1>2, <2>1 DEF SessionsInv, SessionsInHand
    <3> QED BY <1>9, <1>10, <3>1, <3>2, <3>3 DEF SessionsInv, SessionsInHand, Given
  <2>2. uReq'[r] = h
    BY <1>6
  <2> QED BY <1>4, <1>5, <1>8, <1>9, <2>1, <2>2 DEF SessionsInHand, Inserting
<1>13. OpenIsHeld'
  BY <1>1, <1>2, <1>6, <1>9 DEF SessionsInv, OpenIsHeld, InMap
<1>14. ClosedSessionsLeave'
  <2>1. SUFFICES ASSUME NEW s \in USessions, InMap(s), ~uSess'[s].open
                 PROVE  \E p \in UReqs : uReq'[p].pc = "removing" /\ uReq'[p].sess = s
    BY <1>2 DEF ClosedSessionsLeave, InMap
  <2>2. CASE s = q.sess
    BY <1>4, <1>6, <1>8, <1>9, <2>1, <2>2
  <2>3. CASE s # q.sess
    BY <1>1, <1>2, <1>6, <1>9, <2>1, <2>3 DEF SessionsInv, ClosedSessionsLeave
  <2> QED BY <2>2, <2>3
<1>15. SessionsAreBounded'
  BY <1>2 DEF SessionsInv, SessionsAreBounded, Mapped
<1> QED BY <1>6, <1>11, <1>12, <1>13, <1>14, <1>15 DEF SessionsInv

\* Every step of the transports keeps the invariant.
LEMMA SessionsNextKeeps == SessionsInv /\ [SessionsNext]_upstreamVars => SessionsInv'
<1> SUFFICES ASSUME SessionsInv, [SessionsNext]_upstreamVars PROVE SessionsInv'
  OBVIOUS
<1>1. ASSUME NEW r \in UReqs, RequestStep(r)
      PROVE  SessionsInv'
  BY <1>1, LockBridgeKeeps, FindSessionKeeps, CloseInHandKeeps, OpenFailsKeeps, InsertSessionKeeps,
     InsertedKeeps, WriteKeeps, RemoveKeeps, PurgeKeeps, OpenConnectionKeeps, EndStreamKeeps
     DEF RequestStep
<1>2. CASE \/ UNCHANGED upstreamVars
           \/ \E t \in {"websocket", "http"},
                 e \in {"terminal", "closed", "too_large", "refused", "error"} : ExecutePlain(t, e)
  <2>1. UNCHANGED <<uReq, uMap, uLock, uSess>>
    BY <1>2 DEF upstreamVars, ExecutePlain
  <2> QED BY <2>1 DEF SessionsInv, SessionsTyped, RequestShape, CandidatesAreApart, SessionsInHand,
          OpenIsHeld, ClosedSessionsLeave, SessionsAreBounded, InMap, Mapped
<1> QED BY <1>1, <1>2, ExecuteKeeps, MarksKeep, ResetKeeps DEF SessionsNext

\* For any number of requests, keys and sessions and any limit: every open
\* connection is in the map or in the hands of the request that opened it, a
\* closed session leaves the map, and the map is within
\* kPersistentBridgeMaxSessions whenever its mutex is free.
THEOREM SessionsAreSafe == SessionsSpec => []SessionsSafety
<1>1. SessionsInv => SessionsSafety
  <2> SUFFICES ASSUME SessionsInv PROVE SessionsSafety
    OBVIOUS
  <2>1. UpstreamTypeOK
    BY DEF SessionsInv, SessionsTyped, UpstreamTypeOK, URequests, Connections
  <2>2. NoLeakedConnection
    BY UpstreamAssumption, RequestOf
       DEF SessionsInv, OpenIsHeld, NoLeakedConnection, Holds, HasAt, Displacing, Inserting
  <2> QED BY <2>1, <2>2 DEF SessionsInv, SessionsSafety
<1> QED BY <1>1, SessionsInitHolds, SessionsNextKeeps, PTL DEF SessionsSpec

-----------------------------------------------------------------------------
(* OAuth logins *)

Waiting == {"starting", "stopping", "spawning"}

\* The event loop waits for the thread the handle named, and for no other.
LoopShape ==
    /\ \A t \in {"loop", "callback"} : thread[t].pc \notin Waiting => thread[t].join = NoPoller
    /\ thread["callback"].pc \notin Waiting
    /\ thread["loop"].pc \in {"starting", "stopping"} => handle = NoPoller /\ ~login.poll_active
    /\ thread["loop"].pc = "starting" => logins < MaxLogins
    /\ thread["loop"].pc = "spawning" => thread["loop"].join = handle

\* A thread that was told to stop is waited for.
StoppedIsJoined ==
    \A p \in Pollers : poller[p].pc # "none" /\ poller[p].stop => thread["loop"].pc \in Waiting

\* Whoever is about to report a success has saved the account.
SavedHasAccount ==
    /\ \A p \in Pollers : poller[p].pc = "saved" => hasAccount
    /\ \A t \in {"loop", "callback"} : thread[t].pc = "saved" => hasAccount

OAuthInv ==
    /\ OAuthTypeOK /\ SuccessHasAccount /\ NoOrphanPoller /\ PollActiveHasPoller
    /\ LoopShape /\ StoppedIsJoined /\ SavedHasAccount

\* A process that has just started has no poll thread and no login to report.
LEMMA OAuthInitHolds == OAuthInit => OAuthInv
<1> SUFFICES ASSUME OAuthInit PROVE OAuthInv
  OBVIOUS
<1>1. OAuthTypeOK
  BY OAuthAssumption DEF OAuthInit, OAuthTypeOK, OAuthState, NoThread, LoopIdle, LoginIds
<1>2. SuccessHasAccount /\ PollActiveHasPoller /\ NoOrphanPoller
  BY DEF OAuthInit, SuccessHasAccount, PollActiveHasPoller, NoOrphanPoller, OAuthState, NoThread
<1>3. LoopShape /\ StoppedIsJoined /\ SavedHasAccount
  BY DEF OAuthInit, LoopShape, StoppedIsJoined, SavedHasAccount, LoopIdle, NoThread, Waiting
<1> QED BY <1>1, <1>2, <1>3 DEF OAuthInv

Logins == [status : {"idle", "pending", "success", "error", "stopped"},
           method : {"none", "browser", "device"}, token : 0..MaxLogins,
           device : 0..MaxLogins, expires : 0..MaxLogins, poll_active : BOOLEAN]

PollThreads == [pc : {"none", "loop", "read", "expiry", "exchange", "saved"},
                stop : BOOLEAN, expires : 0..MaxLogins]

EventLoops == [pc : {"idle", "starting", "stopping", "completing", "spawning",
                     "invalid", "exchange", "saved"},
               join : Pollers \cup {NoPoller}]

\* The type invariant, read once.
LEMMA OAuthTypes ==
    ASSUME OAuthInv
    PROVE  /\ login \in Logins /\ logins \in 0..MaxLogins /\ expired \subseteq LoginIds
           /\ hasAccount \in BOOLEAN /\ handle \in Pollers \cup {NoPoller}
           /\ poller \in [Pollers -> PollThreads]
           /\ thread \in [{"loop", "callback"} -> EventLoops]
           /\ thread["loop"] \in EventLoops /\ thread["callback"] \in EventLoops
  BY DEF OAuthInv, OAuthTypeOK, Logins, PollThreads, EventLoops

\* The state of a process that has no login is one.
LEMMA FreshLogin == OAuthState \in Logins /\ OAuthState.poll_active = FALSE
<1>1. 0 \in 0..MaxLogins
  BY OAuthAssumption
<1> QED BY <1>1 DEF OAuthState, Logins

\* Updates of a login keep its shape.
LEMMA StatusUpdate ==
    ASSUME NEW l \in Logins, NEW st \in {"idle", "pending", "success", "error", "stopped"},
           NEW m \in {"none", "browser", "device"}
    PROVE  /\ [l EXCEPT !.status = st, !.method = m] \in Logins
           /\ [l EXCEPT !.status = st, !.method = m].status = st
           /\ [l EXCEPT !.status = st, !.method = m].poll_active = l.poll_active
  BY DEF Logins

\* Updates of a login keep its shape.
LEMMA CodeUpdate ==
    ASSUME NEW l \in Logins, NEW n \in 0..MaxLogins
    PROVE  /\ [l EXCEPT !.device = n, !.expires = n] \in Logins
           /\ [l EXCEPT !.device = n, !.expires = n].status = l.status
           /\ [l EXCEPT !.device = n, !.expires = n].poll_active = l.poll_active
           /\ [l EXCEPT !.device = n] \in Logins
           /\ [l EXCEPT !.device = n].status = l.status
           /\ [l EXCEPT !.device = n].poll_active = l.poll_active
           /\ [l EXCEPT !.token = n] \in Logins
           /\ [l EXCEPT !.token = n].status = l.status
           /\ [l EXCEPT !.token = n].poll_active = l.poll_active
<1>1. /\ [l EXCEPT !.device = n, !.expires = n] \in Logins /\ [l EXCEPT !.token = n] \in Logins
      /\ [l EXCEPT !.device = n] \in Logins
  BY DEF Logins
<1> QED BY DEF Logins

\* A step that writes the login only: it may report a success if there is an
\* account, and leaves poll_active as it is or clears it with no thread to lose.
LEMMA LoginStepKeeps ==
    ASSUME OAuthInv, UNCHANGED <<expired, hasAccount, handle, poller, thread>>,
           NEW l \in Logins, login' = l, logins' \in 0..MaxLogins,
           l.status = "success" => hasAccount, l.poll_active => login.poll_active,
           thread["loop"].pc = "starting" => logins' = logins
    PROVE  OAuthInv'
<1>1. OAuthTypeOK'
  BY DEF OAuthInv, OAuthTypeOK, Logins
<1>2. SuccessHasAccount' /\ NoOrphanPoller' /\ PollActiveHasPoller'
  BY DEF OAuthInv, SuccessHasAccount, NoOrphanPoller, PollActiveHasPoller
<1>3. LoopShape' /\ StoppedIsJoined' /\ SavedHasAccount'
  BY DEF OAuthInv, LoopShape, StoppedIsJoined, SavedHasAccount
<1> QED BY <1>1, <1>2, <1>3 DEF OAuthInv

\* start() that finds an account or begins a device login.
LEMMA StartsKeep == ASSUME OAuthInv, StartFindsAccounts \/ StartDevice PROVE OAuthInv'
<1>1. CASE StartFindsAccounts
  <2>1. PICK l : l = [OAuthState EXCEPT !.status = "success", !.method = "browser"]
    OBVIOUS
  <2>2. l \in Logins /\ l.poll_active = FALSE
    BY <2>1, FreshLogin, StatusUpdate
  <2> QED BY <1>1, <2>1, <2>2, OAuthTypes, LoginStepKeeps DEF StartFindsAccounts
<1>2. CASE StartDevice
  <2>1. PICK n \in 0..MaxLogins : n = logins + 1 /\ logins' = n
    BY <1>2, OAuthTypes, OAuthAssumption DEF StartDevice
  <2>2. PICK l : l = [OAuthState EXCEPT !.status = "pending", !.method = "device",
                                   !.device = n, !.expires = n]
    OBVIOUS
  <2>3. login' = l
    BY <1>2, <2>1, <2>2 DEF StartDevice
  <2>4. l \in Logins /\ l.poll_active = FALSE /\ l.status = "pending"
    <3>1. PICK g : g = [OAuthState EXCEPT !.status = "pending", !.method = "device"]
      OBVIOUS
    <3>2. g \in Logins /\ g.poll_active = FALSE /\ g.status = "pending"
      BY <3>1, FreshLogin, StatusUpdate
    <3>3. l = [g EXCEPT !.device = n, !.expires = n]
      BY <2>2, <3>1, FreshLogin DEF Logins
    <3> QED BY <2>1, <3>2, <3>3, CodeUpdate
  <2> QED BY <1>2, <2>1, <2>3, <2>4, OAuthTypes, LoginStepKeeps DEF StartDevice, Idle
<1> QED BY <1>1, <1>2

\* stop_poll_thread, before a new login or at stop().
LEMMA StopPollThreadKeeps ==
    ASSUME OAuthInv, NEW next \in {"starting", "stopping"}, Idle("loop"), StopPollThread(next),
           UNCHANGED <<logins, expired, hasAccount>>, next = "starting" => logins < MaxLogins
    PROVE  OAuthInv'
<1>1. PICK l : l = [login EXCEPT !.poll_active = FALSE]
  OBVIOUS
<1>2. login' = l /\ l \in Logins /\ l.poll_active = FALSE /\ l.status = login.status
  BY <1>1, OAuthTypes DEF StopPollThread, Logins
<1>3. PICK e : e = [LoopIdle EXCEPT !.pc = next, !.join = handle]
  OBVIOUS
<1>4. e \in EventLoops /\ e.pc = next /\ e.join = handle
  BY <1>3, OAuthTypes DEF LoopIdle, EventLoops
<1>5. thread' = [thread EXCEPT !["loop"] = e] /\ thread' \in [{"loop", "callback"} -> EventLoops]
      /\ thread'["loop"] = e /\ thread'["callback"] = thread["callback"]
  BY <1>3, <1>4, OAuthTypes DEF StopPollThread
<1>6. poller' \in [Pollers -> PollThreads] /\ \A p \in Pollers : poller'[p].pc = poller[p].pc
      /\ (p # handle => poller'[p] = poller[p])
  <2>1. \A p \in Pollers : /\ [poller[p] EXCEPT !.stop = TRUE] \in PollThreads
                           /\ [poller[p] EXCEPT !.stop = TRUE].pc = poller[p].pc
    BY OAuthTypes DEF PollThreads
  <2> QED BY <2>1, OAuthTypes DEF StopPollThread
<1>7. handle' = NoPoller /\ thread["loop"].pc = "idle" /\ thread["loop"].join = NoPoller
  BY DEF StopPollThread, Idle, OAuthInv, LoopShape, Waiting
<1>8. OAuthTypeOK'
  BY <1>2, <1>5, <1>6, <1>7, OAuthTypes DEF OAuthTypeOK, Logins, PollThreads, EventLoops
<1>9. SuccessHasAccount' /\ PollActiveHasPoller'
  BY <1>2 DEF OAuthInv, SuccessHasAccount, PollActiveHasPoller
<1>10. NoOrphanPoller'
  BY <1>4, <1>5, <1>6, <1>7 DEF OAuthInv, NoOrphanPoller
<1>11. LoopShape' /\ StoppedIsJoined' /\ SavedHasAccount'
  BY <1>2, <1>4, <1>5, <1>6, <1>7 DEF OAuthInv, LoopShape, StoppedIsJoined, SavedHasAccount, Waiting
<1> QED BY <1>8, <1>9, <1>10, <1>11 DEF OAuthInv

\* The join of stop_poll_thread returned: no poll thread is left.
LEMMA NobodyPolls ==
    ASSUME OAuthInv, thread["loop"].pc \in Waiting, Joined
    PROVE  \A p \in Pollers : poller[p].pc = "none"
  BY OAuthAssumption DEF OAuthInv, LoopShape, NoOrphanPoller, Joined, Waiting

\* start() and stop() after the join: the login is replaced, with no thread that
\* could still write into it.
LEMMA JoinedKeep == ASSUME OAuthInv, BrowserStarted \/ OauthStopped PROVE OAuthInv'
<1>1. thread["loop"].pc \in {"starting", "stopping"} /\ UNCHANGED <<expired, hasAccount, handle, poller>>
      /\ thread' = [thread EXCEPT !["loop"] = LoopIdle]
  BY DEF BrowserStarted, OauthStopped
<1>2. \A p \in Pollers : poller[p].pc = "none"
  BY NobodyPolls DEF BrowserStarted, OauthStopped, Waiting
<1>3. PICK l \in Logins : login' = l /\ l.poll_active = FALSE
                /\ (l.status = "success" => login.status = "success")
  <2>1. CASE BrowserStarted
    <3>1. PICK n \in 0..MaxLogins : n = logins + 1 /\ logins' = n
      BY <2>1, OAuthTypes, OAuthAssumption DEF BrowserStarted, OAuthInv, LoopShape
    <3>2. PICK l : l = [OAuthState EXCEPT !.status = "pending", !.method = "browser", !.token = n]
      OBVIOUS
    <3>3. login' = l
      BY <2>1, <3>1, <3>2 DEF BrowserStarted
    <3>4. PICK g : g = [OAuthState EXCEPT !.status = "pending", !.method = "browser"]
      OBVIOUS
    <3>5. g \in Logins /\ g.poll_active = FALSE /\ g.status = "pending"
      BY <3>4, FreshLogin, StatusUpdate
    <3>6. l = [g EXCEPT !.token = n]
      BY <3>2, <3>4, FreshLogin DEF Logins
    <3>7. l \in Logins /\ l.poll_active = FALSE /\ l.status = "pending"
      BY <3>1, <3>5, <3>6, CodeUpdate
    <3> QED BY <3>3, <3>7
  <2>2. CASE OauthStopped
    <3>1. PICK st : st = IF login.method = "none" THEN login.status ELSE "stopped"
      OBVIOUS
    <3>2. PICK l : l = [login EXCEPT !.status = st, !.token = 0]
      OBVIOUS
    <3>3. login' = l
      BY <2>2, <3>1, <3>2 DEF OauthStopped
    <3>4. login \in Logins /\ ~login.poll_active
      BY <1>1, OAuthTypes DEF OAuthInv, LoopShape
    <3>5. st \in {"idle", "pending", "success", "error", "stopped"} /\ (st = "success" => login.status = "success")
      BY <3>1, <3>4 DEF Logins
    <3>6. l \in Logins /\ l.poll_active = login.poll_active /\ l.status = st
      <4>1. 0 \in 0..MaxLogins
        BY OAuthAssumption
      <4> QED BY <3>2, <3>4, <3>5, <4>1 DEF Logins
    <3> QED BY <3>3, <3>4, <3>5, <3>6 DEF Logins
  <2> QED BY <2>1, <2>2
<1>4. logins' \in 0..MaxLogins
  BY OAuthTypes, OAuthAssumption DEF BrowserStarted, OauthStopped, OAuthInv, LoopShape
<1>5. LoopIdle \in EventLoops /\ LoopIdle.pc = "idle" /\ LoopIdle.join = NoPoller
  BY DEF LoopIdle, EventLoops
<1>6. thread' \in [{"loop", "callback"} -> EventLoops] /\ thread'["loop"] = LoopIdle
      /\ thread'["callback"] = thread["callback"]
  BY <1>1, <1>5, OAuthTypes
<1>7. OAuthTypeOK'
  BY <1>1, <1>3, <1>4, <1>6, OAuthTypes DEF OAuthTypeOK, Logins, PollThreads, EventLoops
<1>8. SuccessHasAccount' /\ PollActiveHasPoller' /\ NoOrphanPoller'
  BY <1>1, <1>2, <1>3, <1>6 DEF OAuthInv, SuccessHasAccount, PollActiveHasPoller, NoOrphanPoller
<1>9. LoopShape' /\ StoppedIsJoined' /\ SavedHasAccount'
  BY <1>1, <1>2, <1>3, <1>5, <1>6 DEF OAuthInv, LoopShape, StoppedIsJoined, SavedHasAccount, Waiting
<1> QED BY <1>7, <1>8, <1>9 DEF OAuthInv

\* complete(), up to the new thread.
LEMMA CompleteKeeps == ASSUME OAuthInv, NEW d \in 0..logins, Complete(d) PROVE OAuthInv'
<1>1. PICK l : l = IF d = 0 THEN login ELSE [login EXCEPT !.device = d]
  OBVIOUS
<1>2. l \in Logins /\ l.status = login.status /\ l.poll_active = login.poll_active
  <2>1. d \in 0..MaxLogins
    BY OAuthTypes, OAuthAssumption
  <2> QED BY <1>1, <2>1, OAuthTypes, CodeUpdate
<1>3. /\ UNCHANGED <<logins, expired, hasAccount, handle, poller>> /\ Idle("loop")
      /\ \/ login' = l /\ thread' = thread
         \/ login' = SetError(l) /\ thread' = thread
         \/ login' = [l EXCEPT !.poll_active = TRUE] /\ ThreadAt("loop", "completing")
  BY <1>1 DEF Complete
<1>4. CASE login' = l /\ thread' = thread
  BY <1>2, <1>3, <1>4, OAuthTypes, LoginStepKeeps DEF OAuthInv, SuccessHasAccount
<1>5. CASE login' = SetError(l) /\ thread' = thread
  <2>1. SetError(l) \in Logins /\ SetError(l).status = "error" /\ SetError(l).poll_active = login.poll_active
    BY <1>2 DEF SetError, Logins
  <2> QED BY <1>3, <1>5, <2>1, OAuthTypes, LoginStepKeeps
<1>6. CASE login' = [l EXCEPT !.poll_active = TRUE] /\ ThreadAt("loop", "completing")
  <2>1. login' \in Logins /\ login'.status = login.status
    BY <1>2, <1>6 DEF Logins
  <2>2. PICK e : e = [thread["loop"] EXCEPT !.pc = "completing"]
    OBVIOUS
  <2>3. e \in EventLoops /\ e.pc = "completing" /\ e.join = NoPoller
    BY <1>3, <2>2, OAuthTypes DEF EventLoops, OAuthInv, LoopShape, Idle, Waiting
  <2>4. /\ thread' \in [{"loop", "callback"} -> EventLoops] /\ thread'["loop"] = e
        /\ thread'["callback"] = thread["callback"]
    BY <1>6, <2>2, <2>3, OAuthTypes DEF ThreadAt
  <2>5. OAuthTypeOK'
    BY <1>3, <2>1, <2>4, OAuthTypes DEF OAuthTypeOK, Logins, PollThreads, EventLoops
  <2>6. SuccessHasAccount' /\ PollActiveHasPoller' /\ NoOrphanPoller'
    BY <1>3, <2>1, <2>3, <2>4 DEF OAuthInv, SuccessHasAccount, PollActiveHasPoller, NoOrphanPoller, Idle
  <2>7. LoopShape' /\ StoppedIsJoined' /\ SavedHasAccount'
    BY <1>3, <2>1, <2>3, <2>4
       DEF OAuthInv, LoopShape, StoppedIsJoined, SavedHasAccount, Waiting, Idle
  <2> QED BY <2>5, <2>6, <2>7 DEF OAuthInv
<1> QED BY <1>3, <1>4, <1>5, <1>6

\* The old thread is told to stop and waited for.
LEMMA CompleteStopsOldKeeps == ASSUME OAuthInv, CompleteStopsOld PROVE OAuthInv'
<1>1. PICK e : e = [LoopIdle EXCEPT !.pc = "spawning", !.join = handle]
  OBVIOUS
<1>2. e \in EventLoops /\ e.pc = "spawning" /\ e.join = handle
  BY <1>1, OAuthTypes DEF LoopIdle, EventLoops
<1>3. thread' = [thread EXCEPT !["loop"] = e] /\ thread' \in [{"loop", "callback"} -> EventLoops]
      /\ thread'["loop"] = e /\ thread'["callback"] = thread["callback"]
  BY <1>1, <1>2, OAuthTypes DEF CompleteStopsOld
<1>4. poller' \in [Pollers -> PollThreads] /\ \A p \in Pollers : poller'[p].pc = poller[p].pc
  <2>1. \A p \in Pollers : /\ [poller[p] EXCEPT !.stop = TRUE] \in PollThreads
                           /\ [poller[p] EXCEPT !.stop = TRUE].pc = poller[p].pc
    BY OAuthTypes DEF PollThreads
  <2> QED BY <2>1, OAuthTypes DEF CompleteStopsOld
<1>5. UNCHANGED <<login, logins, expired, hasAccount, handle>> /\ thread["loop"].pc = "completing"
      /\ thread["loop"].join = NoPoller
  BY DEF CompleteStopsOld, OAuthInv, LoopShape, Waiting
<1>6. OAuthTypeOK'
  BY <1>3, <1>4, <1>5, OAuthTypes DEF OAuthTypeOK, Logins, PollThreads, EventLoops
<1>7. SuccessHasAccount' /\ PollActiveHasPoller' /\ NoOrphanPoller'
  <2>1. NoOrphanPoller'
    BY <1>2, <1>3, <1>4, <1>5, OAuthAssumption DEF OAuthInv, NoOrphanPoller
  <2> QED BY <1>2, <1>3, <1>5, <2>1 DEF OAuthInv, SuccessHasAccount, PollActiveHasPoller
<1>8. LoopShape' /\ StoppedIsJoined' /\ SavedHasAccount'
  BY <1>2, <1>3, <1>4, <1>5 DEF OAuthInv, LoopShape, StoppedIsJoined, SavedHasAccount, Waiting
<1> QED BY <1>6, <1>7, <1>8 DEF OAuthInv

\* The old thread is gone: the handle names the new one.
LEMMA CompleteSpawnsKeeps == ASSUME OAuthInv, CompleteSpawns PROVE OAuthInv'
<1>1. PICK p \in Pollers : /\ poller' = [poller EXCEPT ![p] = [NoThread EXCEPT !.pc = "loop"]]
                           /\ handle' = p
  BY DEF CompleteSpawns
<1>2. PICK n : n = [NoThread EXCEPT !.pc = "loop"]
  OBVIOUS
<1>3. n \in PollThreads /\ n.pc = "loop" /\ n.stop = FALSE
  <2>1. 0 \in 0..MaxLogins
    BY OAuthAssumption
  <2> QED BY <1>2, <2>1 DEF NoThread, PollThreads
<1>4. /\ UNCHANGED <<login, logins, expired, hasAccount>> /\ thread["loop"].pc = "spawning"
      /\ thread' = [thread EXCEPT !["loop"] = LoopIdle]
      /\ \A q \in Pollers : poller[q].pc = "none"
  BY NobodyPolls DEF CompleteSpawns, Waiting
<1>5. /\ poller' \in [Pollers -> PollThreads] /\ poller'[p] = n
      /\ \A q \in Pollers : q # p => poller'[q].pc = "none"
  BY <1>1, <1>2, <1>3, <1>4, OAuthTypes
<1>6. LoopIdle \in EventLoops /\ LoopIdle.pc = "idle" /\ LoopIdle.join = NoPoller
  BY DEF LoopIdle, EventLoops
<1>7. thread' \in [{"loop", "callback"} -> EventLoops] /\ thread'["loop"] = LoopIdle
      /\ thread'["callback"] = thread["callback"]
  BY <1>4, <1>6, OAuthTypes
<1>8. OAuthTypeOK'
  BY <1>1, <1>4, <1>5, <1>7, OAuthTypes DEF OAuthTypeOK, Logins, PollThreads, EventLoops
<1>9. SuccessHasAccount' /\ PollActiveHasPoller' /\ NoOrphanPoller'
  BY <1>1, <1>3, <1>4, <1>5 DEF OAuthInv, SuccessHasAccount, PollActiveHasPoller, NoOrphanPoller
<1>10. LoopShape' /\ StoppedIsJoined' /\ SavedHasAccount'
  BY <1>3, <1>4, <1>5, <1>6, <1>7
     DEF OAuthInv, LoopShape, StoppedIsJoined, SavedHasAccount, Waiting
<1> QED BY <1>8, <1>9, <1>10 DEF OAuthInv

\* A step of the poll thread p, which is the only one: it goes on, or ends
\* because it was told to, or ends and clears poll_active.
LEMMA PollerStepOK ==
    ASSUME OAuthInv, NEW p \in Pollers, poller[p].pc # "none", NEW y \in PollThreads,
           poller' = [poller EXCEPT ![p] = y], y.stop => poller[p].stop,
           NEW l \in Logins, login' = l, hasAccount' \in BOOLEAN, hasAccount => hasAccount',
           l.status = "success" => hasAccount', l.poll_active => login.poll_active,
           y.pc = "none" /\ ~poller[p].stop => ~l.poll_active, y.pc = "saved" => hasAccount',
           UNCHANGED <<logins, expired, handle, thread>>
    PROVE  OAuthInv'
<1>1. poller' \in [Pollers -> PollThreads] /\ \A q \in Pollers : poller'[q] = IF q = p THEN y ELSE poller[q]
  BY OAuthTypes
<1>2. OAuthTypeOK'
  BY <1>1, OAuthTypes DEF OAuthTypeOK, Logins, PollThreads, EventLoops
<1>3. SuccessHasAccount' /\ NoOrphanPoller' /\ StoppedIsJoined' /\ LoopShape'
  BY <1>1 DEF OAuthInv, SuccessHasAccount, NoOrphanPoller, StoppedIsJoined, LoopShape
<1>4. PollActiveHasPoller'
  <2>1. CASE y.pc # "none"
    BY <1>1, <2>1 DEF PollActiveHasPoller
  <2>2. CASE y.pc = "none" /\ ~poller[p].stop
    BY <2>2 DEF PollActiveHasPoller
  <2>3. CASE poller[p].stop
    BY <2>3 DEF OAuthInv, StoppedIsJoined, Waiting, LoopShape, PollActiveHasPoller
  <2> QED BY <2>1, <2>2, <2>3
<1>5. SavedHasAccount'
  BY <1>1 DEF OAuthInv, SavedHasAccount
<1> QED BY <1>2, <1>3, <1>4, <1>5 DEF OAuthInv

\* How a poll thread ends on its own: with an error or a success, and
\* poll_active cleared.
LEMMA EndedLogin ==
    ASSUME NEW l \in Logins
    PROVE  /\ [SetError(l) EXCEPT !.poll_active = FALSE] \in Logins
           /\ [SetError(l) EXCEPT !.poll_active = FALSE].poll_active = FALSE
           /\ [SetError(l) EXCEPT !.poll_active = FALSE].status = "error"
           /\ [SetSuccess(l) EXCEPT !.poll_active = FALSE] \in Logins
           /\ [SetSuccess(l) EXCEPT !.poll_active = FALSE].poll_active = FALSE
           /\ SetError(l) \in Logins /\ SetError(l).status = "error"
           /\ SetError(l).poll_active = l.poll_active
           /\ SetSuccess(l) \in Logins /\ SetSuccess(l).poll_active = l.poll_active
<1>1. /\ SetError(l) \in Logins /\ SetError(l).status = "error"
      /\ SetError(l).poll_active = l.poll_active
      /\ SetSuccess(l) \in Logins /\ SetSuccess(l).poll_active = l.poll_active
  BY DEF SetError, SetSuccess, Logins
<1> QED BY <1>1 DEF Logins

\* Each step of run_device_poll_loop.
LEMMA PollerKeeps == ASSUME OAuthInv, NEW p \in Pollers, PollerStep(p) PROVE OAuthInv'
<1>1. /\ NoThread \in PollThreads /\ NoThread.pc = "none" /\ NoThread.stop = FALSE
  <2>1. 0 \in 0..MaxLogins
    BY OAuthAssumption
  <2> QED BY <2>1 DEF NoThread, PollThreads
<1>2. /\ poller[p] \in PollThreads /\ login \in Logins /\ hasAccount \in BOOLEAN
      /\ (login.status = "success" => hasAccount) /\ login.expires \in 0..MaxLogins
  BY OAuthTypes DEF OAuthInv, SuccessHasAccount, Logins
<1>3. \A pc \in {"loop", "read", "exchange", "saved"} :
         /\ [poller[p] EXCEPT !.pc = pc] \in PollThreads
         /\ [poller[p] EXCEPT !.pc = pc].pc = pc
         /\ [poller[p] EXCEPT !.pc = pc].stop = poller[p].stop
  BY <1>2 DEF PollThreads
<1>4. \A pc : PollerGoes(p, pc) => poller' = [poller EXCEPT ![p] = [poller[p] EXCEPT !.pc = pc]]
  BY OAuthTypes DEF PollerGoes
<1>5. ASSUME NEW pc \in {"loop", "read", "exchange", "saved"}, PollerGoes(p, pc), login' = login,
             hasAccount' \in BOOLEAN, hasAccount => hasAccount', pc = "saved" => hasAccount',
             poller[p].pc # "none", UNCHANGED <<logins, expired, handle, thread>>
      PROVE  OAuthInv'
  <2>1. PICK y : y = [poller[p] EXCEPT !.pc = pc]
    OBVIOUS
  <2>2. y \in PollThreads /\ y.pc = pc /\ y.stop = poller[p].stop /\ poller' = [poller EXCEPT ![p] = y]
    BY <1>3, <1>4, <1>5, <2>1
  <2> QED BY <1>2, <1>5, <2>2, PollerStepOK
<1>6. ASSUME PollerEnds(p), login' \in Logins, ~login'.poll_active,
             login'.status = "success" => hasAccount, hasAccount' = hasAccount,
             poller[p].pc # "none", UNCHANGED <<logins, expired, handle, thread>>
      PROVE  OAuthInv'
  <2>1. PICK l \in Logins : login' = l /\ ~l.poll_active /\ (l.status = "success" => hasAccount)
    BY <1>6
  <2> QED BY <1>1, <1>2, <1>6, <2>1, PollerStepOK DEF PollerEnds
<1>7. CASE PollChecksStop(p)
  <2>1. CASE poller[p].stop
    <3>1. poller' = [poller EXCEPT ![p] = NoThread] /\ login' = login /\ hasAccount' = hasAccount
          /\ poller[p].pc # "none" /\ UNCHANGED <<logins, expired, handle, thread>>
      BY <1>7, <2>1 DEF PollChecksStop, PollerEnds
    <3> QED BY <1>1, <1>2, <2>1, <3>1, PollerStepOK
  <2>2. CASE ~poller[p].stop
    BY <1>2, <1>5, <1>7, <2>2 DEF PollChecksStop
  <2> QED BY <2>1, <2>2
<1>8. CASE PollReads(p)
  <2>1. CASE login' = [SetError(login) EXCEPT !.poll_active = FALSE] /\ PollerEnds(p)
    BY <1>2, <1>6, <1>8, <2>1, EndedLogin DEF PollReads
  <2>2. CASE /\ poller' = [poller EXCEPT ![p].pc = "expiry", ![p].expires = login.expires]
             /\ login' = login
    <3>1. PICK y : y = [poller[p] EXCEPT !.pc = "expiry", !.expires = login.expires]
      OBVIOUS
    <3>2. y \in PollThreads /\ y.pc = "expiry" /\ y.stop = poller[p].stop
      BY <1>2, <3>1 DEF PollThreads
    <3>3. poller' = [poller EXCEPT ![p] = y]
      BY <2>2, <3>1, OAuthTypes
    <3> QED BY <1>2, <1>8, <2>2, <3>2, <3>3, PollerStepOK, ZenonT(60) DEF PollReads
  <2> QED BY <1>8, <2>1, <2>2 DEF PollReads
<1>9. CASE PollChecksExpiry(p)
  <2>1. CASE poller[p].expires \in expired
    <3>1. /\ login' = [SetError(login) EXCEPT !.poll_active = FALSE] /\ PollerEnds(p)
          /\ poller[p].pc # "none" /\ UNCHANGED <<logins, expired, hasAccount, handle, thread>>
      BY <1>9, <2>1 DEF PollChecksExpiry
    <3>2. login' \in Logins /\ ~login'.poll_active /\ login'.status = "error"
      BY <1>2, <3>1, EndedLogin
    <3> QED BY <1>6, <3>1, <3>2
  <2>2. CASE poller[p].expires \notin expired
    BY <1>2, <1>5, <1>9, <2>2 DEF PollChecksExpiry
  <2> QED BY <2>1, <2>2
<1>10. CASE PollSucceeds(p)
  BY <1>2, <1>6, <1>10, EndedLogin DEF PollSucceeds, OAuthInv, SavedHasAccount
<1>11. ASSUME NEW kind, NEW exchanged, PollExchanges(p, kind, exchanged)
       PROVE  OAuthInv'
  <2>1. /\ poller[p].pc # "none" /\ UNCHANGED <<logins, expired, handle, thread>>
        /\ \/ PollerGoes(p, "loop") /\ login' = login /\ hasAccount' = hasAccount
           \/ hasAccount' = TRUE /\ PollerGoes(p, "saved") /\ login' = login
           \/ /\ login' = [SetError(login) EXCEPT !.poll_active = FALSE]
              /\ PollerEnds(p) /\ hasAccount' = hasAccount
    BY <1>11 DEF PollExchanges
  <2>2. CASE /\ login' = [SetError(login) EXCEPT !.poll_active = FALSE]
             /\ PollerEnds(p) /\ hasAccount' = hasAccount
    <3>1. login' \in Logins /\ ~login'.poll_active /\ login'.status = "error"
      BY <1>2, <2>2, EndedLogin
    <3> QED BY <1>6, <2>1, <2>2, <3>1
  <2>3. CASE PollerGoes(p, "loop") /\ login' = login /\ hasAccount' = hasAccount
    BY <1>2, <1>5, <2>1, <2>3
  <2>4. CASE hasAccount' = TRUE /\ PollerGoes(p, "saved") /\ login' = login
    BY <1>5, <2>1, <2>4
  <2> QED BY <2>1, <2>2, <2>3, <2>4
<1> QED BY <1>7, <1>8, <1>9, <1>10, <1>11 DEF PollerStep

\* A callback on either event loop.
LEMMA CallbackKeeps ==
    ASSUME OAuthInv, NEW t \in {"loop", "callback"},
           \/ CallbackError(t) \/ CallbackContinues(t)
           \/ \E code \in BOOLEAN, state \in 0..logins : CallbackReads(t, code, state)
    PROVE  OAuthInv'
<1>1. /\ login \in Logins /\ hasAccount \in BOOLEAN /\ thread[t] \in EventLoops
      /\ (login.status = "success" => hasAccount)
  BY OAuthTypes DEF OAuthInv, SuccessHasAccount
<1>2. CASE CallbackError(t)
  BY <1>1, <1>2, OAuthTypes, EndedLogin, LoginStepKeeps, ZenonT(60) DEF CallbackError
<1>3. ASSUME NEW e \in EventLoops, thread' = [thread EXCEPT ![t] = e], NEW l \in Logins, login' = l,
             thread[t].pc \notin Waiting \cup {"completing"}, e.pc \notin Waiting, e.join = NoPoller,
             hasAccount' \in BOOLEAN, hasAccount => hasAccount', l.poll_active = login.poll_active,
             e.pc = "saved" => hasAccount', l.status = "success" => hasAccount',
             UNCHANGED <<logins, expired, handle, poller>>
      PROVE  OAuthInv'
  <2>1. /\ thread' \in [{"loop", "callback"} -> EventLoops]
        /\ \A u \in {"loop", "callback"} : thread'[u] = IF u = t THEN e ELSE thread[u]
    BY <1>3, OAuthTypes
  <2>2. OAuthTypeOK'
    BY <1>3, <2>1, OAuthTypes DEF OAuthTypeOK, Logins, PollThreads, EventLoops
  <2>3. SuccessHasAccount' /\ SavedHasAccount'
    BY <1>3, <2>1 DEF OAuthInv, SuccessHasAccount, SavedHasAccount
  <2>4. CASE t = "callback"
    <3>1. thread'["loop"] = thread["loop"]
      BY <2>1, <2>4
    <3> QED BY <1>3, <2>2, <2>3, <3>1
            DEF OAuthInv, NoOrphanPoller, PollActiveHasPoller, LoopShape, StoppedIsJoined
  <2>5. CASE t = "loop"
    <3>1. thread'["loop"] = e /\ e.join = NoPoller
      BY <1>3, <2>1, <2>5 DEF OAuthInv, LoopShape
    <3>2. NoOrphanPoller' /\ PollActiveHasPoller'
      BY <1>3, <2>5, <3>1, OAuthAssumption
         DEF OAuthInv, NoOrphanPoller, PollActiveHasPoller, LoopShape, Waiting
    <3>3. LoopShape' /\ StoppedIsJoined'
      BY <1>3, <2>5, <3>1 DEF OAuthInv, LoopShape, StoppedIsJoined, Waiting
    <3> QED BY <2>2, <2>3, <3>2, <3>3 DEF OAuthInv
  <2> QED BY <2>4, <2>5
<1>4. \A pc \in {"invalid", "exchange", "saved"} :
         /\ [thread[t] EXCEPT !.pc = pc] \in EventLoops /\ [thread[t] EXCEPT !.pc = pc].pc = pc
         /\ [thread[t] EXCEPT !.pc = pc].join = thread[t].join
  BY <1>1 DEF EventLoops
<1>5. \A pc : ThreadAt(t, pc) => thread' = [thread EXCEPT ![t] = [thread[t] EXCEPT !.pc = pc]]
  BY OAuthTypes DEF ThreadAt
<1>6. LoopIdle \in EventLoops /\ LoopIdle.pc = "idle" /\ LoopIdle.join = NoPoller
  BY DEF LoopIdle, EventLoops
<1>7. CASE \E code \in BOOLEAN, state \in 0..logins : CallbackReads(t, code, state)
  <2>1. PICK pc \in {"invalid", "exchange"} :
          /\ thread[t].pc = "idle" /\ ThreadAt(t, pc)
          /\ UNCHANGED <<login, logins, expired, hasAccount, handle, poller>>
    BY <1>7 DEF CallbackReads, Idle
  <2>2. PICK e : e = [thread[t] EXCEPT !.pc = pc]
    OBVIOUS
  <2>3. e \in EventLoops /\ e.pc = pc /\ e.join = NoPoller /\ thread' = [thread EXCEPT ![t] = e]
    BY <1>4, <1>5, <2>1, <2>2 DEF OAuthInv, LoopShape, Waiting
  <2> QED BY <1>1, <1>3, <2>1, <2>3 DEF Waiting
<1>8. CASE CallbackRejects(t) \/ CallbackSucceeds(t)
  BY <1>1, <1>3, <1>6, <1>8, EndedLogin
     DEF CallbackRejects, CallbackSucceeds, OAuthInv, SavedHasAccount, Waiting
<1>9. ASSUME NEW exchanged, CallbackExchanges(t, exchanged)
      PROVE  OAuthInv'
  <2>1. CASE PersistTokens(t)
    <3>1. PICK e : e = [thread[t] EXCEPT !.pc = "saved"]
      OBVIOUS
    <3>2. /\ e \in EventLoops /\ e.pc = "saved" /\ e.join = NoPoller
          /\ thread' = [thread EXCEPT ![t] = e] /\ hasAccount' = TRUE /\ login' = login
          /\ thread[t].pc = "exchange" /\ UNCHANGED <<logins, expired, handle, poller>>
      BY <1>4, <1>5, <1>9, <2>1, <3>1
         DEF OAuthInv, LoopShape, Waiting, PersistTokens, CallbackExchanges
    <3> QED BY <1>1, <1>3, <3>2 DEF Waiting
  <2>2. CASE login' = SetError(login) /\ thread' = [thread EXCEPT ![t] = LoopIdle] /\ hasAccount' = hasAccount
    BY <1>1, <1>3, <1>6, <1>9, <2>2, EndedLogin DEF CallbackExchanges, Waiting
  <2> QED BY <1>9, <2>1, <2>2 DEF CallbackExchanges
<1> QED BY <1>2, <1>7, <1>8, <1>9 DEF CallbackContinues

\* Every step of the service keeps the invariant.
LEMMA OAuthNextKeeps == OAuthInv /\ [OAuthNext]_oauthVars => OAuthInv'
<1> SUFFICES ASSUME OAuthInv, [OAuthNext]_oauthVars PROVE OAuthInv'
  OBVIOUS
<1>1. CASE StartBrowser \/ OauthStop
  BY <1>1, StopPollThreadKeeps DEF StartBrowser, OauthStop
<1>2. CASE \E i \in LoginIds : DeviceCodeExpires(i)
  <2>1. expired' \subseteq LoginIds /\ UNCHANGED <<login, logins, hasAccount, handle, poller, thread>>
    BY <1>2, OAuthTypes DEF DeviceCodeExpires
  <2> QED BY <2>1 DEF OAuthInv, OAuthTypeOK, SuccessHasAccount, NoOrphanPoller, PollActiveHasPoller,
             LoopShape, StoppedIsJoined, SavedHasAccount
<1>3. CASE UNCHANGED oauthVars
  BY <1>3 DEF oauthVars, OAuthInv, OAuthTypeOK, SuccessHasAccount, NoOrphanPoller,
     PollActiveHasPoller, LoopShape, StoppedIsJoined, SavedHasAccount
<1>4. CASE OauthRoutes
  BY <1>1, <1>4, StartsKeep, CompleteKeeps, CallbackKeeps DEF OauthRoutes
<1>5. CASE LoopContinues
  BY <1>5, JoinedKeep, CompleteStopsOldKeeps, CompleteSpawnsKeeps DEF LoopContinues
<1> QED BY <1>2, <1>3, <1>4, <1>5, CallbackKeeps, PollerKeeps DEF OAuthNext

\* Whatever the provider answers, for any number of logins and poll threads:
\* a login reported as successful left an account, no poll thread is lost, and
\* poll_active never outlives its thread.
THEOREM LoginIsSafe == OAuthSpec => []LoginSafety
<1>1. OAuthInv => LoginSafety
  BY DEF OAuthInv, LoginSafety
<1> QED BY <1>1, OAuthInitHolds, OAuthNextKeeps, PTL DEF OAuthSpec

-----------------------------------------------------------------------------
(* Dashboard settings, sessions and TOTP *)

Columns == {"text", "number", "schema", "minSchema", "required", "pool", "password", "secret", "last"}
Ranged == (1 .. MaxNumber) \cup {DNone}
Filled(v) == IF v = DNone THEN 1 ELSE v

\* A row as the database may hold it.
RowOK(row) ==
    /\ DOMAIN row = Columns /\ row.text = "default"
    /\ row.number \in Ranged /\ row.schema \in Ranged /\ row.minSchema \in Ranged
    /\ Filled(row.minSchema) <= Filled(row.schema)
    /\ row.required \in BOOLEAN /\ row.pool \in Nat
    /\ row.secret \in Secrets \cup {DNone} /\ row.last \in Nat \cup {DNone}
    /\ row.required => row.secret # DNone

\* A secret waiting to be confirmed is new, and is another session's to use.
PendingIsFresh ==
    \A d \in DSessions : pendingTotp[d] # DNone =>
        /\ pendingTotp[d] # settings.secret
        /\ \A c \in spent : c.secret # pendingTotp[d]
        /\ \A e \in DSessions \ {d} : pendingTotp[e] # pendingTotp[d]

DashSessions == [open : BOOLEAN, totp : BOOLEAN, expires : 0 .. MaxTime + SessionTtl]
Codes == [secret : Secrets, step : Nat]

DashInv ==
    /\ RowOK(settings)
    /\ sessions \in [DSessions -> DashSessions]
    /\ pendingTotp \in [DSessions -> Secrets \cup {DNone}]
    /\ now \in 0 .. MaxTime /\ spent \subseteq Codes
    /\ UsedCodesAreSpent /\ PendingIsFresh

\* ensure_schema: no column a default exists for is NULL, and the rest is as it was.
LEMMA EnsureSchemaFills ==
    ASSUME NEW row, RowOK(row)
    PROVE  LET g == EnsureSchema(row) IN
           /\ RowOK(g)
           /\ {g.number, g.schema, g.minSchema} \subseteq 1 .. MaxNumber /\ g.minSchema <= g.schema
           /\ g.secret = row.secret /\ g.last = row.last /\ g.password = row.password
<1> USE DashboardAssumption
<1>1. PICK g : g = EnsureSchema(row)
  OBVIOUS
<1>2. DOMAIN DefaultSettings = {"text", "number", "schema", "minSchema", "required", "pool"}
  BY DEF DefaultSettings
<1>3. DOMAIN g = Columns
  BY <1>1 DEF EnsureSchema, RowOK
<1>4. g.secret = row.secret /\ g.last = row.last /\ g.password = row.password
  BY <1>1, <1>2 DEF EnsureSchema, RowOK, Columns
<1>5. g.text = row.text /\ g.required = row.required /\ g.pool = row.pool
  BY <1>1, <1>2 DEF EnsureSchema, RowOK, Columns, DefaultSettings
<1>6. g.number = Filled(row.number) /\ g.schema = Filled(row.schema) /\ g.minSchema = Filled(row.minSchema)
  BY <1>1, <1>2 DEF EnsureSchema, RowOK, Columns, DefaultSettings, Filled
<1>7. \A v \in Ranged : Filled(v) \in 1 .. MaxNumber /\ Filled(Filled(v)) = Filled(v)
  BY DEF Ranged, Filled
<1>8. /\ g.number \in 1 .. MaxNumber /\ g.schema \in 1 .. MaxNumber /\ g.minSchema \in 1 .. MaxNumber
      /\ g.minSchema <= g.schema /\ Filled(g.minSchema) <= Filled(g.schema)
  BY <1>6, <1>7 DEF RowOK
<1>9. RowOK(g)
  BY <1>3, <1>4, <1>5, <1>8 DEF RowOK, Ranged
<1> QED BY <1>1, <1>4, <1>8, <1>9

\* The row of a fresh database, whichever of its columns are still NULL.
LEMMA DashInitHolds == DashInit => DashInv
<1> SUFFICES ASSUME DashInit PROVE DashInv
  OBVIOUS
<1> USE DashboardAssumption
<1>1. RowOK(settings) /\ settings.secret = DNone
  <2>1. PICK n \in {1, DNone}, v \in {1, DNone} :
          settings = [text |-> "default", number |-> n, schema |-> v, minSchema |-> v,
                      required |-> FALSE, pool |-> 0, password |-> DNone, secret |-> DNone,
                      last |-> DNone]
    BY DEF DashInit
  <2>2. DOMAIN settings = Columns
    BY <2>1 DEF Columns
  <2>3. 1 \in 1 .. MaxNumber
    OBVIOUS
  <2>4. n \in Ranged /\ v \in Ranged /\ Filled(v) = 1
    BY <2>3 DEF Ranged, Filled
  <2> QED BY <2>1, <2>2, <2>4 DEF RowOK
<1>2. NoDashSession \in DashSessions /\ now \in 0 .. MaxTime
  BY DEF DashInit, NoDashSession, DashSessions
<1> QED BY <1>1, <1>2 DEF DashInit, DashInv, UsedCodesAreSpent, PendingIsFresh

\* create_session: a session that is not open is taken.
LEMMA CreateSessionTyped ==
    ASSUME DashInv, NEW totp \in BOOLEAN, CreateSession(totp)
    PROVE  sessions' \in [DSessions -> DashSessions]
<1>1. now + SessionTtl \in 0 .. MaxTime + SessionTtl
  BY DashboardAssumption DEF DashInv
<1> QED BY <1>1 DEF CreateSession, DashInv, DashSessions

\* The update of the settings: what is merged is validated before it is written,
\* so the row stays one that the database may hold.
LEMMA UpdateSettingsKeeps == ASSUME DashInv, UpdateSettings PROVE DashInv'
<1> USE DashboardAssumption
<1>1. PICK u \in SettingsUpdates :
          LET row == Merged(u, GetDashboardSettings)
          IN ValidText(u, row) /\ ValidRanges(row) /\ ValidTotp(row, GetDashboardSettings)
             /\ UpdateDashboardSettings(row)
  BY DEF UpdateSettings
<1>2. PICK g : g = GetDashboardSettings
  OBVIOUS
<1>3. RowOK(g) /\ g.secret = settings.secret /\ g.last = settings.last
  BY <1>2, EnsureSchemaFills DEF DashInv, GetDashboardSettings
<1>4. PICK row : row = Merged(u, g)
  OBVIOUS
<1>5. /\ settings' = row /\ row.text # "bad" /\ ValidRanges(row) /\ (row.required => g.secret # DNone)
  <2>1. ValidText(u, row) /\ ValidRanges(row) /\ ValidTotp(row, g) /\ UpdateDashboardSettings(row)
    BY <1>1, <1>2, <1>4
  <2> QED BY <2>1 DEF UpdateDashboardSettings, ValidText, ValidTotp
<1>6. /\ u.text \in {DNone, "bad"} /\ u.required \in {DNone, TRUE, FALSE} /\ u.pool \in {DNone, 2}
      /\ DOMAIN u = {"text", "number", "schema", "minSchema", "required", "pool", "weight"}
  <2>1. u \in [text : {DNone, "bad"}, number : {DNone, 0, MaxNumber + 1},
               schema : {DNone, 1, MaxNumber}, minSchema : {DNone, 0, 1, MaxNumber},
               required : {DNone, TRUE, FALSE}, pool : {DNone, 2}, weight : {DNone, "bad"}]
    BY DEF SettingsUpdates
  <2> QED BY <2>1
<1>7. DOMAIN row = Columns /\ row.secret = g.secret /\ row.last = g.last
  BY <1>3, <1>4, <1>6 DEF Merged, RowOK, Columns
<1>8. row.text = "default" /\ row.required \in BOOLEAN /\ row.pool \in Nat
  <2>1. g.text = "default" /\ g.required \in BOOLEAN /\ g.pool \in Nat
    BY <1>3 DEF RowOK
  <2>2. \A f \in {"text", "required", "pool"} : row[f] = IF u[f] = DNone THEN g[f] ELSE u[f]
    BY <1>3, <1>4, <1>6 DEF Merged, ValueOr, RowOK, Columns
  <2>3. /\ row.text = IF u.text = DNone THEN g.text ELSE u.text
        /\ row.required = IF u.required = DNone THEN g.required ELSE u.required
        /\ row.pool = IF u.pool = DNone THEN g.pool ELSE u.pool
    BY <2>2
  <2>4. row.text = "default"
    BY <1>5, <1>6, <2>1, <2>3
  <2>5. row.required \in BOOLEAN
    BY <1>6, <2>1, <2>3
  <2>6. row.pool \in Nat
    BY <1>6, <2>1, <2>3
  <2> QED BY <2>4, <2>5, <2>6
<1>9. RowOK(row)
  BY <1>3, <1>5, <1>7, <1>8 DEF RowOK, ValidRanges, Ranged, Filled
<1>10. UNCHANGED <<sessions, pendingTotp, now, spent>>
  BY DEF UpdateSettings
<1> QED BY <1>3, <1>5, <1>7, <1>9, <1>10 DEF DashInv, UsedCodesAreSpent, PendingIsFresh

\* Setting a password, logging in and logging out.
LEMMA LoginsKeep ==
    ASSUME DashInv, SetupDashboardPassword \/ LoginDashboardPassword
                    \/ \E d \in DSessions : LogoutDashboard(d)
    PROVE  DashInv'
<1>1. CASE SetupDashboardPassword
  <2>1. PICK g : g = GetDashboardSettings
    OBVIOUS
  <2>2. RowOK(g) /\ g.secret = settings.secret /\ g.last = settings.last
    BY <2>1, EnsureSchemaFills DEF DashInv, GetDashboardSettings
  <2>3. PICK row : row = [g EXCEPT !.password = "set"]
    OBVIOUS
  <2>4. settings' = row /\ RowOK(row) /\ row.secret = settings.secret /\ row.last = settings.last
    BY <1>1, <2>1, <2>2, <2>3 DEF SetupDashboardPassword, RowOK, Columns
  <2>5. sessions' \in [DSessions -> DashSessions] /\ UNCHANGED <<pinned, pendingTotp, now, spent>>
    BY <1>1, CreateSessionTyped DEF SetupDashboardPassword
  <2> QED BY <2>4, <2>5 DEF DashInv, UsedCodesAreSpent, PendingIsFresh
<1>2. CASE LoginDashboardPassword
  <2>1. sessions' \in [DSessions -> DashSessions]
        /\ UNCHANGED <<settings, pinned, pendingTotp, now, spent>>
    BY <1>2, CreateSessionTyped DEF LoginDashboardPassword
  <2> QED BY <2>1 DEF DashInv, UsedCodesAreSpent, PendingIsFresh
<1>3. ASSUME NEW d \in DSessions, LogoutDashboard(d)
      PROVE  DashInv'
  <2>1. NoDashSession \in DashSessions
    BY DashboardAssumption DEF NoDashSession, DashSessions
  <2>2. sessions' \in [DSessions -> DashSessions] /\ UNCHANGED <<settings, pinned, now, spent>>
        /\ pendingTotp' = [pendingTotp EXCEPT ![d] = DNone]
    BY <1>3, <2>1 DEF LogoutDashboard, DashInv
  <2>3. pendingTotp' \in [DSessions -> Secrets \cup {DNone}]
        /\ \A e \in DSessions : pendingTotp'[e] = IF e = d THEN DNone ELSE pendingTotp[e]
    BY <2>2 DEF DashInv
  <2>4. UsedCodesAreSpent' /\ PendingIsFresh'
    BY <2>2, <2>3 DEF DashInv, UsedCodesAreSpent, PendingIsFresh
  <2> QED BY <2>2, <2>3, <2>4 DEF DashInv
<1> QED BY <1>1, <1>2, <1>3

\* A secret is generated, and becomes the row's when its session confirms it.
LEMMA TotpSetupKeeps ==
    ASSUME DashInv, NEW d \in DSessions, StartTotpSetup(d) \/ ConfirmTotpSetup(d)
    PROVE  DashInv'
<1>1. CASE StartTotpSetup(d)
  <2>1. PICK s \in Secrets : /\ s # settings.secret /\ \A e \in DSessions : pendingTotp[e] # s
                             /\ \A c \in spent : c.secret # s
                             /\ pendingTotp' = [pendingTotp EXCEPT ![d] = s]
    BY <1>1 DEF StartTotpSetup
  <2>2. UNCHANGED <<settings, pinned, sessions, now, spent>>
    BY <1>1 DEF StartTotpSetup
  <2>3. pendingTotp' \in [DSessions -> Secrets \cup {DNone}]
        /\ \A e \in DSessions : pendingTotp'[e] = IF e = d THEN s ELSE pendingTotp[e]
    BY <2>1 DEF DashInv
  <2>4. UsedCodesAreSpent' /\ PendingIsFresh'
    BY <2>1, <2>2, <2>3 DEF DashInv, UsedCodesAreSpent, PendingIsFresh
  <2> QED BY <2>2, <2>3, <2>4 DEF DashInv
<1>2. CASE ConfirmTotpSetup(d)
  <2>1. PICK g : g = GetDashboardSettings
    OBVIOUS
  <2>2. RowOK(g)
    BY <2>1, EnsureSchemaFills DEF DashInv, GetDashboardSettings
  <2>3. PICK s \in Secrets : s = pendingTotp[d]
    BY <1>2 DEF ConfirmTotpSetup, DashInv
  <2>4. PICK row : row = [g EXCEPT !.secret = s, !.last = DNone]
    OBVIOUS
  <2>5. settings' = row /\ RowOK(row) /\ row.secret = s
    <3>1. settings' = row
      BY <1>2, <2>1, <2>3, <2>4 DEF ConfirmTotpSetup, SetDashboardTotpSecret
    <3>2. DOMAIN row = Columns /\ row.secret = s /\ row.last = DNone
      BY <2>2, <2>4 DEF RowOK, Columns
    <3>3. \A f \in Columns \ {"secret", "last"} : row[f] = g[f]
      BY <2>2, <2>4 DEF RowOK
    <3>4. /\ row.text = g.text /\ row.number = g.number /\ row.schema = g.schema
          /\ row.minSchema = g.minSchema /\ row.required = g.required /\ row.pool = g.pool
      BY <3>3 DEF Columns
    <3> QED BY <2>2, <3>1, <3>2, <3>4, DashboardAssumption DEF RowOK
  <2>6. pendingTotp' = [pendingTotp EXCEPT ![d] = DNone] /\ UNCHANGED <<pinned, sessions, now, spent>>
    BY <1>2 DEF ConfirmTotpSetup
  <2>7. pendingTotp' \in [DSessions -> Secrets \cup {DNone}]
        /\ \A e \in DSessions : pendingTotp'[e] = IF e = d THEN DNone ELSE pendingTotp[e]
    BY <2>6 DEF DashInv
  <2>8. \A c \in spent : c.secret # s
    BY <2>3, DashboardAssumption DEF DashInv, PendingIsFresh
  <2>9. UsedCodesAreSpent'
    BY <2>5, <2>6, <2>8 DEF UsedCodesAreSpent
  <2>10. PendingIsFresh'
    BY <2>3, <2>5, <2>6, <2>7, DashboardAssumption DEF DashInv, PendingIsFresh
  <2> QED BY <2>5, <2>6, <2>7, <2>9, <2>10 DEF DashInv
<1> QED BY <1>1, <1>2

\* A code is accepted once: the row moves to its step.
LEMMA VerifyKeeps == ASSUME DashInv, NEW d \in DSessions, VerifyDashboardTotp(d) PROVE DashInv'
<1> USE DashboardAssumption
<1>1. PICK step \in 0 .. MaxTime + 1 :
          /\ AdvanceLastVerifiedStep(step)
          /\ spent' = spent \cup {[secret |-> settings.secret, step |-> step]}
  BY DEF VerifyDashboardTotp
<1>2. step \in Nat /\ settings.secret \in Secrets
  <2>1. EnsureSchema(settings).secret = settings.secret
    BY EnsureSchemaFills DEF DashInv
  <2> QED BY <2>1 DEF VerifyDashboardTotp, GetDashboardSettings, DashInv, RowOK
<1>3. PICK row : row = [settings EXCEPT !.last = step]
  OBVIOUS
<1>4. settings' = row /\ RowOK(row) /\ row.secret = settings.secret /\ row.last = step
  <2>1. settings' = row
    BY <1>1, <1>3 DEF AdvanceLastVerifiedStep
  <2>2. DOMAIN row = Columns /\ row.last = step
    BY <1>3 DEF DashInv, RowOK, Columns
  <2>3. /\ row.text = settings.text /\ row.number = settings.number /\ row.schema = settings.schema
        /\ row.minSchema = settings.minSchema /\ row.required = settings.required
        /\ row.pool = settings.pool /\ row.secret = settings.secret
    BY <1>3 DEF DashInv, RowOK, Columns
  <2> QED BY <1>2, <2>1, <2>2, <2>3 DEF DashInv, RowOK
<1>5. sessions' \in [DSessions -> DashSessions] /\ UNCHANGED <<pinned, pendingTotp, now>>
  BY CreateSessionTyped DEF VerifyDashboardTotp
<1>6. PICK c : c = [secret |-> settings.secret, step |-> step]
  OBVIOUS
<1>7. c \in Codes /\ c.secret = settings.secret /\ c.step = step /\ spent' = spent \cup {c}
  BY <1>1, <1>2, <1>6 DEF Codes
<1>8. UsedCodesAreSpent'
  <2>1. SUFFICES ASSUME NEW e \in spent, e.secret = settings.secret
                 PROVE  e.step <= step
    BY <1>2, <1>4, <1>7 DEF UsedCodesAreSpent
  <2>2. e.step \in Nat /\ settings.last \in Nat /\ e.step <= settings.last
    BY <2>1 DEF DashInv, UsedCodesAreSpent, RowOK, Codes
  <2>3. settings.last < step
    BY <1>1, <2>2 DEF AdvanceLastVerifiedStep
  <2> QED BY <1>2, <2>2, <2>3
<1>9. PendingIsFresh'
  BY <1>4, <1>5, <1>7 DEF DashInv, PendingIsFresh
<1> QED BY <1>4, <1>5, <1>7, <1>8, <1>9 DEF DashInv

\* Every step of the dashboard keeps the invariant.
LEMMA DashNextKeeps == DashInv /\ [DashNext]_dashVars => DashInv'
<1> SUFFICES ASSUME DashInv, [DashNext]_dashVars PROVE DashInv'
  OBVIOUS
<1>1. CASE PinAccount \/ UNCHANGED dashVars
  BY <1>1 DEF PinAccount, dashVars, DashInv, UsedCodesAreSpent, PendingIsFresh
<1>2. CASE ClockTicks
  <2>1. now' \in 0 .. MaxTime /\ UNCHANGED <<settings, pinned, sessions, pendingTotp, spent>>
    BY <1>2, DashboardAssumption DEF ClockTicks, DashInv
  <2> QED BY <2>1 DEF DashInv, UsedCodesAreSpent, PendingIsFresh
<1> QED BY <1>1, <1>2, UpdateSettingsKeeps, LoginsKeep, TotpSetupKeeps, VerifyKeeps DEF DashNext

\* For any number of sessions, secrets and clock ticks: what get_dashboard_settings
\* returns stays within the ranges the update validates, the TOTP requirement is
\* never on without a secret, and a code that was accepted is never accepted again.
THEOREM DashboardIsSafe == DashSpec => []DashboardSafety
<1>1. DashInv => DashboardSafety
  <2> SUFFICES ASSUME DashInv PROVE DashboardSafety
    OBVIOUS
  <2>1. DashTypeOK
    <3>1. DOMAIN DefaultSettings = {"text", "number", "schema", "minSchema", "required", "pool"}
      BY DEF DefaultSettings
    <3>2. DOMAIN settings = DOMAIN DefaultSettings \cup {"password", "secret", "last"}
      BY <3>1 DEF DashInv, RowOK, Columns
    <3> QED BY <3>2 DEF DashInv, DashTypeOK, DashSessions
  <2>2. SettingsStayValid
    <3>1. PICK g : g = GetDashboardSettings
      OBVIOUS
    <3>2. RowOK(g) /\ {g.number, g.schema, g.minSchema} \subseteq 1 .. MaxNumber /\ g.minSchema <= g.schema
      BY <3>1, EnsureSchemaFills DEF DashInv, GetDashboardSettings
    <3> QED BY <3>1, <3>2 DEF SettingsStayValid, RowOK
  <2> QED BY <2>1, <2>2 DEF DashInv, DashboardSafety
<1> QED BY <1>1, DashInitHolds, DashNextKeeps, PTL DEF DashSpec

-----------------------------------------------------------------------------
(* The settings page *)

RowsOrNull == Rows \cup {NullRow}

PageCalls == [pc : {"idle", "sent", "answered", "off", "disable", "enable", "fallback", "restart", "status"},
          kind : {"none", "load", "save", "pool", "toggle"},
          base : RowsOrNull, prev : RowsOrNull, got : RowsOrNull, flag : BOOLEAN]

\* A row the runtime stores: its schema is no lower than its minimum.
Savable(row) == row \in Rows => row.min <= row.schema

DraftTyped ==
    /\ kept \in Rows /\ draft \in Rows /\ applied \in Rows
    /\ sop \in [SOps -> PageCalls]
    /\ doubt \subseteq {"unloaded", "overlap", "lost"}
    /\ running.on \in BOOLEAN /\ astray \in BOOLEAN /\ shown \in BOOLEAN

\* What a call has captured by the step it is at.
CallOK(c) ==
    /\ c.pc \in {"sent", "answered"} => c.kind # "none"
    /\ c.pc \in {"off", "enable", "fallback"} => c.kind = "toggle"
    /\ c.pc \in {"disable", "restart"} => c.kind = "save" /\ c.got \in Rows
    /\ c.kind \in {"save", "pool", "toggle"} => c.base \in Rows
    /\ Savable(c.base) /\ Savable(c.got)

RowsSavable == Savable(kept) /\ Savable(draft) /\ Savable(applied)

CallsOK == \A o \in SOps : CallOK(sop[o])

\* An edit that is remembered is not stored yet, and no call that will replace
\* the draft has captured another value for it.
EditsOK ==
    /\ typed["pool"] = NullRow
    /\ \A f \in Fields : typed[f] # NullRow => draft[f] = typed[f] /\ typed[f] # applied[f]
    /\ \A o \in SOps : sop[o].pc # "idle" /\ sop[o].kind = "pool" =>
          \A f \in Fields : typed[f] # NullRow => sop[o].base[f] = typed[f]
    /\ \A o \in SOps : sop[o].pc # "idle" /\ sop[o].kind = "toggle" /\ ~sop[o].flag =>
          \A f \in Fields : typed[f] = NullRow

\* Calls overlap only where that was recorded.
OneCall ==
    "overlap" \notin doubt => \A o, p \in SOps : sop[o].pc # "idle" /\ sop[p].pc # "idle" => o = p

HasAnswer(o) == sop[o].got # NullRow

\* While calls do not overlap, an answer is what is stored, and a call has
\* captured what the page believes.
AnswersOK ==
    "overlap" \notin doubt => \A o \in SOps :
        /\ sop[o].pc \in {"answered", "disable", "restart"} /\ HasAnswer(o) => sop[o].got = kept
        /\ sop[o].pc = "enable" /\ ~sop[o].flag => sop[o].base = applied
        /\ sop[o].pc = "sent" /\ sop[o].kind = "save" => sop[o].prev = applied
        /\ sop[o].pc = "sent" /\ sop[o].kind = "toggle" =>
              running.conf = SyncPart([sop[o].base EXCEPT !.discovery = FALSE])

\* What the page believes is stored, or an answer that will correct it is there.
StoredOK == doubt = {} => applied = kept \/ \E o \in SOps : sop[o].pc = "answered" /\ HasAnswer(o)

\* The steps between the storing of settings and the cluster running with them.
Between(c) ==
    \/ c.pc = "disable"
    \/ c.kind = "save" /\ c.pc = "answered" /\ c.got # NullRow /\ running.conf = SyncPart(c.prev)
    \/ c.kind = "toggle" /\ c.pc = "sent"
    \/ c.kind = "toggle" /\ c.pc = "answered" /\ c.got = NullRow

RunsOK ==
    /\ doubt = {} /\ ~astray /\ running.on =>
          running.conf = SyncPart(kept) \/ \E o \in SOps : Between(sop[o])
    /\ "unloaded" \in doubt /\ running.on => astray

DraftInv ==
    /\ DraftTyped /\ RowsSavable /\ CallsOK /\ EditsOK /\ OneCall /\ AnswersOK /\ StoredOK /\ RunsOK

\* The records the page starts with.
LEMMA RestingPage ==
    /\ NoCall \in PageCalls /\ NoCall.pc = "idle" /\ NoCall.kind = "none"
    /\ NoCall.base = NullRow /\ NoCall.got = NullRow /\ CallOK(NoCall)
    /\ defaultDashboardSettings \in Rows /\ Savable(defaultDashboardSettings)
    /\ ClusterOff.on = FALSE
<1>1. /\ NoCall \in PageCalls /\ NoCall.pc = "idle" /\ NoCall.kind = "none"
      /\ NoCall.base = NullRow /\ NoCall.got = NullRow
  BY DEF NoCall, PageCalls, RowsOrNull
<1>2. CallOK(NoCall)
  BY <1>1, DraftAssumption DEF CallOK, Savable
<1>3. defaultDashboardSettings \in Rows /\ Savable(defaultDashboardSettings)
  BY DraftAssumption DEF defaultDashboardSettings, Rows, Savable
<1> QED BY <1>1, <1>2, <1>3 DEF ClusterOff

\* The page starts with the defaults, nothing typed and no call under way.
LEMMA DraftInitHolds == DraftInit => DraftInv
<1> SUFFICES ASSUME DraftInit PROVE DraftInv
  OBVIOUS
<1>1. /\ draft = defaultDashboardSettings /\ applied = defaultDashboardSettings
      /\ sop = [o \in SOps |-> NoCall] /\ running = ClusterOff /\ typed = Untyped
      /\ doubt = {"unloaded"} /\ astray = FALSE /\ shown = FALSE
      /\ kept \in Rows /\ Savable(kept)
  BY DEF DraftInit, Savable
<1>2. \A o \in SOps : sop[o] = NoCall
  BY <1>1
<1>3. \A f \in Fields : typed[f] = NullRow
  BY <1>1 DEF Untyped
<1>4. DraftTyped
  BY <1>1, RestingPage DEF DraftTyped
<1>5. RowsSavable /\ CallsOK
  BY <1>1, <1>2, RestingPage DEF RowsSavable, CallsOK
<1>6. EditsOK
  BY <1>2, <1>3 DEF EditsOK, Fields
<1>7. OneCall /\ AnswersOK /\ StoredOK
  BY <1>1, <1>2, RestingPage DEF OneCall, AnswersOK, StoredOK
<1>8. RunsOK
  BY <1>1, RestingPage DEF RunsOK
<1> QED BY <1>4, <1>5, <1>6, <1>7, <1>8 DEF DraftInv

\* The parts of the state, typed.
LEMMA DraftShape ==
    ASSUME DraftInv
    PROVE  /\ kept \in Rows /\ draft \in Rows /\ applied \in Rows /\ sop \in [SOps -> PageCalls]
           /\ doubt \subseteq {"unloaded", "overlap", "lost"}
           /\ running.on \in BOOLEAN /\ astray \in BOOLEAN /\ shown \in BOOLEAN
           /\ \A o \in SOps : sop[o] \in PageCalls /\ CallOK(sop[o])
  BY DEF DraftInv, DraftTyped, CallsOK

\* A call goes on ...
LEMMA CallMoved ==
    ASSUME NEW o \in SOps, sop \in [SOps -> PageCalls], CallOK(sop[o]),
           NEW s \in {"sent", "disable", "fallback", "restart", "status"}, GoOn(o, s)
    PROVE  /\ sop' \in [SOps -> PageCalls] /\ \A p \in SOps : p # o => sop'[p] = sop[p]
           /\ sop'[o].pc = s /\ sop'[o].kind = sop[o].kind /\ sop'[o].base = sop[o].base
           /\ sop'[o].prev = sop[o].prev /\ sop'[o].got = sop[o].got /\ sop'[o].flag = sop[o].flag
<1>1. PICK c : c = [sop[o] EXCEPT !.pc = s]
  OBVIOUS
<1>2. /\ c \in PageCalls /\ c.pc = s /\ c.kind = sop[o].kind /\ c.base = sop[o].base
      /\ c.prev = sop[o].prev /\ c.got = sop[o].got /\ c.flag = sop[o].flag
  BY <1>1 DEF PageCalls
<1>3. sop' = [sop EXCEPT ![o] = c]
  BY <1>1 DEF GoOn
<1> QED BY <1>2, <1>3

\* ... or ends.
LEMMA CallEnded ==
    ASSUME NEW o \in SOps, sop \in [SOps -> PageCalls], GoOn(o, "idle")
    PROVE  /\ sop' \in [SOps -> PageCalls] /\ \A p \in SOps : p # o => sop'[p] = sop[p]
           /\ sop'[o] = NoCall
<1>1. sop' = [sop EXCEPT ![o] = NoCall]
  BY DEF GoOn
<1> QED BY <1>1, RestingPage

\* An edit of the draft.
LEMMA ApplyPatchKeeps ==
    ASSUME DraftInv, NEW row \in Rows, Savable(row), row.pool = draft.pool, ApplyPatch(row)
    PROVE  DraftInv'
<1>1. UNCHANGED <<kept, applied, saving, sop, booted, running, shown, calls, doubt, astray>> /\ draft' = row
  BY DEF ApplyPatch
<1>2. \A f \in Fields : /\ typed'[f] \in {typed[f], NullRow, row[f]}
                        /\ typed'[f] = typed[f] /\ typed[f] # NullRow => row[f] = draft[f] \/ typed[f] = row[f]
                        /\ typed'[f] # NullRow /\ typed'[f] # typed[f] => AtRest /\ row[f] # applied[f]
  BY DEF ApplyPatch
<1>a. ASSUME NEW f \in Fields, typed'[f] # NullRow
      PROVE  \/ typed'[f] = typed[f] /\ row[f] = draft[f]
             \/ AtRest /\ typed'[f] = row[f] /\ row[f] # applied[f]
  BY <1>a DEF ApplyPatch
<1>3. DraftTyped' /\ RowsSavable' /\ CallsOK'
  BY <1>1 DEF DraftInv, DraftTyped, RowsSavable, CallsOK
<1>4. EditsOK'
  <2>1. typed'["pool"] = NullRow
    <3>1. "pool" \in Fields /\ row["pool"] = draft["pool"]
      BY DEF Fields
    <3> QED BY <3>1 DEF ApplyPatch, DraftInv, EditsOK
  <2>2. \A f \in Fields : typed'[f] # NullRow => draft'[f] = typed'[f] /\ typed'[f] # applied'[f]
    BY <1>1, <1>a DEF DraftInv, EditsOK
  <2>3. \A o \in SOps : sop'[o].pc # "idle" /\ sop'[o].kind = "pool" =>
          \A f \in Fields : typed'[f] # NullRow => sop'[o].base[f] = typed'[f]
    BY <1>1, <1>a DEF DraftInv, EditsOK, AtRest
  <2>4. \A o \in SOps : sop'[o].pc # "idle" /\ sop'[o].kind = "toggle" /\ ~sop'[o].flag =>
          \A f \in Fields : typed'[f] = NullRow
    BY <1>1, <1>a DEF DraftInv, EditsOK, AtRest
  <2> QED BY <2>1, <2>2, <2>3, <2>4 DEF EditsOK
<1>5. OneCall' /\ AnswersOK' /\ StoredOK' /\ RunsOK'
  BY <1>1 DEF DraftInv, OneCall, AnswersOK, StoredOK, RunsOK, HasAnswer, Between
<1> QED BY <1>3, <1>4, <1>5 DEF DraftInv

\* The setters leave a row the runtime would store.
LEMMA PatchesAreRows ==
    ASSUME DraftInv, NEW v \in 0..(MaxVersion + 1), NEW on \in BOOLEAN
    PROVE  /\ LET row == [draft EXCEPT !.discovery = on]
              IN  row \in Rows /\ Savable(row) /\ row.pool = draft.pool
           /\ LET row == SchemaVersionPatch(draft, v)
              IN  row \in Rows /\ Savable(row) /\ row.pool = draft.pool
           /\ LET row == MinVersionPatch(draft, v)
              IN  row \in Rows /\ Savable(row) /\ row.pool = draft.pool
<1>1. draft \in Rows /\ draft.min <= draft.schema
  BY DraftShape DEF DraftInv, RowsSavable, Savable
<1>2. /\ draft.schema \in 1..MaxVersion /\ draft.min \in 1..MaxVersion
  BY <1>1 DEF Rows
<1>3. boundedInteger(v, 1, MaxVersion) \in 1..MaxVersion
  BY DraftAssumption DEF boundedInteger
<1>4. LET row == [draft EXCEPT !.discovery = on]
      IN  row \in Rows /\ Savable(row) /\ row.pool = draft.pool
  BY <1>1 DEF Rows, Savable
<1>5. LET row == SchemaVersionPatch(draft, v)
      IN  row \in Rows /\ Savable(row) /\ row.pool = draft.pool
  <2>1. PICK b \in 1..MaxVersion : b = boundedInteger(v, 1, MaxVersion)
    BY <1>3
  <2>2. PICK m \in 1..MaxVersion : m = (IF draft.min < b THEN draft.min ELSE b)
    BY <1>2
  <2>3. m <= b
    BY <1>2, <2>2
  <2>4. PICK row : row = [draft EXCEPT !.schema = b, !.min = m]
    OBVIOUS
  <2>5. row \in Rows /\ row.min = m /\ row.schema = b /\ row.pool = draft.pool
    BY <1>1, <2>4 DEF Rows
  <2>6. SchemaVersionPatch(draft, v) = row
    BY <1>1, <2>1, <2>2, <2>4 DEF SchemaVersionPatch, Rows
  <2> QED BY <2>3, <2>5, <2>6 DEF Savable
<1>6. LET row == MinVersionPatch(draft, v)
      IN  row \in Rows /\ Savable(row) /\ row.pool = draft.pool
  <2>1. PICK b \in 1..MaxVersion : b = boundedInteger(v, 1, MaxVersion)
    BY <1>3
  <2>2. PICK m \in 1..MaxVersion : m = (IF b < draft.schema THEN b ELSE draft.schema)
    BY <1>2
  <2>3. m <= draft.schema
    BY <1>2, <2>2
  <2>4. PICK row : row = [draft EXCEPT !.min = m]
    OBVIOUS
  <2>5. row \in Rows /\ row.min = m /\ row.schema = draft.schema /\ row.pool = draft.pool
    BY <1>1, <2>4 DEF Rows
  <2>6. MinVersionPatch(draft, v) = row
    BY <2>1, <2>2, <2>4 DEF MinVersionPatch
  <2> QED BY <2>3, <2>5, <2>6 DEF Savable
<1> QED BY <1>4, <1>5, <1>6

\* Every setter of the page.
LEMMA EditKeeps == DraftInv /\ Edit => DraftInv'
<1> SUFFICES ASSUME DraftInv, Edit PROVE DraftInv'
  OBVIOUS
<1>0. 0 \in 0..(MaxVersion + 1) /\ TRUE \in BOOLEAN
  BY DraftAssumption
<1>1. ASSUME NEW on \in BOOLEAN, ApplyPatch([draft EXCEPT !.discovery = on]) PROVE DraftInv'
  BY <1>0, <1>1, PatchesAreRows, ApplyPatchKeeps
<1>2. ASSUME NEW v \in 0..(MaxVersion + 1), ApplyPatch(SchemaVersionPatch(draft, v)) PROVE DraftInv'
  BY <1>0, <1>2, PatchesAreRows, ApplyPatchKeeps
<1>3. ASSUME NEW v \in 0..(MaxVersion + 1), ApplyPatch(MinVersionPatch(draft, v)) PROVE DraftInv'
  BY <1>0, <1>3, PatchesAreRows, ApplyPatchKeeps
<1> QED BY <1>1, <1>2, <1>3 DEF Edit

\* Discarding makes the draft what is applied.
LEMMA DiscardKeeps == DraftInv /\ DiscardChanges => DraftInv'
<1> SUFFICES ASSUME DraftInv, DiscardChanges PROVE DraftInv'
  OBVIOUS
<1>1. /\ UNCHANGED <<kept, applied, sop, running, shown, doubt, astray>> /\ draft' = applied
      /\ \A f \in Fields : typed'[f] = NullRow
  BY DEF DiscardChanges, Untyped
<1>2. DraftTyped' /\ RowsSavable' /\ CallsOK'
  BY <1>1 DEF DraftInv, DraftTyped, RowsSavable, CallsOK
<1>3. EditsOK'
  BY <1>1 DEF EditsOK, Fields
<1>4. OneCall' /\ AnswersOK' /\ StoredOK' /\ RunsOK'
  BY <1>1 DEF DraftInv, OneCall, AnswersOK, StoredOK, RunsOK, HasAnswer, Between
<1> QED BY <1>2, <1>3, <1>4 DEF DraftInv

\* A poll of the status shows whether the cluster runs.
LEMMA PollKeeps == DraftInv /\ PollStatus => DraftInv'
<1> SUFFICES ASSUME DraftInv, PollStatus PROVE DraftInv'
  OBVIOUS
<1>1. UNCHANGED <<kept, draft, applied, sop, running, doubt, astray, typed>> /\ shown' = running.on
  BY DEF PollStatus
<1>2. DraftTyped' /\ RowsSavable' /\ CallsOK'
  BY <1>1 DEF DraftInv, DraftTyped, RowsSavable, CallsOK
<1>3. EditsOK' /\ OneCall' /\ AnswersOK' /\ StoredOK' /\ RunsOK'
  BY <1>1 DEF DraftInv, EditsOK, OneCall, AnswersOK, StoredOK, RunsOK, HasAnswer, Between
<1> QED BY <1>2, <1>3 DEF DraftInv

\* A call begins.
LEMMA BeginKeeps ==
    ASSUME DraftInv, NEW o \in SOps, NEW call \in {"load", "save", "pool", "toggle"},
           NEW pc \in {"sent", "off", "enable"}, NEW base \in RowsOrNull, NEW flag \in BOOLEAN,
           BeginCall(o, call, pc, base, flag),
           Savable(base), call # "load" => base \in Rows,
           pc # "sent" => call = "toggle", call = "toggle" => pc # "sent",
           call = "pool" => base = draft,
           call = "toggle" /\ ~flag => base = applied /\ draft = applied
    PROVE  DraftInv'
<1>1. /\ sop[o].pc = "idle"
      /\ doubt' = IF AtRest THEN doubt ELSE doubt \cup {"overlap"}
      /\ UNCHANGED <<kept, draft, applied, running, shown, edits, typed, astray>>
  BY DEF BeginCall
<1>2. PICK c : c = [pc |-> pc, kind |-> call, base |-> base, prev |-> applied,
                    got |-> NullRow, flag |-> flag]
  OBVIOUS
<1>3. /\ c \in PageCalls /\ c.pc = pc /\ c.kind = call /\ c.base = base /\ c.prev = applied
      /\ c.got = NullRow /\ c.flag = flag
  BY <1>2, DraftShape DEF PageCalls, RowsOrNull
<1>4. sop' = [sop EXCEPT ![o] = c]
  BY <1>2 DEF BeginCall
<1>5. /\ sop' \in [SOps -> PageCalls] /\ sop'[o] = c /\ \A p \in SOps : p # o => sop'[p] = sop[p]
  BY <1>3, <1>4, DraftShape
<1>6. DraftTyped' /\ RowsSavable'
  BY <1>1, <1>5 DEF DraftInv, DraftTyped, RowsSavable
<1>7. CallsOK'
  <2>1. CallOK(c)
    BY <1>3, DraftAssumption DEF CallOK, Savable
  <2> QED BY <1>5, <2>1 DEF DraftInv, CallsOK
<1>8. EditsOK'
  BY <1>1, <1>3, <1>5 DEF DraftInv, EditsOK
<1>9. OneCall'
  BY <1>1, <1>3, <1>5 DEF DraftInv, OneCall, AtRest
<1>10. AnswersOK'
  BY <1>1, <1>3, <1>5 DEF DraftInv, AnswersOK, HasAnswer
<1>11. StoredOK'
  BY <1>1, <1>3, <1>5 DEF DraftInv, StoredOK, HasAnswer, AtRest
<1>12. RunsOK'
  <2>1. "unloaded" \in doubt' => "unloaded" \in doubt
    BY <1>1
  <2>2. ASSUME doubt' = {} PROVE AtRest /\ doubt = {}
    BY <1>1, <2>2
  <2>3. ASSUME AtRest PROVE ~ \E p \in SOps : Between(sop[p])
    BY <2>3 DEF AtRest, Between
  <2> QED BY <1>1, <2>1, <2>2, <2>3 DEF DraftInv, RunsOK
<1> QED BY <1>6, <1>7, <1>8, <1>9, <1>10, <1>11, <1>12 DEF DraftInv

\* Every call that a button or the start of the page makes.
LEMMA CallsBegin ==
    ASSUME DraftInv, NEW o \in SOps,
           RefreshSettings(o) \/ SaveSettings(o) \/ UpdatePool(o) \/ ToggleSync(o)
    PROVE  DraftInv'
<1>0. /\ draft \in RowsOrNull /\ applied \in RowsOrNull /\ NullRow \in RowsOrNull /\ draft \in Rows /\ applied \in Rows
      /\ Savable(draft) /\ Savable(applied) /\ Savable(NullRow)
  BY DraftShape, DraftAssumption DEF RowsOrNull, DraftInv, RowsSavable, Savable
<1>1. CASE RefreshSettings(o)
  <2>1. BeginCall(o, "load", "sent", NullRow, FALSE)
    BY <1>1 DEF RefreshSettings
  <2> QED BY <1>0, <2>1, BeginKeeps
<1>2. CASE SaveSettings(o)
  <2>1. BeginCall(o, "save", "sent", draft, shown)
    BY <1>2 DEF SaveSettings
  <2> QED BY <1>0, <2>1, BeginKeeps, DraftShape
<1>3. CASE UpdatePool(o)
  <2>1. BeginCall(o, "pool", "sent", draft, FALSE)
    BY <1>3 DEF UpdatePool
  <2> QED BY <1>0, <2>1, BeginKeeps
<1>4. CASE ToggleSync(o)
  <2>1. PICK u \in BOOLEAN : u = (draft # applied)
    OBVIOUS
  <2>2. PICK base \in RowsOrNull : /\ base = (IF u THEN draft ELSE applied)
    BY <1>0
  <2>3. PICK pc \in {"off", "enable"} : BeginCall(o, "toggle", pc, base, u)
    BY <1>4, <2>1, <2>2 DEF ToggleSync
  <2>4. base \in Rows /\ Savable(base) /\ (~u => base = applied /\ draft = applied)
    BY <1>0, <2>1, <2>2
  <2> QED BY <2>3, <2>4, BeginKeeps
<1> QED BY <1>1, <1>2, <1>3, <1>4

\* The runtime stores what a call asks for, or does not.
LEMMA RequestedIsRow ==
    ASSUME DraftInv, NEW o \in SOps
    PROVE  /\ Requested(sop[o]) \in Rows
           /\ sop[o].kind = "pool" => SyncPart(Requested(sop[o])) = SyncPart(kept)
           /\ sop[o].kind \in {"none", "load"} => Requested(sop[o]) = kept
           /\ sop[o].kind = "toggle" => Requested(sop[o]) = [sop[o].base EXCEPT !.discovery = FALSE]
<1>0. sop[o] \in PageCalls /\ CallOK(sop[o]) /\ kept \in Rows
  BY DraftShape
<1>1. sop[o].kind \in {"none", "load", "save", "pool", "toggle"}
  BY <1>0 DEF PageCalls
<1>2. CASE sop[o].kind \in {"none", "load"}
  BY <1>0, <1>2 DEF Requested
<1>3. CASE sop[o].kind = "save"
  BY <1>0, <1>3 DEF Requested, CallOK
<1>4. CASE sop[o].kind = "toggle"
  <2>1. PICK b \in Rows : b = sop[o].base
    BY <1>0, <1>4 DEF CallOK
  <2>2. [b EXCEPT !.discovery = FALSE] \in Rows
    BY DEF Rows
  <2> QED BY <1>4, <2>1, <2>2 DEF Requested
<1>5. CASE sop[o].kind = "pool"
  <2>1. PICK b \in Rows : b = sop[o].base
    BY <1>0, <1>5 DEF CallOK
  <2>2. 1 - b.pool \in {0, 1}
    BY <2>1 DEF Rows
  <2>3. PICK n \in {0, 1} : n = 1 - sop[o].base.pool
    BY <2>1, <2>2
  <2>4. PICK row : row = [kept EXCEPT !.pool = n]
    OBVIOUS
  <2>5. /\ row \in Rows /\ row.discovery = kept.discovery /\ row.schema = kept.schema
        /\ row.min = kept.min
    BY <1>0, <2>4 DEF Rows
  <2>6. Requested(sop[o]) = row
    BY <1>5, <2>3, <2>4 DEF Requested
  <2> QED BY <1>5, <2>5, <2>6 DEF SyncPart
<1> QED BY <1>1, <1>2, <1>3, <1>4, <1>5

\* The runtime handles the request of a call.
LEMMA HandlesKeeps ==
    ASSUME DraftInv, NEW o \in SOps, NEW outcome \in {"answered", "refused", "lost"},
           RuntimeHandles(o, outcome)
    PROVE  DraftInv'
<1>0. PICK row \in Rows : row = Requested(sop[o])
  BY RequestedIsRow
<1>1. /\ sop[o].pc = "sent" /\ (outcome # "refused" => row.min <= row.schema)
      /\ kept' = (IF outcome = "refused" THEN kept ELSE row)
      /\ doubt' = IF outcome = "lost" /\ sop[o].kind # "load" THEN doubt \cup {"lost"} ELSE doubt
      /\ UNCHANGED <<draft, applied, running, shown, typed, astray>>
  BY <1>0 DEF RuntimeHandles
<1>2. PICK got \in RowsOrNull : got = (IF outcome = "answered" THEN row ELSE NullRow)
  BY <1>0 DEF RowsOrNull
<1>3. PICK c : c = [sop[o] EXCEPT !.pc = "answered", !.got = got]
  OBVIOUS
<1>4. /\ c \in PageCalls /\ c.pc = "answered" /\ c.got = got /\ c.kind = sop[o].kind
      /\ c.base = sop[o].base /\ c.prev = sop[o].prev /\ c.flag = sop[o].flag
  BY <1>3, DraftShape DEF PageCalls
<1>5. sop' = [sop EXCEPT ![o] = c]
  <2>1. sop' = [sop EXCEPT ![o].pc = "answered", ![o].got = got]
    BY <1>0, <1>2 DEF RuntimeHandles
  <2> QED BY <1>3, <2>1, DraftShape DEF PageCalls
<1>6. /\ sop' \in [SOps -> PageCalls] /\ sop'[o] = c /\ \A p \in SOps : p # o => sop'[p] = sop[p]
  BY <1>4, <1>5, DraftShape
<1>7. /\ kept' \in Rows /\ Savable(kept') /\ Savable(got)
      /\ got # NullRow => got = kept' /\ outcome = "answered"
  BY <1>0, <1>1, <1>2, DraftAssumption DEF DraftInv, RowsSavable, Savable, DraftTyped
<1>8. DraftTyped' /\ RowsSavable'
  BY <1>1, <1>6, <1>7 DEF DraftInv, DraftTyped, RowsSavable, Savable
<1>9. CallsOK'
  <2>1. CallOK(c)
    BY <1>1, <1>4, <1>7, DraftShape DEF CallOK
  <2> QED BY <1>6, <2>1 DEF DraftInv, CallsOK
<1>10. EditsOK'
  BY <1>1, <1>4, <1>6 DEF DraftInv, EditsOK
<1>11. OneCall'
  BY <1>1, <1>4, <1>6 DEF DraftInv, OneCall
<1>12. "overlap" \notin doubt => \A p \in SOps : p # o => sop[p].pc = "idle"
  BY <1>1 DEF DraftInv, OneCall
<1>13. AnswersOK'
  BY <1>1, <1>4, <1>6, <1>7, <1>12 DEF AnswersOK, HasAnswer
<1>14. ASSUME doubt = {} PROVE applied = kept /\ ~ \E p \in SOps : p # o /\ Between(sop[p])
  BY <1>1, <1>12, <1>14 DEF DraftInv, StoredOK, Between
<1>15. StoredOK'
  <2> SUFFICES ASSUME doubt' = {} PROVE applied' = kept' \/ (sop'[o].pc = "answered" /\ sop'[o].got # NullRow)
    BY DEF StoredOK, HasAnswer
  <2>1. CASE outcome = "answered"
    BY <1>0, <1>2, <1>4, <1>6, <2>1, DraftAssumption
  <2>2. CASE outcome = "refused"
    BY <1>1, <1>14, <2>2
  <2>3. CASE outcome = "lost"
    BY <1>0, <1>1, <1>14, <2>3, RequestedIsRow
  <2> QED BY <2>1, <2>2, <2>3
<1>16. RunsOK'
  <2>1. "unloaded" \in doubt' => "unloaded" \in doubt
    BY <1>1
  <2>2. ASSUME doubt' = {}, ~astray, running.on
        PROVE  running.conf = SyncPart(kept') \/ Between(sop[o])'
    <3>1. doubt = {} /\ (outcome = "lost" => sop[o].kind = "load")
      BY <1>1, <2>2
    <3>2. running.conf = SyncPart(kept) \/ Between(sop[o])
      BY <1>14, <2>2, <3>1 DEF DraftInv, RunsOK
    <3>3. sop[o].kind \in {"load", "save", "pool", "toggle"}
      BY <1>1, DraftShape DEF CallOK, PageCalls
    <3>4. CASE sop[o].kind = "load"
      BY <1>0, <1>1, <3>2, <3>4, RequestedIsRow DEF Between
    <3>5. CASE sop[o].kind = "pool"
      BY <1>0, <1>1, <3>2, <3>5, RequestedIsRow DEF Between
    <3>6. CASE sop[o].kind = "save"
      <4>1. running.conf = SyncPart(kept) /\ sop[o].prev = applied /\ applied = kept
        BY <1>1, <1>14, <3>1, <3>2, <3>6 DEF Between, DraftInv, AnswersOK
      <4>2. CASE outcome = "refused"
        BY <1>1, <4>1, <4>2
      <4>3. CASE outcome = "answered"
        BY <1>0, <1>1, <1>2, <1>4, <1>6, <3>6, <4>1, <4>3, DraftAssumption DEF Between
      <4> QED BY <3>1, <3>6, <4>2, <4>3
    <3>7. CASE sop[o].kind = "toggle"
      <4>1. CASE outcome = "refused"
        BY <1>2, <1>4, <1>6, <3>7, <4>1 DEF Between
      <4>2. CASE outcome = "answered"
        <5>1. kept' = row /\ row = [sop[o].base EXCEPT !.discovery = FALSE]
          BY <1>0, <1>1, <3>7, <4>2, RequestedIsRow
        <5> QED BY <1>1, <3>1, <3>7, <5>1 DEF DraftInv, AnswersOK
      <4> QED BY <3>1, <3>7, <4>1, <4>2
    <3> QED BY <3>3, <3>4, <3>5, <3>6, <3>7
  <2> QED BY <1>1, <2>1, <2>2 DEF DraftInv, RunsOK
<1> QED BY <1>8, <1>9, <1>10, <1>11, <1>13, <1>15, <1>16 DEF DraftInv

\* While calls do not overlap, no other call is under way.
LEMMA NoOtherCall ==
    ASSUME DraftInv, NEW o \in SOps, sop[o].pc # "idle", "overlap" \notin doubt
    PROVE  \A p \in SOps : p # o => sop[p].pc = "idle"
  BY DEF DraftInv, OneCall

\* What a call that goes on or ends leaves as it was.
LEMMA CallsKeep ==
    ASSUME DraftInv, NEW o \in SOps, sop[o].pc # "idle", sop' \in [SOps -> PageCalls],
           \A p \in SOps : p # o => sop'[p] = sop[p], doubt' \in {doubt, doubt \ {"unloaded"}},
           CallOK(sop'[o])
    PROVE  CallsOK' /\ OneCall'
<1>1. CallsOK'
  BY DEF DraftInv, CallsOK
<1>2. OneCall'
  BY DEF DraftInv, OneCall
<1> QED BY <1>1, <1>2

\* The edits an answer leaves are still unsaved and as they were captured.
LEMMA EditsKeep ==
    ASSUME DraftInv, NEW o \in SOps, \A p \in SOps : p # o => sop'[p] = sop[p],
           sop'[o].pc # "idle" /\ sop'[o].kind \in {"pool", "toggle"} =>
              /\ sop[o].pc # "idle" /\ sop'[o].kind = sop[o].kind
              /\ sop'[o].base = sop[o].base /\ sop'[o].flag = sop[o].flag,
           \A f \in Fields : typed'[f] = typed[f] \/ typed'[f] = NullRow,
           \A f \in Fields : typed'[f] # NullRow => draft'[f] = typed[f] /\ typed[f] # applied'[f]
    PROVE  EditsOK'
<1>1. typed'["pool"] = NullRow
  BY DEF DraftInv, EditsOK, Fields
<1>2. \A f \in Fields : typed'[f] # NullRow => draft'[f] = typed'[f] /\ typed'[f] # applied'[f]
  OBVIOUS
<1>3. ASSUME NEW p \in SOps, sop'[p].pc # "idle", sop'[p].kind = "pool", NEW f \in Fields, typed'[f] # NullRow
      PROVE  sop'[p].base[f] = typed'[f]
  BY <1>3 DEF DraftInv, EditsOK
<1>4. ASSUME NEW p \in SOps, sop'[p].pc # "idle", sop'[p].kind = "toggle", ~sop'[p].flag, NEW f \in Fields
      PROVE  typed'[f] = NullRow
  BY <1>4 DEF DraftInv, EditsOK
<1> QED BY <1>1, <1>2, <1>3, <1>4 DEF EditsOK

\* A save is answered: the answer becomes draft and applied, and may ask for a
\* restart of the cluster.
LEMMA SaveKeeps ==
    ASSUME DraftInv, NEW o \in SOps, SaveAnswered(o)
    PROVE  DraftInv'
<1>0. /\ sop[o].pc = "answered" /\ sop[o].kind = "save" /\ sop[o] \in PageCalls /\ CallOK(sop[o])
      /\ UNCHANGED <<kept, running, shown, doubt>>
  BY DraftShape DEF SaveAnswered
<1>1. CASE sop[o].got = NullRow
  <2>1. GoOn(o, "idle") /\ UNCHANGED <<draft, applied, typed, astray>>
    BY <1>1 DEF SaveAnswered
  <2>2. /\ sop' \in [SOps -> PageCalls] /\ sop'[o] = NoCall /\ \A p \in SOps : p # o => sop'[p] = sop[p]
    BY <2>1, DraftShape, CallEnded
  <2>3. DraftTyped' /\ RowsSavable'
    BY <1>0, <2>1, <2>2 DEF DraftInv, DraftTyped, RowsSavable
  <2>4. CallsOK' /\ OneCall'
    BY <1>0, <2>2, RestingPage, CallsKeep
  <2>5. EditsOK'
    BY <1>0, <2>1, <2>2, RestingPage, EditsKeep DEF DraftInv, EditsOK
  <2>6. AnswersOK'
    BY <1>0, <2>1, <2>2, RestingPage DEF DraftInv, AnswersOK, HasAnswer
  <2>7. StoredOK'
    BY <1>0, <1>1, <2>1, <2>2 DEF DraftInv, StoredOK, HasAnswer
  <2>8. RunsOK'
    BY <1>0, <1>1, <2>1, <2>2 DEF DraftInv, RunsOK, Between
  <2> QED BY <2>3, <2>4, <2>5, <2>6, <2>7, <2>8 DEF DraftInv
<1>2. CASE sop[o].got # NullRow
  <2>0. sop[o].got \in Rows /\ Savable(sop[o].got)
    BY <1>0, <1>2 DEF PageCalls, RowsOrNull, CallOK
  <2>1. /\ applied' = sop[o].got /\ draft' = sop[o].got /\ typed' = Untyped
        /\ astray' = (astray \/ (running.on /\ ~sop[o].flag))
        /\ GoOn(o, IF Restarts(sop[o]) THEN "disable" ELSE "idle")
    BY <1>2 DEF SaveAnswered
  <2>2. /\ sop' \in [SOps -> PageCalls] /\ \A p \in SOps : p # o => sop'[p] = sop[p]
        /\ CallOK(sop'[o])
        /\ \/ /\ Restarts(sop[o]) /\ sop'[o].pc = "disable" /\ sop'[o].kind = "save"
              /\ sop'[o].got = sop[o].got
           \/ ~Restarts(sop[o]) /\ sop'[o].pc = "idle"
    <3>1. CASE Restarts(sop[o])
      <4>1. GoOn(o, "disable")
        BY <2>1, <3>1
      <4>2. /\ sop' \in [SOps -> PageCalls] /\ \A p \in SOps : p # o => sop'[p] = sop[p]
            /\ sop'[o].pc = "disable" /\ sop'[o].kind = sop[o].kind /\ sop'[o].base = sop[o].base
            /\ sop'[o].got = sop[o].got
        BY <1>0, <4>1, DraftShape, CallMoved
      <4>3. CallOK(sop'[o])
        BY <1>0, <2>0, <4>2 DEF CallOK
      <4> QED BY <1>0, <3>1, <4>2, <4>3
    <3>2. CASE ~Restarts(sop[o])
      <4>1. GoOn(o, "idle")
        BY <2>1, <3>2
      <4> QED BY <3>2, <4>1, DraftShape, CallEnded, RestingPage
    <3> QED BY <3>1, <3>2
  <2>3. astray' \in BOOLEAN
    BY <2>1
  <2>4. DraftTyped' /\ RowsSavable'
    BY <1>0, <2>0, <2>1, <2>2, <2>3 DEF DraftInv, DraftTyped, RowsSavable, Savable
  <2>5. CallsOK' /\ OneCall'
    BY <1>0, <2>2, CallsKeep
  <2>6. EditsOK'
    <3>1. \A f \in Fields : typed'[f] = NullRow
      BY <2>1 DEF Untyped
    <3> QED BY <1>0, <2>2, <3>1, EditsKeep
  <2>7. ASSUME "overlap" \notin doubt
        PROVE  sop[o].got = kept /\ \A p \in SOps : p # o => sop[p].pc = "idle"
    BY <1>0, <1>2, <2>7, NoOtherCall DEF DraftInv, AnswersOK, HasAnswer
  <2>8. AnswersOK'
    BY <1>0, <2>1, <2>2, <2>7 DEF AnswersOK, HasAnswer
  <2>9. StoredOK'
    BY <1>0, <2>1, <2>7 DEF StoredOK
  <2>10. RunsOK'
    <3>1. "unloaded" \in doubt' /\ running'.on => astray'
      BY <1>0, <2>1 DEF DraftInv, RunsOK
    <3>2. ASSUME doubt' = {}, ~astray', running'.on
          PROVE  running'.conf = SyncPart(kept') \/ Between(sop[o])'
      <4>1. doubt = {} /\ ~astray /\ running.on /\ sop[o].flag
        BY <1>0, <2>1, <3>2
      <4>2. CASE Restarts(sop[o])
        BY <2>2, <4>2 DEF Between
      <4>3. CASE ~Restarts(sop[o])
        <5>1. SyncPart(sop[o].prev) = SyncPart(kept)
          BY <2>7, <4>1, <4>3 DEF Restarts
        <5>2. running.conf = SyncPart(kept) \/ running.conf = SyncPart(sop[o].prev)
          BY <1>0, <1>2, <2>7, <4>1 DEF DraftInv, RunsOK, Between
        <5> QED BY <1>0, <5>1, <5>2
      <4> QED BY <4>2, <4>3
    <3> QED BY <3>1, <3>2 DEF RunsOK
  <2> QED BY <2>4, <2>5, <2>6, <2>8, <2>9, <2>10 DEF DraftInv
<1> QED BY <1>1, <1>2

\* A change of the pool is answered: applied is the answer, the draft is as it
\* was captured, with the new pool.
LEMMA PoolKeeps ==
    ASSUME DraftInv, NEW o \in SOps, PoolAnswered(o)
    PROVE  DraftInv'
<1>0. /\ sop[o].pc = "answered" /\ sop[o].kind = "pool" /\ sop[o] \in PageCalls /\ CallOK(sop[o])
      /\ UNCHANGED <<kept, running, shown, doubt, astray>> /\ GoOn(o, "idle")
  BY DraftShape DEF PoolAnswered
<1>1. /\ sop' \in [SOps -> PageCalls] /\ sop'[o] = NoCall /\ \A p \in SOps : p # o => sop'[p] = sop[p]
  BY <1>0, DraftShape, CallEnded
<1>2. CallsOK' /\ OneCall'
  BY <1>0, <1>1, RestingPage, CallsKeep
<1>3. ASSUME "overlap" \notin doubt
      PROVE  /\ sop[o].got # NullRow => sop[o].got = kept
             /\ \A p \in SOps : p # o => sop[p].pc = "idle"
  BY <1>0, <1>3, NoOtherCall DEF DraftInv, AnswersOK, HasAnswer
<1>4. AnswersOK'
  BY <1>0, <1>1, <1>3, RestingPage DEF AnswersOK, HasAnswer
<1>5. RunsOK'
  BY <1>0, <1>1 DEF DraftInv, RunsOK, Between
<1>6. CASE sop[o].got = NullRow
  <2>1. UNCHANGED <<draft, applied, typed>>
    BY <1>6 DEF PoolAnswered
  <2>2. DraftTyped' /\ RowsSavable'
    BY <1>0, <1>1, <2>1 DEF DraftInv, DraftTyped, RowsSavable
  <2>3. EditsOK'
    BY <1>0, <1>1, <2>1, RestingPage, EditsKeep DEF DraftInv, EditsOK
  <2>4. StoredOK'
    BY <1>0, <1>1, <1>6, <2>1 DEF DraftInv, StoredOK, HasAnswer
  <2> QED BY <1>2, <1>4, <1>5, <2>2, <2>3, <2>4 DEF DraftInv
<1>7. CASE sop[o].got # NullRow
  <2>0. PICK got \in Rows, base \in Rows : got = sop[o].got /\ base = sop[o].base
    BY <1>0, <1>7 DEF PageCalls, RowsOrNull, CallOK
  <2>a. Savable(got) /\ Savable(base)
    BY <1>0, <2>0 DEF CallOK
  <2>1. applied' = got /\ draft' = [base EXCEPT !.pool = got.pool] /\ typed' = StillTyped(got)
    BY <1>7, <2>0 DEF PoolAnswered, PoolDraft
  <2>2. /\ draft' \in Rows /\ Savable(draft')
        /\ draft'["discovery"] = base["discovery"] /\ draft'["schema"] = base["schema"]
        /\ draft'["min"] = base["min"]
    BY <2>1, <2>a DEF Rows, Savable
  <2>3. DraftTyped' /\ RowsSavable'
    BY <1>0, <1>1, <2>1, <2>2, <2>a DEF DraftInv, DraftTyped, RowsSavable, Savable
  <2>4. \A f \in Fields : /\ typed'[f] = typed[f] \/ typed'[f] = NullRow
                          /\ typed'[f] # NullRow => typed[f] # got[f]
    BY <2>1 DEF StillTyped
  <2>5. ASSUME NEW f \in Fields, typed'[f] # NullRow PROVE draft'[f] = typed[f]
    <3>1. f # "pool" /\ typed[f] # NullRow
      BY <2>4, <2>5 DEF DraftInv, EditsOK
    <3>2. base[f] = typed[f]
      BY <1>0, <2>0, <3>1 DEF DraftInv, EditsOK
    <3> QED BY <2>2, <3>1, <3>2 DEF Fields
  <2>6. EditsOK'
    BY <1>0, <1>1, <2>1, <2>4, <2>5, RestingPage, EditsKeep
  <2>7. StoredOK'
    BY <1>0, <1>3, <1>7, <2>0, <2>1 DEF StoredOK
  <2> QED BY <1>2, <1>4, <1>5, <2>3, <2>6, <2>7 DEF DraftInv
<1> QED BY <1>6, <1>7

\* The settings are loaded.
LEMMA LoadedKeeps ==
    ASSUME DraftInv, NEW o \in SOps, SettingsLoaded(o)
    PROVE  DraftInv'
<1>0. /\ sop[o].pc = "answered" /\ sop[o].kind = "load" /\ sop[o] \in PageCalls /\ CallOK(sop[o])
      /\ UNCHANGED <<kept, running, shown, astray>> /\ GoOn(o, "idle")
  BY DraftShape DEF SettingsLoaded
<1>1. /\ sop' \in [SOps -> PageCalls] /\ sop'[o] = NoCall /\ \A p \in SOps : p # o => sop'[p] = sop[p]
  BY <1>0, DraftShape, CallEnded
<1>3. ASSUME "overlap" \notin doubt
      PROVE  /\ sop[o].got # NullRow => sop[o].got = kept
             /\ \A p \in SOps : p # o => sop[p].pc = "idle"
  BY <1>0, <1>3, NoOtherCall DEF DraftInv, AnswersOK, HasAnswer
<1>6. CASE sop[o].got = NullRow
  <2>1. UNCHANGED <<draft, applied, typed, doubt>>
    BY <1>6 DEF SettingsLoaded
  <2>2. DraftTyped' /\ RowsSavable'
    BY <1>0, <1>1, <2>1 DEF DraftInv, DraftTyped, RowsSavable
  <2>3. EditsOK'
    BY <1>0, <1>1, <2>1, RestingPage, EditsKeep DEF DraftInv, EditsOK
  <2>4. StoredOK'
    BY <1>0, <1>1, <1>6, <2>1 DEF DraftInv, StoredOK, HasAnswer
  <2>5. CallsOK' /\ OneCall'
    BY <1>0, <1>1, <2>1, RestingPage, CallsKeep
  <2>6. AnswersOK'
    BY <1>0, <1>1, <1>3, <2>1, RestingPage DEF AnswersOK, HasAnswer
  <2>7. RunsOK'
    BY <1>0, <1>1, <2>1 DEF DraftInv, RunsOK, Between
  <2> QED BY <2>2, <2>3, <2>4, <2>5, <2>6, <2>7 DEF DraftInv
<1>7. CASE sop[o].got # NullRow
  <2>0. PICK got \in Rows : got = sop[o].got
    BY <1>0, <1>7 DEF PageCalls, RowsOrNull
  <2>1. /\ applied' = got /\ draft' = got /\ typed' = Untyped /\ doubt' = doubt \ {"unloaded"}
        /\ Savable(got)
    BY <1>0, <1>7, <2>0 DEF SettingsLoaded, CallOK
  <2>2. DraftTyped' /\ RowsSavable'
    BY <1>0, <1>1, <2>1 DEF DraftInv, DraftTyped, RowsSavable, Savable
  <2>3. EditsOK'
    <3>1. \A f \in Fields : typed'[f] = NullRow
      BY <2>1 DEF Untyped
    <3> QED BY <1>1, <3>1, RestingPage, EditsKeep
  <2>4. StoredOK'
    <3>1. doubt' = {} => "overlap" \notin doubt
      BY <2>1
    <3> QED BY <1>0, <1>3, <1>7, <2>0, <2>1, <3>1 DEF StoredOK
  <2>5. CallsOK' /\ OneCall'
    BY <1>0, <1>1, <2>1, RestingPage, CallsKeep
  <2>6. AnswersOK'
    <3>1. "overlap" \notin doubt' => "overlap" \notin doubt
      BY <2>1
    <3> QED BY <1>0, <1>1, <1>3, <3>1, RestingPage DEF AnswersOK, HasAnswer
  <2>7. RunsOK'
    <3>1. "unloaded" \notin doubt' /\ (doubt' = {} => doubt = {} \/ "unloaded" \in doubt)
      BY <2>1
    <3>2. doubt = {} => ~ \E p \in SOps : Between(sop[p])
      BY <1>0, <1>3 DEF Between
    <3> QED BY <1>0, <3>1, <3>2 DEF DraftInv, RunsOK
  <2> QED BY <2>2, <2>3, <2>4, <2>5, <2>6, <2>7 DEF DraftInv
<1> QED BY <1>6, <1>7

\* A step of the switch or of a restart: the settings are not touched, and what
\* the call captured stays until it ends.
LEMMA SwitchSteps ==
    ASSUME DraftInv, NEW o \in SOps, sop[o].pc \notin {"idle", "answered"},
           UNCHANGED <<kept, draft, applied, typed, doubt>>, shown' \in BOOLEAN, running'.on \in BOOLEAN,
           sop' \in [SOps -> PageCalls], \A p \in SOps : p # o => sop'[p] = sop[p],
           \/ sop'[o] = NoCall
           \/ /\ sop'[o].pc \in {"sent", "fallback", "restart", "status"}
              /\ sop'[o].kind = sop[o].kind /\ sop'[o].base = sop[o].base
              /\ sop'[o].got = sop[o].got /\ sop'[o].flag = sop[o].flag,
           sop'[o].pc \in {"sent", "fallback"} => sop[o].kind = "toggle",
           sop'[o].pc = "sent" => running'.conf = SyncPart([sop[o].base EXCEPT !.discovery = FALSE]),
           sop'[o].pc = "restart" => sop[o].pc = "disable",
           running' # running => sop[o].pc # "status" /\ sop[o].pc # "sent",
           astray' \in BOOLEAN, RunsOK'
    PROVE  DraftInv'
<1>1. DraftTyped' /\ RowsSavable'
  BY DEF DraftInv, DraftTyped, RowsSavable
<1>2. CallOK(sop'[o])
  BY DraftShape, RestingPage DEF CallOK
<1>3. CallsOK' /\ OneCall'
  BY <1>2, CallsKeep
<1>4. EditsOK'
  BY RestingPage, EditsKeep DEF DraftInv, EditsOK
<1>5. AnswersOK'
  <2> SUFFICES ASSUME "overlap" \notin doubt PROVE AnswersOK'
    BY DEF AnswersOK
  <2>1. \A p \in SOps : p # o => sop'[p].pc = "idle"
    BY NoOtherCall
  <2>2. sop[o].pc = "disable" /\ HasAnswer(o) => sop[o].got = kept
    BY DEF DraftInv, AnswersOK
  <2> QED BY <2>1, <2>2, RestingPage DEF AnswersOK, HasAnswer
<1>6. StoredOK'
  BY DEF DraftInv, StoredOK, HasAnswer
<1> QED BY <1>1, <1>3, <1>4, <1>5, <1>6 DEF DraftInv

\* The cluster is switched off, by the user or before a restart.
LEMMA DisableKeeps ==
    ASSUME DraftInv, NEW o \in SOps, NEW ok \in BOOLEAN, Disable(o, ok)
    PROVE  DraftInv'
<1>0. /\ sop[o].pc \in {"off", "disable"} /\ sop[o] \in PageCalls /\ CallOK(sop[o])
      /\ running' = (IF ok THEN ClusterOff ELSE running)
      /\ GoOn(o, IF ~ok THEN "idle" ELSE IF sop[o].pc = "off" THEN "status" ELSE "restart")
      /\ astray' = (astray \/ (~ok /\ sop[o].pc = "disable"))
      /\ UNCHANGED <<kept, draft, applied, saving, booted, shown, edits, calls, typed, doubt>>
  BY DraftShape DEF Disable
<1>1. /\ sop' \in [SOps -> PageCalls] /\ \A p \in SOps : p # o => sop'[p] = sop[p]
      /\ \/ ~ok /\ sop'[o] = NoCall
         \/ /\ ok /\ sop'[o].pc = (IF sop[o].pc = "off" THEN "status" ELSE "restart")
            /\ sop'[o].kind = sop[o].kind /\ sop'[o].base = sop[o].base
            /\ sop'[o].got = sop[o].got /\ sop'[o].flag = sop[o].flag
  <2>1. CASE ~ok
    <3>1. GoOn(o, "idle")
      BY <1>0, <2>1
    <3> QED BY <2>1, <3>1, DraftShape, CallEnded
  <2>2. CASE ok
    <3>1. PICK s \in {"status", "restart"} : s = IF sop[o].pc = "off" THEN "status" ELSE "restart"
      OBVIOUS
    <3>2. GoOn(o, s) /\ s \in {"sent", "disable", "fallback", "restart", "status"}
      BY <1>0, <2>2, <3>1
    <3> QED BY <1>0, <2>2, <3>1, <3>2, DraftShape, CallMoved
  <2> QED BY <2>1, <2>2
<1>2. astray' \in BOOLEAN /\ running'.on \in BOOLEAN /\ shown' \in BOOLEAN
  BY <1>0, DraftShape, RestingPage
<1>3. RunsOK'
  <2>1. "unloaded" \in doubt' /\ running'.on => astray'
    BY <1>0, RestingPage DEF DraftInv, RunsOK
  <2>2. ASSUME doubt' = {}, ~astray', running'.on
        PROVE  running'.conf = SyncPart(kept')
    <3>1. ~ok /\ sop[o].pc = "off" /\ ~astray /\ running' = running /\ doubt = {}
      BY <1>0, <2>2, RestingPage
    <3>2. \A p \in SOps : p # o => sop[p].pc = "idle"
      BY <3>1, NoOtherCall
    <3>3. ~ \E p \in SOps : Between(sop[p])
      BY <3>1, <3>2 DEF Between
    <3> QED BY <1>0, <2>2, <3>1, <3>3 DEF DraftInv, RunsOK
  <2> QED BY <2>1, <2>2 DEF RunsOK
<1>4. sop'[o].pc \notin {"sent", "fallback"} /\ (sop'[o].pc = "restart" => sop[o].pc = "disable")
  BY <1>0, <1>1, RestingPage
<1>5. \/ sop'[o] = NoCall
      \/ /\ sop'[o].pc \in {"sent", "fallback", "restart", "status"}
         /\ sop'[o].kind = sop[o].kind /\ sop'[o].base = sop[o].base
         /\ sop'[o].got = sop[o].got /\ sop'[o].flag = sop[o].flag
  BY <1>1
<1> QED BY <1>0, <1>1, <1>2, <1>3, <1>4, <1>5, SwitchSteps

\* The cluster is switched on, or is not.
LEMMA EnableKeeps ==
    ASSUME DraftInv, NEW o \in SOps, NEW outcome \in {"ok", "unreachable", "failed"}, Enable(o, outcome)
    PROVE  DraftInv'
<1>0. /\ sop[o].pc \in {"enable", "fallback", "restart"} /\ sop[o] \in PageCalls /\ CallOK(sop[o])
      /\ outcome = "unreachable" => sop[o].pc = "enable"
      /\ UNCHANGED <<kept, draft, applied, saving, booted, shown, edits, calls, typed, doubt>>
  BY DraftShape DEF Enable
<1>a. ASSUME doubt = {}
      PROVE  /\ \A p \in SOps : p # o => sop[p].pc = "idle"
             /\ ~ \E p \in SOps : Between(sop[p])
             /\ applied = kept
  BY <1>0, <1>a, NoOtherCall DEF Between, DraftInv, StoredOK
<1>1. CASE outcome = "ok"
  <2>1. /\ running' = [on |-> TRUE, conf |-> SyncPart(EnableWith(sop[o]))]
        /\ GoOn(o, IF sop[o].pc = "fallback" THEN "sent" ELSE "status")
        /\ astray' = (doubt # {} \/ (sop[o].pc = "enable" /\ sop[o].flag))
    BY <1>1 DEF Enable
  <2>2. PICK s \in {"sent", "disable", "fallback", "restart", "status"} :
            s = IF sop[o].pc = "fallback" THEN "sent" ELSE "status"
    OBVIOUS
  <2>3. /\ sop' \in [SOps -> PageCalls] /\ \A p \in SOps : p # o => sop'[p] = sop[p]
        /\ sop'[o].pc = s /\ sop'[o].kind = sop[o].kind /\ sop'[o].base = sop[o].base
        /\ sop'[o].got = sop[o].got /\ sop'[o].flag = sop[o].flag
    <3>1. GoOn(o, s)
      BY <2>1, <2>2
    <3> QED BY <1>0, <3>1, DraftShape, CallMoved
  <2>4. astray' \in BOOLEAN /\ running'.on \in BOOLEAN /\ shown' \in BOOLEAN
    BY <1>0, <2>1, DraftShape
  <2>5. sop[o].pc = "fallback" => running'.conf = SyncPart([sop[o].base EXCEPT !.discovery = FALSE])
    BY <2>1 DEF EnableWith
  <2>6. RunsOK'
    <3>1. "unloaded" \in doubt' /\ running'.on => astray'
      BY <1>0, <2>1
    <3>2. ASSUME doubt' = {}, ~astray'
          PROVE  running'.conf = SyncPart(kept') \/ Between(sop[o])'
      <4>1. doubt = {} /\ ~(sop[o].pc = "enable" /\ sop[o].flag)
        BY <1>0, <2>1, <3>2
      <4>2. CASE sop[o].pc = "fallback"
        BY <1>0, <2>2, <2>3, <4>2 DEF Between, CallOK
      <4>3. CASE sop[o].pc = "enable"
        <5>1. sop[o].base = kept
          BY <1>a, <4>1, <4>3 DEF DraftInv, AnswersOK
        <5> QED BY <1>0, <2>1, <4>3, <5>1 DEF EnableWith
      <4>4. CASE sop[o].pc = "restart"
        <5>1. sop[o].got = kept
          BY <1>0, <4>1, <4>4, DraftAssumption DEF DraftInv, AnswersOK, HasAnswer, CallOK
        <5> QED BY <1>0, <2>1, <4>4, <5>1 DEF EnableWith
      <4> QED BY <1>0, <4>2, <4>3, <4>4
    <3> QED BY <3>1, <3>2 DEF RunsOK
  <2>7. sop'[o].pc = "sent" => sop[o].kind = "toggle" /\ sop[o].pc = "fallback"
    BY <1>0, <2>2, <2>3 DEF CallOK
  <2>8. sop'[o].pc \in {"sent", "status"}
    BY <2>2, <2>3
  <2> QED BY <1>0, <2>3, <2>4, <2>5, <2>6, <2>7, <2>8, SwitchSteps
<1>2. CASE outcome # "ok"
  <2>1. /\ running' \in {running, ClusterOff}
        /\ GoOn(o, IF outcome = "unreachable" THEN "fallback" ELSE "idle")
        /\ UNCHANGED astray
    BY <1>2 DEF Enable
  <2>2. /\ sop' \in [SOps -> PageCalls] /\ \A p \in SOps : p # o => sop'[p] = sop[p]
        /\ \/ sop'[o] = NoCall
           \/ /\ sop'[o].pc = "fallback" /\ sop[o].pc = "enable"
              /\ sop'[o].kind = sop[o].kind /\ sop'[o].base = sop[o].base
              /\ sop'[o].got = sop[o].got /\ sop'[o].flag = sop[o].flag
    <3>1. CASE outcome = "unreachable"
      <4>1. GoOn(o, "fallback")
        BY <2>1, <3>1
      <4> QED BY <1>0, <3>1, <4>1, DraftShape, CallMoved
    <3>2. CASE outcome # "unreachable"
      <4>1. GoOn(o, "idle")
        BY <2>1, <3>2
      <4> QED BY <4>1, DraftShape, CallEnded
    <3> QED BY <3>1, <3>2
  <2>3. astray' \in BOOLEAN /\ running'.on \in BOOLEAN /\ shown' \in BOOLEAN
    BY <1>0, <2>1, DraftShape, RestingPage
  <2>4. RunsOK'
    <3>1. "unloaded" \in doubt' /\ running'.on => astray'
      BY <1>0, <2>1, RestingPage DEF DraftInv, RunsOK
    <3>2. ASSUME doubt' = {}, ~astray', running'.on
          PROVE  running'.conf = SyncPart(kept')
      <4>1. running' = running /\ doubt = {} /\ ~astray
        BY <1>0, <2>1, <3>2, RestingPage
      <4> QED BY <1>0, <1>a, <3>2, <4>1 DEF DraftInv, RunsOK
    <3> QED BY <3>1, <3>2 DEF RunsOK
  <2>5. /\ sop'[o].pc \notin {"sent", "restart"}
        /\ sop'[o].pc = "fallback" => sop[o].kind = "toggle"
    BY <1>0, <2>2, RestingPage DEF CallOK
  <2> QED BY <1>0, <2>2, <2>3, <2>4, <2>5, SwitchSteps
<1> QED BY <1>1, <1>2

\* The page learns whether the cluster runs, and the call is over.
LEMMA StatusKeeps ==
    ASSUME DraftInv, NEW o \in SOps, StatusShown(o)
    PROVE  DraftInv'
<1>0. /\ sop[o].pc = "status" /\ shown' = running.on /\ GoOn(o, "idle")
      /\ UNCHANGED <<kept, draft, applied, saving, booted, running, edits, calls, typed, doubt, astray>>
  BY DEF StatusShown
<1>1. /\ sop' \in [SOps -> PageCalls] /\ \A p \in SOps : p # o => sop'[p] = sop[p]
      /\ sop'[o] = NoCall
  BY <1>0, DraftShape, CallEnded
<1>2. RunsOK'
  BY <1>0, <1>1 DEF DraftInv, RunsOK, Between
<1> QED BY <1>0, <1>1, <1>2, DraftShape, RestingPage, SwitchSteps

\* The fallback of the switch is stored, or is not.
LEMMA FallbackKeeps ==
    ASSUME DraftInv, NEW o \in SOps, FallbackAnswered(o)
    PROVE  DraftInv'
<1>0. /\ sop[o].pc = "answered" /\ sop[o].kind = "toggle" /\ sop[o] \in PageCalls /\ CallOK(sop[o])
      /\ UNCHANGED <<kept, running, shown, doubt>>
      /\ GoOn(o, IF sop[o].got = NullRow THEN "idle" ELSE "status")
  BY DraftShape DEF FallbackAnswered
<1>3. ASSUME "overlap" \notin doubt
      PROVE  /\ sop[o].got # NullRow => sop[o].got = kept
             /\ \A p \in SOps : p # o => sop[p].pc = "idle"
  BY <1>0, <1>3, NoOtherCall DEF DraftInv, AnswersOK, HasAnswer
<1>6. CASE sop[o].got = NullRow
  <2>0. GoOn(o, "idle") /\ astray' = TRUE /\ UNCHANGED <<draft, applied, typed>>
    BY <1>0, <1>6 DEF FallbackAnswered
  <2>1. /\ sop' \in [SOps -> PageCalls] /\ sop'[o] = NoCall /\ \A p \in SOps : p # o => sop'[p] = sop[p]
    BY <2>0, DraftShape, CallEnded
  <2>2. DraftTyped' /\ RowsSavable'
    BY <1>0, <2>0, <2>1 DEF DraftInv, DraftTyped, RowsSavable
  <2>3. EditsOK'
    BY <1>0, <2>0, <2>1, RestingPage, EditsKeep DEF DraftInv, EditsOK
  <2>4. StoredOK'
    BY <1>0, <1>6, <2>0, <2>1 DEF DraftInv, StoredOK, HasAnswer
  <2>5. CallsOK' /\ OneCall'
    BY <1>0, <2>1, RestingPage, CallsKeep
  <2>6. AnswersOK'
    BY <1>0, <1>3, <2>0, <2>1, RestingPage DEF AnswersOK, HasAnswer
  <2>7. RunsOK'
    BY <2>0 DEF RunsOK
  <2> QED BY <2>2, <2>3, <2>4, <2>5, <2>6, <2>7 DEF DraftInv
<1>7. CASE sop[o].got # NullRow
  <2>0. PICK got \in Rows : got = sop[o].got
    BY <1>0, <1>7 DEF PageCalls, RowsOrNull
  <2>1. /\ applied' = got /\ draft' = (IF sop[o].flag THEN draft ELSE got) /\ typed' = StillTyped(got)
        /\ astray' = astray /\ Savable(got) /\ GoOn(o, "status")
    BY <1>0, <1>7, <2>0 DEF FallbackAnswered, CallOK
  <2>2. /\ sop' \in [SOps -> PageCalls] /\ \A p \in SOps : p # o => sop'[p] = sop[p]
        /\ sop'[o].pc = "status" /\ sop'[o].kind = sop[o].kind /\ sop'[o].base = sop[o].base
        /\ sop'[o].got = sop[o].got /\ sop'[o].flag = sop[o].flag
    BY <1>0, <2>1, DraftShape, CallMoved
  <2>3. DraftTyped' /\ RowsSavable'
    BY <1>0, <2>1, <2>2 DEF DraftInv, DraftTyped, RowsSavable, Savable
  <2>4. \A f \in Fields : /\ typed'[f] = typed[f] \/ typed'[f] = NullRow
                          /\ typed'[f] # NullRow => typed[f] # got[f]
    BY <2>1 DEF StillTyped
  <2>5. ASSUME NEW f \in Fields, typed'[f] # NullRow PROVE draft'[f] = typed[f]
    <3>1. typed[f] # NullRow
      BY <2>4, <2>5
    <3>2. sop[o].flag
      BY <1>0, <3>1 DEF DraftInv, EditsOK
    <3> QED BY <2>1, <3>1, <3>2 DEF DraftInv, EditsOK
  <2>6. EditsOK'
    BY <1>0, <2>1, <2>2, <2>4, <2>5, EditsKeep
  <2>7. StoredOK'
    BY <1>0, <1>3, <1>7, <2>0, <2>1 DEF StoredOK
  <2>8. CallsOK' /\ OneCall'
    <3>1. CallOK(sop'[o])
      BY <1>0, <2>2 DEF CallOK
    <3> QED BY <1>0, <2>2, <3>1, CallsKeep
  <2>9. AnswersOK'
    BY <1>0, <1>3, <2>2 DEF AnswersOK, HasAnswer
  <2>10. RunsOK'
    BY <1>0, <1>7, <2>1, <2>2 DEF DraftInv, RunsOK, Between
  <2> QED BY <2>3, <2>6, <2>7, <2>8, <2>9, <2>10 DEF DraftInv
<1> QED BY <1>6, <1>7

\* The invariant says what the property does.
LEMMA DraftInvSuffices == DraftInv => DraftSafety
<1> SUFFICES ASSUME DraftInv PROVE DraftSafety
  OBVIOUS
<1>1. DraftTypeOK
  BY DraftShape DEF DraftTypeOK, PageCalls, RowsOrNull
<1>2. DraftIsSavable /\ TypedEditsStay
  BY DraftShape DEF DraftInv, RowsSavable, Savable, EditsOK, DraftIsSavable, TypedEditsStay
<1>3. AppliedIsStored
  BY DEF DraftInv, StoredOK, AppliedIsStored, AtRest
<1>4. ClusterRunsTheSettings
  BY DEF DraftInv, RunsOK, ClusterRunsTheSettings, AtRest, Between
<1> QED BY <1>1, <1>2, <1>3, <1>4 DEF DraftSafety

\* Any step keeps the invariant.
LEMMA DraftInvStep == DraftInv /\ [DraftNext]_draftVars => DraftInv'
<1> SUFFICES ASSUME DraftInv, [DraftNext]_draftVars PROVE DraftInv'
  OBVIOUS
<1>1. CASE UNCHANGED draftVars
  BY <1>1 DEF draftVars, DraftInv, DraftTyped, RowsSavable, CallsOK, EditsOK, OneCall, AnswersOK,
             StoredOK, RunsOK, HasAnswer, Between
<1>2. CASE DraftNext
  BY <1>2, EditKeeps, DiscardKeeps, PollKeeps, CallsBegin, HandlesKeeps, SaveKeeps, PoolKeeps,
     LoadedKeeps, FallbackKeeps, DisableKeeps, EnableKeeps, StatusKeeps
  DEF DraftNext
<1> QED BY <1>1, <1>2

\* The settings page, for any number of calls under way, edits and versions:
\* the draft can always be saved, what was typed while nothing was under way
\* stays until it is saved or discarded, and once nothing is under way the page
\* shows what is stored and a running cluster has those settings, but for the
\* causes the property names.
THEOREM DraftIsSafe == DraftSpec => []DraftSafety
<1>1. DraftInit => DraftInv
  BY DraftInitHolds
<1>2. DraftInv /\ [DraftNext]_draftVars => DraftInv'
  BY DraftInvStep
<1>3. DraftInv => DraftSafety
  BY DraftInvSuffices
<1> QED BY <1>1, <1>2, <1>3, PTL DEF DraftSpec

-----------------------------------------------------------------------------
(* Request handlers *)

\* A nonempty set of natural numbers has a least element.
LEMMA LeastNumber ==
    ASSUME NEW T, T \subseteq Nat, T # {}
    PROVE  \E x \in T : \A y \in T : x <= y
<1>1. IsWellFoundedOn(OpToRel(<,Nat), Nat)
  BY NatLessThanWellFounded
<1>2. PICK x \in T : \A y \in T : ~ (<<y, x>> \in OpToRel(<,Nat))
  BY <1>1, WFMin
<1>3. \A y \in T : ~ (y < x)
  BY <1>2 DEF OpToRel
<1> QED BY <1>3

\* A function that collects from the first m events one after the other.
IsScan(f, events, m) ==
    f = [n \in 0..m |-> IF n = 0 THEN NothingCollected ELSE CollectEvent(f[n - 1], events[n])]

\* Collecting from one event after the other is a function of the events.
LEMMA ScanExists ==
    ASSUME NEW events, NEW m \in Nat
    PROVE  \E f : IsScan(f, events, m)
<1> DEFINE Bad == {n \in Nat : ~ \E f : IsScan(f, events, n)}
<1> SUFFICES ASSUME Bad # {} PROVE FALSE
  OBVIOUS
<1>1. PICK n \in Bad : \A k \in Bad : n <= k
  BY LeastNumber
<1>2. CASE n = 0
  <2>1. IsScan([k \in 0..0 |-> NothingCollected], events, 0)
    BY DEF IsScan
  <2> QED BY <1>1, <1>2, <2>1
<1>3. CASE n # 0
  <2>1. n - 1 \in Nat /\ n - 1 \notin Bad
    BY <1>1, <1>3
  <2>2. PICK f : IsScan(f, events, n - 1)
    BY <2>1
  <2> DEFINE g == [k \in 0..n |-> IF k = n THEN CollectEvent(f[n - 1], events[n]) ELSE f[k]]
  <2>3. \A k \in 0..(n - 1) : f[k] = IF k = 0 THEN NothingCollected ELSE CollectEvent(f[k - 1], events[k])
    BY <2>2 DEF IsScan
  <2>4. \A k \in 0..n : g[k] = IF k = 0 THEN NothingCollected ELSE CollectEvent(g[k - 1], events[k])
    <3> SUFFICES ASSUME NEW k \in 0..n
                 PROVE  g[k] = IF k = 0 THEN NothingCollected ELSE CollectEvent(g[k - 1], events[k])
      OBVIOUS
    <3>1. CASE k = n
      BY <1>3, <2>1, <3>1
    <3>2. CASE k # n
      <4>1. k \in 0..(n - 1) /\ g[k] = f[k]
        BY <2>1, <3>2
      <4>2. k # 0 => k - 1 \in 0..n /\ k - 1 # n /\ g[k - 1] = f[k - 1]
        BY <2>1, <3>2
      <4> QED BY <2>3, <4>1, <4>2
    <3> QED BY <3>1, <3>2
  <2>5. IsScan(g, events, n)
    <3>1. g = [k \in 0..n |-> g[k]]
      OBVIOUS
    <3> HIDE DEF g
    <3> QED BY <2>4, <3>1 DEF IsScan
  <2> QED BY <1>1, <2>5
<1> QED BY <1>2, <1>3

\* The one that CollectFromStreamEvents defines.
TheScan(events) == CHOOSE f : IsScan(f, events, Len(events))

\* It is what CollectFromStreamEvents computes.
LEMMA CollectIsScan ==
    ASSUME NEW events
    PROVE  CollectFromStreamEvents(events) = TheScan(events)[Len(events)].result
  BY DEF CollectFromStreamEvents, TheScan, IsScan


ItemNames == {"none", "x", "y"}

\* The errors and terminal events among the first m.
Decisive(ev, m) == {k \in 1..m : ev[k].type \in {"error", "completed"}}

\* The last of the first m events with an item for an index, if there is one.
LastOf(ev, m, i) == {k \in 1..m : /\ ev[k].type = "item" /\ ev[k].index = i
                                  /\ \A j \in (k + 1)..m : ev[j].type = "item" => ev[j].index # i}

\* The last item that the first m events send for an index.
ItemOf(ev, m, i) == IF LastOf(ev, m, i) = {} THEN "none" ELSE ev[CHOOSE k \in LastOf(ev, m, i) : TRUE].item

PieceOf(ev, m, i) == IF LastOf(ev, m, i) = {} THEN <<>> ELSE <<ev[CHOOSE k \in LastOf(ev, m, i) : TRUE].item>>

\* What a decisive event says.
ResultAt(ev, d) ==
    IF ev[d].type = "error" THEN [kind |-> "error"]
    ELSE [kind |-> "body", output |-> IF ev[d].item = "own" THEN <<"own">>
                                      ELSE PieceOf(ev, d - 1, 0) \o PieceOf(ev, d - 1, 1)]

\* What is to be collected from the first n events.
Collected(ev, n, s) ==
    /\ s = [items |-> s.items, result |-> s.result]
    /\ s.items \in [{0, 1} -> ItemNames]
    /\ Decisive(ev, n) = {} => /\ s.result = [kind |-> "none"]
                               /\ \A i \in {0, 1} : s.items[i] = ItemOf(ev, n, i)
    /\ Decisive(ev, n) # {} => s.result.kind # "none"
    /\ \A d \in Decisive(ev, n) : (\A j \in Decisive(ev, n) : d <= j) => s.result = ResultAt(ev, d)

\* An event has an item for one of the two indexes, or decides, or is skipped.
LEMMA EventShape ==
    ASSUME NEW e \in StreamEvents
    PROVE  \/ e.type = "item" /\ e.index \in {0, 1} /\ e.item \in {"x", "y"}
           \/ e.type \in {"completed", "error", "other"}
  BY DEF StreamEvents, Ev

\* The last item for an index, after one event more.
LEMMA LastOfStep ==
    ASSUME NEW ev, NEW n \in Nat \ {0}, NEW i
    PROVE  IF ev[n].type = "item" /\ ev[n].index = i THEN LastOf(ev, n, i) = {n}
           ELSE LastOf(ev, n, i) = LastOf(ev, n - 1, i)
<1>0. n - 1 \in Nat
  OBVIOUS
<1>1. CASE ev[n].type = "item" /\ ev[n].index = i
  <2>1. n \in LastOf(ev, n, i)
    BY <1>1 DEF LastOf
  <2>2. \A k \in LastOf(ev, n, i) : k = n
    <3> SUFFICES ASSUME NEW k \in LastOf(ev, n, i), k # n PROVE FALSE
      OBVIOUS
    <3>1. k \in 1..n /\ n \in (k + 1)..n
      BY DEF LastOf
    <3> QED BY <1>1, <3>1 DEF LastOf
  <2> QED BY <1>1, <2>1, <2>2
<1>2. CASE ~(ev[n].type = "item" /\ ev[n].index = i)
  <2>1. ASSUME NEW k \in LastOf(ev, n, i) PROVE k \in LastOf(ev, n - 1, i)
    <3>1. k \in 1..n /\ k # n
      BY <1>2 DEF LastOf
    <3>2. k \in 1..(n - 1)
      BY <3>1
    <3>3. \A j \in (k + 1)..(n - 1) : j \in (k + 1)..n
      BY <3>1
    <3> QED BY <3>2, <3>3 DEF LastOf
  <2>2. ASSUME NEW k \in LastOf(ev, n - 1, i) PROVE k \in LastOf(ev, n, i)
    <3>1. k \in 1..(n - 1) /\ k \in 1..n
      BY <1>0 DEF LastOf
    <3>2. \A j \in (k + 1)..n : j = n \/ j \in (k + 1)..(n - 1)
      BY <3>1
    <3> QED BY <1>2, <3>1, <3>2 DEF LastOf
  <2> QED BY <1>2, <2>1, <2>2
<1> QED BY <1>1, <1>2

\* The item of an index, after one event more.
LEMMA ItemStep ==
    ASSUME NEW ev, NEW n \in Nat \ {0}, NEW i
    PROVE  ItemOf(ev, n, i) = IF ev[n].type = "item" /\ ev[n].index = i THEN ev[n].item
                              ELSE ItemOf(ev, n - 1, i)
<1>1. CASE ev[n].type = "item" /\ ev[n].index = i
  <2>1. LastOf(ev, n, i) = {n}
    BY <1>1, LastOfStep
  <2>2. (CHOOSE k \in {n} : TRUE) = n
    OBVIOUS
  <2> QED BY <1>1, <2>1, <2>2 DEF ItemOf
<1>2. CASE ~(ev[n].type = "item" /\ ev[n].index = i)
  <2>1. LastOf(ev, n, i) = LastOf(ev, n - 1, i)
    BY <1>2, LastOfStep
  <2> QED BY <1>2, <2>1 DEF ItemOf
<1> QED BY <1>1, <1>2

\* The decisive events, after one event more.
LEMMA DecisiveStep ==
    ASSUME NEW ev, NEW n \in Nat \ {0}
    PROVE  IF ev[n].type \in {"error", "completed"} THEN Decisive(ev, n) = Decisive(ev, n - 1) \cup {n}
           ELSE Decisive(ev, n) = Decisive(ev, n - 1)
<1>1. 1..n = (1..(n - 1)) \cup {n}
  OBVIOUS
<1> QED BY <1>1 DEF Decisive

\* The items collected are the ones the output is put together from.
\* The collected items are the output in the order of the indexes.
LEMMA OutputIsPieces ==
    ASSUME NEW ev, NEW n, NEW items, \A i \in {0, 1} : items[i] = ItemOf(ev, n, i),
           \A i \in {0, 1} : \A k \in LastOf(ev, n, i) : ev[k].item # "none"
    PROVE  OutputByIndex(items) = PieceOf(ev, n, 0) \o PieceOf(ev, n, 1)
<1>1. ASSUME NEW i \in {0, 1}
      PROVE  (IF items[i] = "none" THEN <<>> ELSE <<items[i]>>) = PieceOf(ev, n, i)
  <2>1. CASE LastOf(ev, n, i) = {}
    BY <2>1 DEF ItemOf, PieceOf
  <2>2. CASE LastOf(ev, n, i) # {}
    <3>1. (CHOOSE k \in LastOf(ev, n, i) : TRUE) \in LastOf(ev, n, i)
      BY <2>2
    <3> QED BY <2>2, <3>1 DEF ItemOf, PieceOf
  <2> QED BY <2>1, <2>2
<1>2. /\ (IF items[0] = "none" THEN <<>> ELSE <<items[0]>>) = PieceOf(ev, n, 0)
      /\ (IF items[1] = "none" THEN <<>> ELSE <<items[1]>>) = PieceOf(ev, n, 1)
  BY <1>1
<1> QED BY <1>2 DEF OutputByIndex

\* One event more is collected as it should be.
LEMMA CollectStep ==
    ASSUME NEW ev \in Seq(StreamEvents), NEW n \in 1..Len(ev), NEW s, Collected(ev, n - 1, s)
    PROVE  Collected(ev, n, CollectEvent(s, ev[n]))
<1> DEFINE e == ev[n]
           r == CollectEvent(s, e)
<1>0. n \in Nat \ {0} /\ n - 1 \in Nat /\ e \in StreamEvents
  OBVIOUS
<1>1. \/ e.type = "item" /\ e.index \in {0, 1} /\ e.item \in {"x", "y"}
      \/ e.type \in {"completed", "error", "other"}
  BY <1>0, EventShape
<1>2. IF e.type \in {"error", "completed"} THEN Decisive(ev, n) = Decisive(ev, n - 1) \cup {n}
      ELSE Decisive(ev, n) = Decisive(ev, n - 1)
  BY <1>0, DecisiveStep
<1>3. \A i : ItemOf(ev, n, i) = IF e.type = "item" /\ e.index = i THEN e.item ELSE ItemOf(ev, n - 1, i)
  BY <1>0, ItemStep
<1>4. Decisive(ev, n - 1) \subseteq 1..(n - 1)
  BY DEF Decisive
<1>5. s = [items |-> s.items, result |-> s.result] /\ s.items \in [{0, 1} -> ItemNames]
  BY DEF Collected
<1> HIDE DEF e
<1>6. CASE Decisive(ev, n - 1) # {}
  <2>1. s.result.kind # "none" /\ r = s
    BY <1>6 DEF Collected, CollectEvent
  <2>2. Decisive(ev, n) # {}
    BY <1>2, <1>6
  <2>3. ASSUME NEW d \in Decisive(ev, n), \A j \in Decisive(ev, n) : d <= j
        PROVE  s.result = ResultAt(ev, d)
    <3>1. d \in Decisive(ev, n - 1)
      <4>1. PICK c \in Decisive(ev, n - 1) : TRUE
        BY <1>6
      <4>2. d <= c /\ c \in 1..(n - 1)
        BY <1>2, <1>4, <2>3, <4>1
      <4>3. d # n
        BY <1>0, <4>2
      <4> QED BY <1>2, <4>3
    <3>2. \A j \in Decisive(ev, n - 1) : d <= j
      BY <1>2, <2>3
    <3> QED BY <3>1, <3>2 DEF Collected
  <2>4. Collected(ev, n, s)
    BY <1>5, <2>1, <2>2, <2>3 DEF Collected
  <2> QED BY <2>1, <2>4 DEF e
<1>7. CASE Decisive(ev, n - 1) = {}
  <2>1. /\ s.result = [kind |-> "none"] /\ s.result.kind = "none"
        /\ \A i \in {0, 1} : s.items[i] = ItemOf(ev, n - 1, i)
    BY <1>7 DEF Collected
  <2>2. CASE e.type = "item"
    <3>1. e.index \in {0, 1} /\ e.item \in ItemNames
      BY <1>1, <2>2 DEF ItemNames
    <3>2. r = [s EXCEPT !.items[e.index] = e.item]
      BY <2>1, <2>2 DEF CollectEvent
    <3>3. r = [items |-> [s.items EXCEPT ![e.index] = e.item], result |-> s.result]
      BY <1>5, <3>2
    <3>4. Decisive(ev, n) = {}
      BY <1>2, <1>7, <2>2
    <3>5. r.items \in [{0, 1} -> ItemNames] /\ r.result = [kind |-> "none"]
      BY <1>5, <2>1, <3>1, <3>3
    <3>6. \A i \in {0, 1} : r.items[i] = ItemOf(ev, n, i)
      BY <1>3, <1>5, <2>1, <2>2, <3>1, <3>3
    <3>7. r = [items |-> r.items, result |-> r.result]
      BY <3>3
    <3> HIDE DEF r
    <3>8. Collected(ev, n, r)
      BY <3>4, <3>5, <3>6, <3>7 DEF Collected
    <3> QED BY <3>8 DEF r, e
  <2>3. CASE e.type = "other"
    <3>1. r = s
      BY <2>1, <2>3 DEF CollectEvent
    <3>2. Decisive(ev, n) = {}
      BY <1>2, <1>7, <2>3
    <3>3. \A i \in {0, 1} : s.items[i] = ItemOf(ev, n, i)
      BY <1>3, <2>1, <2>3
    <3>4. Collected(ev, n, s)
      BY <1>5, <2>1, <3>2, <3>3 DEF Collected
    <3> QED BY <3>1, <3>4 DEF r, e
  <2>4. CASE e.type \in {"error", "completed"}
    <3>1. Decisive(ev, n) = {n}
      BY <1>2, <1>7, <2>4
    <3>2. r = [items |-> s.items, result |-> ResultAt(ev, n)]
      <4>1. CASE e.type = "error"
        BY <1>5, <2>1, <4>1 DEF CollectEvent, ResultAt, e
      <4>2. CASE e.type = "completed"
        <5>1. r = [s EXCEPT !.result = [kind |-> "body",
                     output |-> IF e.item = "own" THEN <<"own">> ELSE OutputByIndex(s.items)]]
          BY <2>1, <4>2 DEF CollectEvent
        <5>2. \A i \in {0, 1} : \A k \in LastOf(ev, n - 1, i) : ev[k].item # "none"
          <6> SUFFICES ASSUME NEW i \in {0, 1}, NEW k \in LastOf(ev, n - 1, i) PROVE ev[k].item # "none"
            OBVIOUS
          <6>1. k \in 1..Len(ev) /\ ev[k].type = "item"
            BY <1>0 DEF LastOf
          <6>2. ev[k] \in StreamEvents
            BY <6>1
          <6> QED BY <6>1, <6>2, EventShape
        <5>3. OutputByIndex(s.items) = PieceOf(ev, n - 1, 0) \o PieceOf(ev, n - 1, 1)
          BY <2>1, <5>2, OutputIsPieces
        <5>4. ResultAt(ev, n) = [kind |-> "body",
                 output |-> IF e.item = "own" THEN <<"own">> ELSE OutputByIndex(s.items)]
          BY <4>2, <5>3 DEF ResultAt, e
        <5> QED BY <1>5, <5>1, <5>4
      <4> QED BY <2>4, <4>1, <4>2
    <3>3. r.items \in [{0, 1} -> ItemNames] /\ r.result = ResultAt(ev, n)
          /\ r = [items |-> r.items, result |-> r.result]
      BY <1>5, <3>2
    <3>4. ResultAt(ev, n).kind # "none"
      BY DEF ResultAt
    <3> HIDE DEF r
    <3>5. Collected(ev, n, r)
      BY <3>1, <3>3, <3>4 DEF Collected
    <3> QED BY <3>5 DEF r, e
  <2> QED BY <1>1, <2>2, <2>3, <2>4
<1> QED BY <1>6, <1>7

\* However long the stream is, what is collected is what it says.
\* The whole stream is: a shortest prefix for which this fails would contradict CollectStep.
LEMMA StreamIsCollected ==
    ASSUME NEW ev \in Seq(StreamEvents)
    PROVE  \E s : Collected(ev, Len(ev), s) /\ CollectFromStreamEvents(ev) = s.result
<1> DEFINE f == TheScan(ev)
           N == Len(ev)
<1>1. N \in Nat
  OBVIOUS
<1>2. IsScan(f, ev, N)
  BY <1>1, ScanExists DEF TheScan
<1> HIDE DEF f
<1>3. \A n \in 0..N : f[n] = IF n = 0 THEN NothingCollected ELSE CollectEvent(f[n - 1], ev[n])
  BY <1>2 DEF IsScan
<1> DEFINE Bad == {n \in 0..N : ~Collected(ev, n, f[n])}
<1>4. Bad = {}
  <2> SUFFICES ASSUME Bad # {} PROVE FALSE
    OBVIOUS
  <2>1. Bad \subseteq Nat
    OBVIOUS
  <2>2. PICK n \in Bad : \A k \in Bad : n <= k
    BY <2>1, LeastNumber
  <2>3. CASE n = 0
    <3>1. f[0] = NothingCollected
      BY <1>1, <1>3
    <3>2. \A m : Decisive(ev, 0) = {} /\ LastOf(ev, 0, m) = {}
      BY DEF Decisive, LastOf
    <3>3. Collected(ev, 0, NothingCollected)
      BY <3>2 DEF Collected, NothingCollected, ItemOf, ItemNames
    <3> QED BY <2>2, <2>3, <3>1, <3>3
  <2>4. CASE n # 0
    <3>1. n \in 1..N /\ n - 1 \in 0..N
      BY <1>1, <2>2, <2>4
    <3>2. n - 1 \notin Bad
      BY <2>2, <3>1
    <3>3. Collected(ev, n - 1, f[n - 1])
      BY <3>1, <3>2
    <3>4. Collected(ev, n, CollectEvent(f[n - 1], ev[n]))
      BY <3>1, <3>3, CollectStep
    <3>5. f[n] = CollectEvent(f[n - 1], ev[n])
      BY <1>3, <2>4, <3>1
    <3> QED BY <2>2, <3>4, <3>5
  <2> QED BY <2>3, <2>4
<1>5. Collected(ev, N, f[N])
  BY <1>1, <1>4
<1>6. CollectFromStreamEvents(ev) = f[N].result
  BY CollectIsScan DEF f
<1> QED BY <1>5, <1>6

\* The stored stream and its body.
CollectedOf(stream) ==
    stream.events \in Seq(StreamEvents) /\ stream.collected = CollectFromStreamEvents(stream.events)

\* The property, from what CollectStream stores.
LEMMA CollectedBody ==
    ASSUME CollectedOf(hStream)
    PROVE  CollectedBodyIsTheStreams
<1> DEFINE ev == hStream.events
           decisive == {k \in 1..Len(ev) : ev[k].type \in {"error", "completed"}}
           d == CHOOSE k \in decisive : \A j \in decisive : k <= j
           lastOf(i) == {k \in 1..(d - 1) : /\ ev[k].type = "item" /\ ev[k].index = i
                                            /\ \A j \in (k + 1)..(d - 1) :
                                                 ev[j].type = "item" => ev[j].index # i}
           items(i) == IF lastOf(i) = {} THEN <<>> ELSE <<ev[CHOOSE k \in lastOf(i) : TRUE].item>>
<1>1. ev \in Seq(StreamEvents) /\ hStream.collected = CollectFromStreamEvents(ev)
  BY DEF CollectedOf
<1>2. PICK s : Collected(ev, Len(ev), s) /\ CollectFromStreamEvents(ev) = s.result
  BY <1>1, StreamIsCollected
<1>3. decisive = Decisive(ev, Len(ev))
  BY DEF Decisive
<1>4. \A i : lastOf(i) = LastOf(ev, d - 1, i)
  BY DEF LastOf
<1>5. \A i : items(i) = PieceOf(ev, d - 1, i)
  <2> HIDE DEF d, ev, lastOf
  <2> SUFFICES ASSUME NEW i PROVE items(i) = PieceOf(ev, d - 1, i)
    OBVIOUS
  <2> DEFINE l == LastOf(ev, d - 1, i)
  <2>1. lastOf(i) = l
    BY <1>4
  <2>2. PieceOf(ev, d - 1, i) = IF l = {} THEN <<>> ELSE <<ev[CHOOSE k \in l : TRUE].item>>
    BY DEF PieceOf
  <2> HIDE DEF l
  <2> QED BY <2>1, <2>2
<1> HIDE DEF decisive, lastOf, ev
<1>6. CASE decisive = {}
  <2>1. hStream.collected = [kind |-> "none"]
    BY <1>1, <1>2, <1>3, <1>6 DEF Collected
  <2> QED BY <1>6, <2>1 DEF CollectedBodyIsTheStreams, decisive, ev
<1>7. CASE decisive # {}
  <2>1. decisive \subseteq Nat
    BY DEF decisive
  <2>2. \E k \in decisive : \A j \in decisive : k <= j
    BY <1>7, <2>1, LeastNumber
  <2>3. d \in decisive /\ \A j \in decisive : d <= j
    BY <2>2
  <2> HIDE DEF d, items
  <2>4. hStream.collected = ResultAt(ev, d)
    BY <1>1, <1>2, <1>3, <2>3 DEF Collected
  <2>5. hStream.collected = IF ev[d].type = "error" THEN [kind |-> "error"]
                            ELSE [kind |-> "body", output |-> IF ev[d].item = "own" THEN <<"own">>
                                                              ELSE items(0) \o items(1)]
    BY <1>5, <2>4 DEF ResultAt
  <2> QED BY <1>7, <2>5 DEF CollectedBodyIsTheStreams, decisive, ev, d, items, lastOf
<1> QED BY <1>6, <1>7

\* The type of a handler.
HandlerKinds == Kinds \cup {"none"}
Phases == {"first", "refreshed", "bridged", "stripped", "failover"}
Places == {"idle", "routing", "rerouting", "planning", "sending", "check401", "bridging", "stripping",
           "exhaustion", "failover", "done", "collected"}
Owners == HAccounts \cup {HNone}
Ups == UpAnswers \cup {NoAnswer}
HandlerAnswers == [status : Nat, usable : BOOLEAN]

Handlers ==
    [kind : HandlerKinds, pc : Places, cont : BOOLEAN, fco : BOOLEAN, header : BOOLEAN,
     want : Owners, account : Owners, token : BOOLEAN,
     phase : Phases, attempt : Nat, sends : Nat, up : Ups, ans : HandlerAnswers]

\* An execution is over and its answer is there.
Executed == {"check401", "bridging", "stripping", "exhaustion", "failover"}

\* The sends of one execution, and the executions before a phase.
PerExecution(kind) == IF kind = "transcribe" THEN 1 ELSE RetryBudget(kind) + 1
SendsIn(kind, executions) == executions * PerExecution(kind)
Before(phase) == CASE phase = "first" -> 0 [] phase = "refreshed" -> 1
                   [] phase \in {"bridged", "stripped"} -> 2 [] phase = "failover" -> 3

\* What the handler has sent by now.
SendsOK(h) ==
    /\ h.pc \in {"idle", "routing", "rerouting", "planning", "collected"} => h.sends = 0
    /\ h.pc = "sending" => /\ h.attempt < PerExecution(h.kind)
                           /\ h.sends <= SendsIn(h.kind, Before(h.phase)) + h.attempt
    /\ h.pc # "sending" => h.attempt = 0
    /\ h.pc \in Executed \cup {"done"} =>
         h.sends <= SendsIn(h.kind, Before(h.phase) + 1)

\* What is known of the request at each place and in each execution.
PhaseOK(h) ==
    /\ h.pc \notin {"idle"} => h.kind \in Kinds
    /\ h.pc = "routing" => ~h.token
    /\ h.pc \in {"idle", "routing", "rerouting", "planning", "collected"} => h.phase = "first"
    /\ h.kind \notin Routed => h.phase \in {"first", "refreshed"}
    /\ h.kind = "passthrough" => h.phase = "first" /\ h.pc \in {"sending", "done"} /\ h.account = HNone
    /\ h.phase \in {"stripped", "failover"} => ~h.cont
    /\ h.phase = "bridged" => h.cont /\ h.fco
    /\ h.pc = "check401" => h.phase \in {"first", "refreshed"} /\ h.up.status = 401
                            /\ (h.phase = "refreshed" => IndicatesDeactivated(h.up))
    /\ h.pc = "bridging" => h.kind \in Routed /\ LostPrevious(h) /\ h.fco /\ h.phase # "bridged"
    /\ h.pc = "stripping" => h.kind \in Routed /\ LostPrevious(h) /\ ~h.fco
    /\ h.pc = "failover" => h.kind \in Routed /\ h.phase # "failover" /\ ~(h.cont /\ h.fco)
    /\ h.pc \in Executed => h.up \in UpAnswers

\* A success is the answer to what the upstream sent last.
AnswerOK(h) ==
    h.pc = "done" /\ h.ans.usable => h.up \in UpAnswers /\ h.ans = AnswerOf(h.kind, h.up) /\ h.kind # "none"

\* An account that has been reported as exhausted is retired, or about to be.
SpentOK ==
    \A a \in hSpent :
        \/ hRow[a] # "usable"
        \/ hEx.pc = "exhaustion" /\ a = hEx.account /\ ExhaustedAccountStatus(hEx.up) # "none"

HandlerOK(h) ==
    /\ h \in Handlers /\ (h.token => h.account \in HAccounts)
    /\ SendsOK(h) /\ PhaseOK(h) /\ AnswerOK(h)

HandlersInv ==
    /\ hRow \in [HAccounts -> {"usable", "exhausted", "deactivated"}]
    /\ hSpent \subseteq HAccounts \ {HNone}
    /\ HandlerOK(hEx) /\ SpentOK
    /\ CollectedOf(hStream)

\* The fields besides the place and the answer.
SameBut(h, k) ==
    /\ k.kind = h.kind /\ k.cont = h.cont /\ k.fco = h.fco /\ k.header = h.header /\ k.want = h.want
    /\ k.account = h.account /\ k.token = h.token /\ k.phase = h.phase /\ k.attempt = h.attempt
    /\ k.sends = h.sends /\ k.up = h.up

To(h, p) == [h EXCEPT !.pc = p]

\* A handler goes to another place.
LEMMA ToFits ==
    ASSUME NEW h \in Handlers, NEW p \in Places
    PROVE  To(h, p) \in Handlers /\ To(h, p).pc = p /\ To(h, p).ans = h.ans /\ SameBut(h, To(h, p))
  BY DEF To, Handlers, SameBut

\* A handler answers.
LEMMA RespondFits ==
    ASSUME NEW h \in Handlers, NEW a \in HandlerAnswers
    PROVE  /\ Respond(h, a) \in Handlers /\ Respond(h, a).pc = "done" /\ Respond(h, a).ans = a
           /\ SameBut(h, Respond(h, a))
<1>1. "done" \in Places
  BY DEF Places
<1>2. Respond(h, a) = [h EXCEPT !.pc = "done", !.ans = a]
  BY DEF Respond
<1> HIDE DEF Respond
<1>3. Respond(h, a) \in Handlers
  BY <1>1, <1>2 DEF Handlers
<1>4. Respond(h, a).pc = "done" /\ Respond(h, a).ans = a
  BY <1>1, <1>2 DEF Handlers
<1>5. SameBut(h, Respond(h, a))
  BY <1>1, <1>2 DEF Handlers, SameBut
<1> QED BY <1>3, <1>4, <1>5

\* How much may be sent up to an execution.
LEMMA ExecutionBounds ==
    ASSUME NEW kind
    PROVE  /\ PerExecution(kind) \in 1..3
           /\ \A e \in 0..3 : /\ SendsIn(kind, e) \in Nat
                             /\ SendsIn(kind, e + 1) = SendsIn(kind, e) + PerExecution(kind)
           /\ SendsIn(kind, 0) = 0
           /\ \A p \in Phases : Before(p) \in 0..3
<1>1. PerExecution(kind) \in 1..3
  BY DEF PerExecution, RetryBudget, kCompactRetryBudget, kStreamRetryBudget
<1>2. \A e \in 0..3 : /\ SendsIn(kind, e) \in Nat
                     /\ SendsIn(kind, e + 1) = SendsIn(kind, e) + PerExecution(kind)
  BY <1>1 DEF SendsIn
<1>3. SendsIn(kind, 0) = 0
  BY <1>1 DEF SendsIn
<1>4. \A p \in Phases : Before(p) \in 0..3
  BY DEF Phases, Before
<1> QED BY <1>1, <1>2, <1>3, <1>4

\* An answer that reports exhaustion is no 401, names no lost response and is not retried.
LEMMA UpFits ==
    ASSUME NEW up \in UpAnswers
    PROVE  /\ up.status \in Nat /\ (up.status < 400 => up.status = 200)
           /\ ExhaustedAccountStatus(up) # "none" =>
                /\ up.status # 401 /\ up.code # "previous_response_not_found"
                /\ \A kind \in Kinds : ~ShouldRetry(kind, up)
<1>1. up.status \in Nat /\ (up.status < 400 => up.status = 200)
  BY DEF UpAnswers, Up
<1>2. ASSUME ExhaustedAccountStatus(up) # "none"
      PROVE  up \in {Up(200, "rate_limit_exceeded", "good"), Up(429, "none", "empty"),
                     Up(403, "insufficient_quota", "empty")}
  BY <1>2 DEF UpAnswers, Up, ExhaustedAccountStatus
<1>3. ASSUME ExhaustedAccountStatus(up) # "none"
      PROVE  up.status # 401 /\ up.code # "previous_response_not_found"
  BY <1>2, <1>3 DEF Up
<1>4. ASSUME ExhaustedAccountStatus(up) # "none", NEW kind \in Kinds
      PROVE  ~ShouldRetry(kind, up)
  <2>1. ~ShouldRetryStream(up) /\ ~ShouldRetryCompact(up)
    BY <1>4 DEF ShouldRetryStream, ShouldRetryCompact
  <2>2. ResolvedCode(up) \notin {"stream_incomplete", "upstream_incomplete"}
    BY <1>2, <1>4 DEF ResolvedCode, Up
  <2> QED BY <2>1, <2>2 DEF ShouldRetry, ShouldRetryStreamWithIncomplete, Kinds, Routed
<1> QED BY <1>1, <1>3, <1>4

\* A success has the payload that its handler needs.
LEMMA AnswerFits ==
    ASSUME NEW kind \in Kinds, NEW up \in UpAnswers
    PROVE  /\ AnswerOf(kind, up) \in HandlerAnswers
           /\ AnswerOf(kind, up).usable =>
                /\ up.status = 200 /\ up.payload # "empty"
                /\ kind = "compact" => up.payload = "good"
                /\ kind = "json" => up.payload # "cut"
<1>1. up.status \in Nat /\ (up.status < 400 => up.status = 200)
  BY UpFits
<1> DEFINE Fine(a) == /\ a \in HandlerAnswers
                      /\ a.usable => /\ up.status = 200 /\ up.payload # "empty"
                                     /\ kind = "compact" => up.payload = "good"
                                     /\ kind = "json" => up.payload # "cut"
<1>2. CASE kind = "compact"
  <2>1. Fine(CompactAnswer(up))
    BY <1>1, <1>2 DEF CompactAnswer, ValidateCompactSuccessPayload, Refused, Answer, HandlerAnswers
  <2> QED BY <1>2, <2>1 DEF AnswerOf
<1>3. CASE kind \in {"memories", "transcribe"}
  <2>1. Fine(BodyAnswer(up))
    BY <1>1, <1>3 DEF BodyAnswer, Refused, Answer, HandlerAnswers
  <2> QED BY <1>3, <2>1 DEF AnswerOf
<1>4. CASE kind = "json"
  <2>1. Fine(JsonAnswer(up))
    BY <1>1, <1>4 DEF JsonAnswer, Refused, Answer, HandlerAnswers
  <2> QED BY <1>4, <2>1 DEF AnswerOf
<1>5. CASE kind \in {"ws", "passthrough"}
  <2>1. Fine(WsAnswer(up))
    <3>1. CASE up.status >= 400
      BY <3>1, <1>1, <1>5 DEF WsAnswer, Refused, Answer, HandlerAnswers
    <3>2. CASE ~(up.status >= 400)
      <4>1. PICK b \in BOOLEAN : b = (up.payload # "empty")
        OBVIOUS
      <4>2. WsAnswer(up) = [status |-> 101, usable |-> b]
        BY <3>2, <4>1 DEF WsAnswer, Answer
      <4>3. WsAnswer(up) \in HandlerAnswers /\ WsAnswer(up).usable = b
        BY <4>2 DEF HandlerAnswers
      <4>0. up.status = 200
        BY <1>1, <3>2
      <4>4. b => up.payload # "empty"
        BY <4>1
      <4>5. kind # "compact" /\ kind # "json"
        BY <1>5
      <4>6. WsAnswer(up).usable => up.payload # "empty"
        BY <4>3, <4>4
      <4> QED BY <4>0, <4>3, <4>5, <4>6
    <3> QED BY <3>1, <3>2
  <2> QED BY <1>5, <2>1 DEF AnswerOf
<1> QED BY <1>2, <1>3, <1>4, <1>5 DEF Kinds, Routed

\* The facts of a handler that an answer rests on.
LEMMA RespondOK ==
    ASSUME NEW h \in Handlers, h.token => h.account \in HAccounts, h.attempt = 0,
           h.kind \in Kinds, h.sends <= SendsIn(h.kind, Before(h.phase) + 1),
           h.kind \notin Routed => h.phase \in {"first", "refreshed"},
           h.kind = "passthrough" => h.phase = "first" /\ h.account = HNone,
           h.phase \in {"stripped", "failover"} => ~h.cont,
           h.phase = "bridged" => h.cont /\ h.fco,
           NEW a \in HandlerAnswers, a.usable => h.up \in UpAnswers /\ a = AnswerOf(h.kind, h.up)
    PROVE  HandlerOK(Respond(h, a)) /\ Respond(h, a).pc = "done"
<1> DEFINE k == Respond(h, a)
<1>1. k \in Handlers /\ k.pc = "done" /\ k.ans = a /\ SameBut(h, k)
  BY RespondFits
<1> HIDE DEF k
<1>2. SendsOK(k)
  BY <1>1 DEF SendsOK, SameBut
<1>3. PhaseOK(k)
  BY <1>1 DEF PhaseOK, SameBut, Executed
<1>4. AnswerOK(k)
  <2>1. "none" \notin Kinds
    BY DEF Kinds, Routed
  <2> QED BY <1>1, <2>1 DEF AnswerOK, SameBut
<1> QED BY <1>1, <1>2, <1>3, <1>4 DEF HandlerOK, SameBut, k

\* A handler whose execution has ended goes on to where AfterLost says.
EndedOK(h) ==
    /\ h \in Handlers /\ (h.token => h.account \in HAccounts) /\ h.attempt = 0
    /\ h.kind \in Kinds /\ h.up \in UpAnswers
    /\ h.sends <= SendsIn(h.kind, Before(h.phase) + 1)
    /\ h.kind \notin Routed => h.phase \in {"first", "refreshed"}
    /\ h.phase \in {"stripped", "failover"} => ~h.cont
    /\ h.phase = "bridged" => h.cont /\ h.fco

\* A handler whose execution has ended goes to a place that fits the answer.
LEMMA ExecutedOK ==
    ASSUME NEW h, EndedOK(h), h.kind # "passthrough", NEW p \in Executed,
           p = "check401" => h.phase \in {"first", "refreshed"} /\ h.up.status = 401
                             /\ (h.phase = "refreshed" => IndicatesDeactivated(h.up)),
           p = "bridging" => h.kind \in Routed /\ LostPrevious(h) /\ h.fco /\ h.phase # "bridged",
           p = "stripping" => h.kind \in Routed /\ LostPrevious(h) /\ ~h.fco,
           p = "failover" => h.kind \in Routed /\ h.phase # "failover" /\ ~(h.cont /\ h.fco)
    PROVE  HandlerOK(To(h, p)) /\ To(h, p).pc = p /\ SameBut(h, To(h, p))
<1> DEFINE k == To(h, p)
<1>0. p \in Places /\ p \notin {"idle", "routing", "rerouting", "planning", "sending", "done", "collected"}
  BY DEF Executed, Places
<1>1. k \in Handlers /\ k.pc = p /\ SameBut(h, k)
  BY <1>0, ToFits DEF EndedOK
<1> HIDE DEF k
<1>2. SendsOK(k)
  BY <1>0, <1>1 DEF SendsOK, SameBut, EndedOK
<1>3. PhaseOK(k)
  BY <1>0, <1>1 DEF PhaseOK, SameBut, EndedOK, LostPrevious
<1>4. AnswerOK(k)
  BY <1>0, <1>1 DEF AnswerOK
<1> QED BY <1>1, <1>2, <1>3, <1>4 DEF HandlerOK, SameBut, EndedOK, k

\* AfterLost chooses such a place.
LEMMA AfterLostOK ==
    ASSUME NEW h, EndedOK(h), h.kind # "passthrough"
    PROVE  /\ HandlerOK(AfterLost(h)) /\ SameBut(h, AfterLost(h))
           /\ AfterLost(h).pc \in {"bridging", "stripping", "exhaustion"}
           /\ ExhaustedAccountStatus(h.up) # "none" => AfterLost(h).pc = "exhaustion"
<1>1. CASE h.kind \in Routed /\ LostPrevious(h) /\ h.fco /\ h.phase # "bridged"
  <2>1. AfterLost(h) = To(h, "bridging")
    BY <1>1 DEF AfterLost, To
  <2>2. ExhaustedAccountStatus(h.up) = "none"
    BY <1>1, UpFits DEF EndedOK, LostPrevious
  <2>3. "bridging" \in Executed
    BY DEF Executed
  <2> QED BY <1>1, <2>1, <2>2, <2>3, ExecutedOK
<1>2. CASE h.kind \in Routed /\ LostPrevious(h) /\ ~h.fco
  <2>1. AfterLost(h) = To(h, "stripping")
    BY <1>2 DEF AfterLost, To
  <2>2. ExhaustedAccountStatus(h.up) = "none"
    BY <1>2, UpFits DEF EndedOK, LostPrevious
  <2>3. "stripping" \in Executed
    BY DEF Executed
  <2> QED BY <1>2, <2>1, <2>2, <2>3, ExecutedOK
<1>3. CASE /\ ~(h.kind \in Routed /\ LostPrevious(h) /\ h.fco /\ h.phase # "bridged")
           /\ ~(h.kind \in Routed /\ LostPrevious(h) /\ ~h.fco)
  <2>1. AfterLost(h) = To(h, "exhaustion")
    BY <1>3 DEF AfterLost, To
  <2>3. "exhaustion" \in Executed
    BY DEF Executed
  <2> QED BY <2>1, <2>3, ExecutedOK
<1> QED BY <1>1, <1>2, <1>3

\* After chooses such a place, or answers.
LEMMA AfterOK ==
    ASSUME NEW h, EndedOK(h), h.kind = "passthrough" => h.phase = "first" /\ h.account = HNone
    PROVE  /\ HandlerOK(After(h)) /\ SameBut(h, After(h))
           /\ ExhaustedAccountStatus(h.up) # "none" /\ h.kind # "passthrough" => After(h).pc = "exhaustion"
<1>1. CASE h.kind = "passthrough"
  <2>1. After(h) = Respond(h, AnswerOf(h.kind, h.up))
    BY <1>1 DEF After
  <2>2. AnswerOf(h.kind, h.up) \in HandlerAnswers
    BY AnswerFits DEF EndedOK
  <2>3. HandlerOK(Respond(h, AnswerOf(h.kind, h.up))) /\ SameBut(h, Respond(h, AnswerOf(h.kind, h.up)))
    BY <1>1, <2>2, RespondOK, RespondFits DEF EndedOK
  <2> QED BY <1>1, <2>1, <2>3
<1>2. CASE /\ h.kind # "passthrough" /\ h.up.status = 401 /\ h.account # HNone
           /\ h.phase = "first" \/ (h.phase = "refreshed" /\ IndicatesDeactivated(h.up))
  <2>1. After(h) = To(h, "check401")
    BY <1>2 DEF After, To
  <2>2. ExhaustedAccountStatus(h.up) = "none"
    BY <1>2, UpFits DEF EndedOK
  <2>3. "check401" \in Executed
    BY DEF Executed
  <2> QED BY <1>2, <2>1, <2>2, <2>3, ExecutedOK
<1>3. CASE /\ h.kind # "passthrough"
           /\ ~(/\ h.up.status = 401 /\ h.account # HNone
                /\ h.phase = "first" \/ (h.phase = "refreshed" /\ IndicatesDeactivated(h.up)))
  <2>1. After(h) = AfterLost(h)
    BY <1>3 DEF After
  <2> QED BY <1>3, <2>1, AfterLostOK
<1> QED BY <1>1, <1>2, <1>3

\* A step that changes the handler alone, and not from the place where an
\* exhausted account is retired.
LEMMA HandlerMoves ==
    ASSUME HandlersInv, hEx.pc # "exhaustion", NEW h, HandlerOK(h), SetEx(h)
    PROVE  HandlersInv'
<1>1. hEx' = h /\ hRow' = hRow /\ hSpent' = hSpent /\ hStream' = hStream
  BY DEF SetEx
<1>2. SpentOK'
  BY <1>1 DEF SpentOK, HandlersInv
<1>3. HandlerOK(hEx')
  BY <1>1
<1>4. HandlerOK(hEx)'
  BY <1>3 DEF HandlerOK, SendsOK, PhaseOK, AnswerOK, Handlers, Owners, Ups
<1> QED BY <1>1, <1>2, <1>4 DEF HandlersInv, CollectedOf

\* A handler that starts.
NotSent(h) ==
    /\ h \in Handlers /\ ~h.token /\ h.attempt = 0 /\ h.sends = 0 /\ h.phase = "first"
    /\ h.account = HNone /\ h.kind \in Kinds

\* It is routed, or sent at once.
LEMMA FreshOK ==
    ASSUME NEW h, NotSent(h),
           h.pc \in {"routing", "sending", "collected"},
           h.kind = "passthrough" => h.pc = "sending"
    PROVE  HandlerOK(h)
<1>1. Before("first") = 0
  BY DEF Before
<1>2. PerExecution(h.kind) \in 1..3 /\ SendsIn(h.kind, 0) = 0
  BY ExecutionBounds
<1>3. SendsOK(h)
  BY <1>1, <1>2 DEF SendsOK, NotSent, Executed
<1>4. PhaseOK(h)
  BY DEF PhaseOK, NotSent, Executed, Handlers
<1>5. AnswerOK(h)
  BY DEF AnswerOK
<1> QED BY <1>3, <1>4, <1>5 DEF HandlerOK, NotSent

\* It is refused at once.
LEMMA FreshRefusedOK ==
    ASSUME NEW h, NotSent(h), NEW status \in Nat
    PROVE  HandlerOK(Respond(h, Refused(status)))
<1>1. Refused(status) \in HandlerAnswers /\ ~Refused(status).usable
  BY DEF Refused, Answer, HandlerAnswers
<1>2. Before("first") = 0
  BY DEF Before
<1>3. PerExecution(h.kind) \in 1..3 /\ SendsIn(h.kind, 0) = 0
      /\ SendsIn(h.kind, 0 + 1) = SendsIn(h.kind, 0) + PerExecution(h.kind)
  BY ExecutionBounds
<1>4. h.sends <= SendsIn(h.kind, Before(h.phase) + 1)
  BY <1>2, <1>3 DEF NotSent
<1> QED BY <1>1, <1>4, RespondOK DEF NotSent

\* The handler before the first request.
LEMMA IdleFits ==
    /\ IdleHandler \in Handlers /\ IdleHandler.phase = "first" /\ IdleHandler.attempt = 0
    /\ IdleHandler.sends = 0 /\ IdleHandler.account = HNone /\ IdleHandler.token = FALSE
    /\ IdleHandler.pc = "idle"
<1>1. Refused(0) \in HandlerAnswers
  BY DEF Refused, Answer, HandlerAnswers
<1>2. NoAnswer \in Ups
  BY DEF Ups
<1> QED BY <1>1, <1>2 DEF IdleHandler, Handlers, HandlerKinds, Places, Owners, Phases

\* The handler of a kind, with its request.
Starts(kind, pc, cont, fco, header, want) ==
    [IdleHandler EXCEPT !.kind = kind, !.pc = pc, !.cont = cont, !.fco = fco, !.header = header,
                        !.want = want]

\* A handler that starts.
LEMMA StartsFits ==
    ASSUME NEW kind \in Kinds, NEW pc \in Places, NEW cont \in BOOLEAN, NEW fco \in BOOLEAN,
           NEW header \in BOOLEAN, NEW want \in Owners
    PROVE  LET h == Starts(kind, pc, cont, fco, header, want)
           IN  NotSent(h) /\ h.pc = pc /\ h.kind = kind
<1>1. kind \in HandlerKinds
  BY DEF HandlerKinds
<1> DEFINE h == Starts(kind, pc, cont, fco, header, want)
<1>2. h \in Handlers
  BY <1>1, IdleFits DEF Starts, Handlers
<1>3. /\ h.phase = "first" /\ h.attempt = 0 /\ h.sends = 0 /\ h.account = HNone /\ h.token = FALSE
      /\ h.pc = pc /\ h.kind = kind
  BY IdleFits DEF Starts, Handlers
<1> QED BY <1>2, <1>3 DEF NotSent

\* The handler of a kind, as it is made.
Kinded(kind) == [IdleHandler EXCEPT !.kind = kind]

\* A handler of a kind that has not started.
LEMMA KindedFits ==
    ASSUME NEW kind \in Kinds
    PROVE  NotSent(Kinded(kind))
<1>1. kind \in HandlerKinds
  BY DEF HandlerKinds
<1>2. Kinded(kind) \in Handlers
  BY <1>1, IdleFits DEF Kinded, Handlers
<1>3. LET h == Kinded(kind) IN
      /\ h.phase = "first" /\ h.attempt = 0 /\ h.sends = 0 /\ h.account = HNone /\ h.token = FALSE
      /\ h.kind = kind
  BY IdleFits DEF Kinded, Handlers
<1> QED BY <1>2, <1>3 DEF NotSent

\* A WebSocket frame arrives.
LEMMA ReceiveFrameKeeps ==
    ASSUME HandlersInv, NEW frame \in {"response.create", "binary", "other_type", "not_json", "empty_create"},
           NEW cont \in BOOLEAN, NEW fco \in BOOLEAN, NEW header \in BOOLEAN,
           NEW want \in Owners, ReceiveFrame(frame, cont, fco, header, want)
    PROVE  HandlersInv'
<1>1. hEx.pc # "exhaustion"
  BY DEF ReceiveFrame
<1> DEFINE mode == PrepareWebsocketPayload(frame)
           head == header /\ want # HNone
<1>2. mode \in {"invalid", "passthrough", "ws"}
  BY DEF PrepareWebsocketPayload
<1>3. PICK b \in BOOLEAN : b = head
  OBVIOUS
<1>4. "ws" \in Kinds /\ "passthrough" \in Kinds /\ "routing" \in Places /\ "sending" \in Places
  BY DEF Kinds, Routed, Places
<1>5. SetEx(CASE mode = "invalid" -> Respond(Kinded("ws"), Refused(400))
              [] mode = "passthrough" -> [Kinded("ws") EXCEPT !.kind = mode, !.pc = "sending"]
              [] mode = "ws" -> [Kinded("ws") EXCEPT !.pc = "routing", !.cont = cont, !.fco = fco,
                                        !.header = head, !.want = want])
  BY DEF ReceiveFrame, Kinded
<1> HIDE DEF mode, head
<1>6. CASE mode = "invalid"
  <2>1. SetEx(Respond(Kinded("ws"), Refused(400)))
    BY <1>5, <1>6
  <2>2. HandlerOK(Respond(Kinded("ws"), Refused(400)))
    <3>1. PICK status \in Nat : status = 400
      OBVIOUS
    <3>2. HandlerOK(Respond(Kinded("ws"), Refused(status)))
      BY <1>4, FreshRefusedOK, KindedFits
    <3> QED BY <3>1, <3>2
  <2> QED BY <1>1, <2>1, <2>2, HandlerMoves
<1>7. CASE mode = "passthrough"
  <2>0. SetEx([Kinded("ws") EXCEPT !.kind = mode, !.pc = "sending"])
    BY <1>5, <1>7
  <2>1. SetEx([Kinded("ws") EXCEPT !.kind = "passthrough", !.pc = "sending"])
    BY <2>0, <1>7
  <2>2. "passthrough" \in HandlerKinds
    BY <1>4 DEF HandlerKinds
  <2> DEFINE h == [Kinded("ws") EXCEPT !.kind = "passthrough", !.pc = "sending"]
  <2>3. Kinded("ws") \in Handlers /\ NotSent(Kinded("ws"))
    BY <1>4, KindedFits DEF NotSent
  <2>4. h \in Handlers /\ h.kind = "passthrough" /\ h.pc = "sending" /\ h.phase = Kinded("ws").phase
        /\ h.attempt = Kinded("ws").attempt /\ h.sends = Kinded("ws").sends
        /\ h.account = Kinded("ws").account /\ h.token = Kinded("ws").token
    BY <1>4, <2>2, <2>3 DEF Handlers
  <2>5. SetEx(h)
    BY <2>1
  <2> HIDE DEF h
  <2>6. NotSent(h)
    BY <1>4, <2>3, <2>4 DEF NotSent
  <2>7. HandlerOK(h)
    BY <2>4, <2>6, FreshOK
  <2> QED BY <1>1, <2>5, <2>7, HandlerMoves
<1>8. CASE mode = "ws"
  <2>1. SetEx([Kinded("ws") EXCEPT !.pc = "routing", !.cont = cont, !.fco = fco,
                                        !.header = b, !.want = want])
    BY <1>3, <1>5, <1>8
  <2>2. [Kinded("ws") EXCEPT !.pc = "routing", !.cont = cont, !.fco = fco, !.header = b, !.want = want]
          = Starts("ws", "routing", cont, fco, b, want)
    BY DEF Kinded, Starts, IdleHandler
  <2>3. SetEx(Starts("ws", "routing", cont, fco, b, want))
    BY <2>1, <2>2
  <2>5. HandlerOK(Starts("ws", "routing", cont, fco, b, want))
    BY <1>4, StartsFits, FreshOK, SMTT(60)
  <2> QED BY <1>1, <2>3, <2>5, HandlerMoves
<1> QED BY <1>2, <1>6, <1>7, <1>8

\* A unary request arrives.
LEMMA ReceiveUnaryKeeps ==
    ASSUME HandlersInv, NEW kind \in Kinds \ {"passthrough"}, NEW refusal \in Nat,
           NEW cont \in BOOLEAN, NEW fco \in BOOLEAN, NEW header \in BOOLEAN,
           NEW want \in Owners, ReceiveUnary(kind, refusal, cont, fco, header, want)
    PROVE  HandlersInv'
<1>1. hEx.pc # "exhaustion"
  BY DEF ReceiveUnary
<1> DEFINE head == header /\ want # HNone
           tool == cont /\ fco
<1>2. PICK b \in BOOLEAN : b = head
  OBVIOUS
<1>3. PICK t \in BOOLEAN : t = tool
  OBVIOUS
<1>4. kind \in Kinds /\ kind # "passthrough" /\ "routing" \in Places
  BY DEF Places
<1>5. \/ SetEx([Kinded(kind) EXCEPT !.pc = "routing", !.cont = cont, !.fco = tool,
                             !.header = head, !.want = want])
      \/ SetEx(Respond(Kinded(kind), Refused(refusal)))
  BY DEF ReceiveUnary, Kinded
<1> HIDE DEF head, tool
<1>6. CASE SetEx(Respond(Kinded(kind), Refused(refusal)))
  BY <1>1, <1>4, <1>6, FreshRefusedOK, KindedFits, HandlerMoves
<1>7. CASE SetEx([Kinded(kind) EXCEPT !.pc = "routing", !.cont = cont, !.fco = tool,
                             !.header = head, !.want = want])
  <2>1. SetEx([Kinded(kind) EXCEPT !.pc = "routing", !.cont = cont, !.fco = t,
                             !.header = b, !.want = want])
    BY <1>2, <1>3, <1>7
  <2>2. [Kinded(kind) EXCEPT !.pc = "routing", !.cont = cont, !.fco = t, !.header = b, !.want = want]
          = Starts(kind, "routing", cont, t, b, want)
    BY DEF Kinded, Starts, IdleHandler
  <2>3. SetEx(Starts(kind, "routing", cont, t, b, want))
    BY <2>1, <2>2
  <2>5. HandlerOK(Starts(kind, "routing", cont, t, b, want))
    BY <1>4, StartsFits, FreshOK
  <2> QED BY <1>1, <2>3, <2>5, HandlerMoves
<1> QED BY <1>5, <1>6, <1>7

\* A handler before its first execution.
Early(h) ==
    /\ h \in Handlers /\ (h.token => h.account \in HAccounts) /\ h.attempt = 0 /\ h.sends = 0
    /\ h.phase = "first" /\ h.kind \in Kinds /\ h.kind # "passthrough"

\* It goes on to its first execution.
LEMMA EarlyOK ==
    ASSUME NEW h, Early(h), h.pc \in {"rerouting", "planning", "sending"}
    PROVE  HandlerOK(h)
<1>1. Before("first") = 0
  BY DEF Before
<1>2. PerExecution(h.kind) \in 1..3 /\ SendsIn(h.kind, 0) = 0
  BY ExecutionBounds
<1>3. SendsOK(h)
  BY <1>1, <1>2 DEF SendsOK, Early, Executed
<1>4. PhaseOK(h)
  BY DEF PhaseOK, Early, Executed
<1>5. AnswerOK(h)
  BY DEF AnswerOK
<1> QED BY <1>3, <1>4, <1>5 DEF HandlerOK, Early

\* It is refused.
LEMMA EarlyRefusedOK ==
    ASSUME NEW h, Early(h), NEW status \in Nat
    PROVE  HandlerOK(Respond(h, Refused(status)))
<1>1. Refused(status) \in HandlerAnswers /\ ~Refused(status).usable
  BY DEF Refused, Answer, HandlerAnswers
<1>2. Before("first") = 0
  BY DEF Before
<1>3. PerExecution(h.kind) \in 1..3 /\ SendsIn(h.kind, 0) = 0
      /\ SendsIn(h.kind, 0 + 1) = SendsIn(h.kind, 0) + PerExecution(h.kind)
  BY ExecutionBounds
<1>4. h.sends <= SendsIn(h.kind, Before(h.phase) + 1)
  BY <1>2, <1>3 DEF Early
<1> QED BY <1>1, <1>4, RespondOK DEF Early

\* A handler at one of the first places.
LEMMA EarlyFrom ==
    ASSUME NEW h, HandlerOK(h), h.pc \in {"routing", "rerouting", "planning"}
    PROVE  Early(h)
  BY DEF Early, HandlerOK, SendsOK, PhaseOK

\* A handler whose execution has ended.
LEMMA EndedFrom ==
    ASSUME NEW h, HandlerOK(h), h.pc \in Executed
    PROVE  EndedOK(h) /\ h.kind # "passthrough"
<1>1. h.pc \notin {"idle", "sending", "done"}
  BY DEF Executed
<1>2. PhaseOK(h) /\ SendsOK(h) /\ h \in Handlers
  BY DEF HandlerOK
<1>3. h.kind # "passthrough" /\ h.kind \in Kinds /\ h.up \in UpAnswers
  BY <1>1, <1>2 DEF PhaseOK
<1>4. h.attempt = 0 /\ h.sends <= SendsIn(h.kind, Before(h.phase) + 1)
  BY <1>1, <1>2 DEF SendsOK
<1>5. /\ h.kind \notin Routed => h.phase \in {"first", "refreshed"}
      /\ h.phase \in {"stripped", "failover"} => ~h.cont
      /\ h.phase = "bridged" => h.cont /\ h.fco
  BY <1>2 DEF PhaseOK
<1> QED BY <1>2, <1>3, <1>4, <1>5 DEF EndedOK, HandlerOK

\* Only accounts of the table are resolved.
LEMMA ResolvableFits ==
    ASSUME NEW want, NEW strict, NEW a \in Resolvable(want, strict)
    PROVE  a \in HAccounts
<1> DEFINE usable == {x \in HAccounts : hRow[x] = "usable" /\ (PoolActive => x \in HPool)}
<1>1. usable \subseteq HAccounts
  OBVIOUS
<1>2. Resolvable(want, strict) = CASE want \in usable -> {want}
          [] want \notin usable /\ strict -> {}
          [] want \notin usable /\ ~strict -> usable
  BY DEF Resolvable
<1> HIDE DEF usable
<1>3. CASE want \in usable
  BY <1>1, <1>2, <1>3
<1>4. CASE want \notin usable
  BY <1>1, <1>2, <1>4
<1> QED BY <1>3, <1>4

\* A request that is sent to an account.
ToAccount(h, p, a) == [h EXCEPT !.pc = p, !.account = a, !.token = TRUE]

\* Credentials were found.
LEMMA ToAccountFits ==
    ASSUME NEW h, Early(h), NEW a \in HAccounts
    PROVE  HandlerOK(ToAccount(h, "planning", a))
<1> DEFINE k == ToAccount(h, "planning", a)
<1>1. "planning" \in Places /\ a \in Owners
  BY DEF Places, Owners
<1>2. k \in Handlers
  BY <1>1 DEF Early, ToAccount, Handlers
<1>3. k.pc = "planning" /\ k.account = a /\ k.attempt = h.attempt /\ k.sends = h.sends
      /\ k.phase = h.phase /\ k.kind = h.kind
  BY DEF Early, ToAccount, Handlers
<1> HIDE DEF k
<1>4. Early(k)
  BY <1>2, <1>3 DEF Early
<1>5. HandlerOK(k)
  BY <1>3, <1>4, EarlyOK
<1> QED BY <1>5 DEF k

\* Credentials are looked up.
LEMMA ResolveCredentialsKeeps ==
    ASSUME HandlersInv, ResolveCredentials
    PROVE  HandlersInv'
<1>1. hEx.pc = "routing" /\ hEx.pc # "exhaustion"
  BY DEF ResolveCredentials
<1>2. Early(hEx) /\ ~hEx.token
  BY <1>1, EarlyFrom DEF HandlersInv, HandlerOK, PhaseOK
<1> DEFINE strict == hEx.cont /\ hEx.want # HNone
           found == Resolvable(hEx.want, strict)
<1>3. \/ \E a \in found : SetEx(ToAccount(hEx, "planning", a))
      \/ SetEx(CASE strict /\ ~hEx.header /\ ~hEx.fco
                              -> [hEx EXCEPT !.cont = FALSE, !.pc = "rerouting"]
                         [] strict /\ (hEx.header \/ hEx.fco) -> Respond(hEx, Refused(409))
                         [] ~strict -> [hEx EXCEPT !.pc = "planning", !.account = hEx.want])
  BY DEF ResolveCredentials, ToAccount
<1> HIDE DEF found
<1>4. CASE \E a \in found : SetEx(ToAccount(hEx, "planning", a))
  <2>1. PICK a \in found : SetEx(ToAccount(hEx, "planning", a))
    BY <1>4
  <2>2. a \in HAccounts
    BY <2>1, ResolvableFits DEF found
  <2> QED BY <1>1, <1>2, <2>1, <2>2, ToAccountFits, HandlerMoves
<1>5. CASE SetEx(CASE strict /\ ~hEx.header /\ ~hEx.fco
                              -> [hEx EXCEPT !.cont = FALSE, !.pc = "rerouting"]
                         [] strict /\ (hEx.header \/ hEx.fco) -> Respond(hEx, Refused(409))
                         [] ~strict -> [hEx EXCEPT !.pc = "planning", !.account = hEx.want])
  <2> HIDE DEF strict
  <2>1. CASE strict /\ ~hEx.header /\ ~hEx.fco
    <3>1. SetEx([hEx EXCEPT !.cont = FALSE, !.pc = "rerouting"])
      BY <1>5, <2>1
    <3> DEFINE k == [hEx EXCEPT !.cont = FALSE, !.pc = "rerouting"]
    <3>2. "rerouting" \in Places
      BY DEF Places
    <3>3. k \in Handlers
      BY <1>2, <3>2 DEF Early, Handlers
    <3>4. k.pc = "rerouting" /\ k.account = hEx.account /\ k.token = hEx.token /\ k.attempt = hEx.attempt
          /\ k.sends = hEx.sends /\ k.phase = hEx.phase /\ k.kind = hEx.kind
      BY <1>2 DEF Early, Handlers
    <3>5. SetEx(k)
      BY <3>1
    <3> HIDE DEF k
    <3>6. Early(k)
      BY <1>2, <3>3, <3>4 DEF Early
    <3>7. HandlerOK(k)
      BY <3>4, <3>6, EarlyOK
    <3> QED BY <1>1, <3>5, <3>7, HandlerMoves
  <2>2. CASE strict /\ (hEx.header \/ hEx.fco)
    <3>1. SetEx(Respond(hEx, Refused(409)))
      BY <1>5, <2>2
    <3>2. PICK status \in Nat : status = 409
      OBVIOUS
    <3>3. HandlerOK(Respond(hEx, Refused(status)))
      BY <1>2, EarlyRefusedOK
    <3>4. SetEx(Respond(hEx, Refused(status)))
      BY <3>1, <3>2
    <3> QED BY <1>1, <3>3, <3>4, HandlerMoves
  <2>3. CASE ~strict
    <3>1. SetEx([hEx EXCEPT !.pc = "planning", !.account = hEx.want])
      BY <1>5, <2>3
    <3> DEFINE k == [hEx EXCEPT !.pc = "planning", !.account = hEx.want]
    <3>2. "planning" \in Places
      BY DEF Places
    <3>3. k \in Handlers
      BY <1>2, <3>2 DEF Early, Handlers
    <3>4. k.pc = "planning" /\ k.token = hEx.token /\ k.attempt = hEx.attempt
          /\ k.sends = hEx.sends /\ k.phase = hEx.phase /\ k.kind = hEx.kind
      BY <1>2 DEF Early, Handlers
    <3>5. SetEx(k)
      BY <3>1
    <3> HIDE DEF k
    <3>6. Early(k)
      BY <1>2, <3>3, <3>4 DEF Early
    <3>7. HandlerOK(k)
      BY <3>4, <3>6, EarlyOK
    <3> QED BY <1>1, <3>5, <3>7, HandlerMoves
  <2> QED BY <2>1, <2>2, <2>3
<1> QED BY <1>3, <1>4, <1>5

\* They are looked up again without the previous response.
LEMMA RerouteStrippedKeeps ==
    ASSUME HandlersInv, RerouteStripped
    PROVE  HandlersInv'
<1>1. hEx.pc = "rerouting" /\ hEx.pc # "exhaustion"
  BY DEF RerouteStripped
<1>2. Early(hEx)
  BY <1>1, EarlyFrom DEF HandlersInv
<1>3. \/ \E a \in Resolvable(HNone, FALSE) : SetEx(ToAccount(hEx, "planning", a))
      \/ SetEx(Respond(hEx, Refused(409)))
  BY DEF RerouteStripped, ToAccount
<1>4. CASE \E a \in Resolvable(HNone, FALSE) : SetEx(ToAccount(hEx, "planning", a))
  <2>1. PICK a \in Resolvable(HNone, FALSE) : SetEx(ToAccount(hEx, "planning", a))
    BY <1>4
  <2>2. a \in HAccounts
    BY <2>1, ResolvableFits
  <2> QED BY <1>1, <1>2, <2>1, <2>2, ToAccountFits, HandlerMoves
<1>5. CASE SetEx(Respond(hEx, Refused(409)))
  <2>1. PICK status \in Nat : status = 409
    OBVIOUS
  <2>2. HandlerOK(Respond(hEx, Refused(status)))
    BY <1>2, EarlyRefusedOK
  <2>3. SetEx(Respond(hEx, Refused(status)))
    BY <1>5, <2>1
  <2> QED BY <1>1, <2>2, <2>3, HandlerMoves
<1> QED BY <1>3, <1>4, <1>5

\* The plan is built.
LEMMA BuildPlanKeeps ==
    ASSUME HandlersInv, BuildPlan
    PROVE  HandlersInv'
<1>1. hEx.pc = "planning" /\ hEx.pc # "exhaustion"
  BY DEF BuildPlan
<1>2. Early(hEx)
  BY <1>1, EarlyFrom DEF HandlersInv
<1>3. SetEx(To(hEx, "sending")) \/ SetEx(Respond(hEx, Refused(400)))
  BY DEF BuildPlan, To
<1>4. CASE SetEx(To(hEx, "sending"))
  <2>1. "sending" \in Places
    BY DEF Places
  <2>2. To(hEx, "sending") \in Handlers /\ To(hEx, "sending").pc = "sending"
        /\ SameBut(hEx, To(hEx, "sending"))
    BY <1>2, <2>1, ToFits DEF Early
  <2>3. Early(To(hEx, "sending"))
    BY <1>2, <2>2 DEF Early, SameBut
  <2>4. HandlerOK(To(hEx, "sending"))
    BY <2>2, <2>3, EarlyOK
  <2> QED BY <1>1, <1>4, <2>4, HandlerMoves
<1>5. CASE SetEx(Respond(hEx, Refused(400)))
  <2>1. PICK status \in Nat : status = 400
    OBVIOUS
  <2>2. HandlerOK(Respond(hEx, Refused(status)))
    BY <1>2, EarlyRefusedOK
  <2>3. SetEx(Respond(hEx, Refused(status)))
    BY <1>5, <2>1
  <2> QED BY <1>1, <2>2, <2>3, HandlerMoves
<1> QED BY <1>3, <1>4, <1>5

\* Later phases leave room for the executions of the earlier ones.
LEMMA SendsGrow ==
    ASSUME NEW kind, NEW p \in Phases, NEW q \in Phases, Before(p) < Before(q)
    PROVE  SendsIn(kind, Before(p) + 1) <= SendsIn(kind, Before(q))
<1>1. Before(p) \in 0..3 /\ Before(q) \in 0..3 /\ PerExecution(kind) \in 1..3
  BY ExecutionBounds
<1> DEFINE b == Before(p)
           c == Before(q)
           n == PerExecution(kind)
<1>2. SendsIn(kind, b + 1) = (b + 1) * n /\ SendsIn(kind, c) = c * n
  BY DEF SendsIn
<1> HIDE DEF b, c, n
<1>3. b \in 0..3 /\ c \in 0..3 /\ n \in 1..3 /\ b < c
  BY <1>1 DEF b, c, n
<1>4. (b + 1) * n <= c * n
  <2>1. n = 1 \/ n = 2 \/ n = 3
    BY <1>3
  <2> QED BY <1>3, <2>1
<1> QED BY <1>2, <1>4 DEF b, c

\* An ended execution is followed by one of a later phase.
LEMMA AgainOK ==
    ASSUME NEW h, EndedOK(h), h.kind # "passthrough", NEW k \in Handlers, k.pc = "sending",
           k.attempt = h.attempt, k.sends = h.sends, k.kind = h.kind, Before(h.phase) < Before(k.phase),
           k.token => k.account \in HAccounts,
           k.kind \notin Routed => k.phase \in {"first", "refreshed"},
           k.phase \in {"stripped", "failover"} => ~k.cont,
           k.phase = "bridged" => k.cont /\ k.fco
    PROVE  HandlerOK(k)
<1>1. h.phase \in Phases /\ k.phase \in Phases /\ h.sends \in Nat
  BY DEF EndedOK, Handlers
<1>2. SendsIn(h.kind, Before(h.phase) + 1) <= SendsIn(h.kind, Before(k.phase))
  BY <1>1, SendsGrow
<1>3. Before(h.phase) \in 0..3 /\ Before(k.phase) \in 0..3 /\ PerExecution(h.kind) \in 1..3
  BY <1>1, ExecutionBounds
<1>4. SendsIn(h.kind, Before(h.phase) + 1) \in Nat /\ SendsIn(h.kind, Before(k.phase)) \in Nat
  <2>1. Before(h.phase) + 1 \in 0..3
    BY <1>3
  <2> QED BY <1>3, <2>1, ExecutionBounds
<1>5. k.sends <= SendsIn(k.kind, Before(k.phase)) + k.attempt /\ k.attempt < PerExecution(k.kind)
  BY <1>1, <1>2, <1>3, <1>4 DEF EndedOK
<1>6. SendsOK(k)
  BY <1>5 DEF SendsOK, Executed
<1>7. PhaseOK(k)
  BY DEF PhaseOK, EndedOK, Executed
<1>8. AnswerOK(k)
  BY DEF AnswerOK
<1> QED BY <1>6, <1>7, <1>8 DEF HandlerOK

\* The executions before each phase.
LEMMA Phased ==
    /\ Before("first") = 0 /\ Before("refreshed") = 1 /\ Before("bridged") = 2
    /\ Before("stripped") = 2 /\ Before("failover") = 3
  BY DEF Before

\* The request is sent with another previous id, or not.
LEMMA RetryBridgedIdKeeps ==
    ASSUME HandlersInv, NEW found \in BOOLEAN, RetryBridgedId(found)
    PROVE  HandlersInv'
<1>1. hEx.pc = "bridging" /\ hEx.pc # "exhaustion" /\ hEx.pc \in Executed
  BY DEF RetryBridgedId, Executed
<1>2. EndedOK(hEx) /\ hEx.kind # "passthrough"
  BY <1>1, EndedFrom DEF HandlersInv
<1>3. hEx.kind \in Routed /\ LostPrevious(hEx) /\ hEx.fco /\ hEx.phase # "bridged"
  BY <1>1 DEF HandlersInv, HandlerOK, PhaseOK
<1>4. CASE found
  <2> DEFINE k == [hEx EXCEPT !.pc = "sending", !.phase = "bridged"]
  <2>1. SetEx(k)
    BY <1>4 DEF RetryBridgedId
  <2>2. "sending" \in Places /\ "bridged" \in Phases
    BY DEF Places, Phases
  <2>3. k \in Handlers
    BY <1>2, <2>2 DEF EndedOK, Handlers
  <2>4. k.pc = "sending" /\ k.phase = "bridged" /\ k.attempt = hEx.attempt /\ k.sends = hEx.sends
        /\ k.kind = hEx.kind /\ k.cont = hEx.cont /\ k.fco = hEx.fco /\ k.token = hEx.token
        /\ k.account = hEx.account
    BY <1>2 DEF EndedOK, Handlers
  <2> HIDE DEF k
  <2>5. hEx.phase \in {"first", "refreshed"}
    <3>1. hEx.phase \in Phases /\ hEx.cont
      BY <1>2, <1>3 DEF EndedOK, Handlers, LostPrevious
    <3> QED BY <1>2, <1>3, <3>1 DEF EndedOK, Phases
  <2>6. Before(hEx.phase) < Before(k.phase)
    BY <2>4, <2>5, Phased
  <2>7. HandlerOK(k)
    BY <1>2, <1>3, <2>3, <2>4, <2>6, AgainOK DEF EndedOK, LostPrevious
  <2> QED BY <1>1, <2>1, <2>7, HandlerMoves
<1>5. CASE ~found
  <2>1. SetEx(To(hEx, "exhaustion"))
    BY <1>5 DEF RetryBridgedId, To
  <2>2. "exhaustion" \in Executed
    BY DEF Executed
  <2>3. HandlerOK(To(hEx, "exhaustion"))
    BY <1>2, <2>2, ExecutedOK
  <2> QED BY <1>1, <2>1, <2>3, HandlerMoves
<1> QED BY <1>4, <1>5

\* The request is sent without its previous id.
LEMMA RetryLocalContextKeeps ==
    ASSUME HandlersInv, RetryLocalContext
    PROVE  HandlersInv'
<1>1. hEx.pc = "stripping" /\ hEx.pc # "exhaustion" /\ hEx.pc \in Executed
  BY DEF RetryLocalContext, Executed
<1>2. EndedOK(hEx) /\ hEx.kind # "passthrough"
  BY <1>1, EndedFrom DEF HandlersInv
<1>3. hEx.kind \in Routed /\ LostPrevious(hEx) /\ ~hEx.fco
  BY <1>1 DEF HandlersInv, HandlerOK, PhaseOK
<1> DEFINE k == [hEx EXCEPT !.pc = "sending", !.phase = "stripped", !.cont = FALSE]
<1>4. SetEx(k)
  BY DEF RetryLocalContext
<1>5. "sending" \in Places /\ "stripped" \in Phases
  BY DEF Places, Phases
<1>6. k \in Handlers
  BY <1>2, <1>5 DEF EndedOK, Handlers
<1>7. k.pc = "sending" /\ k.phase = "stripped" /\ k.attempt = hEx.attempt /\ k.sends = hEx.sends
      /\ k.kind = hEx.kind /\ k.token = hEx.token /\ k.account = hEx.account
  BY <1>2 DEF EndedOK, Handlers
<1>8. k.cont = FALSE
  BY <1>2 DEF EndedOK, Handlers
<1> HIDE DEF k
<1>9. hEx.phase \in {"first", "refreshed"}
  <2>1. hEx.phase \in Phases /\ hEx.cont
    BY <1>2, <1>3 DEF EndedOK, Handlers, LostPrevious
  <2> QED BY <1>2, <1>3, <2>1 DEF EndedOK, Phases
<1>10. Before(hEx.phase) < Before(k.phase)
  BY <1>7, <1>9, Phased
<1>11. HandlerOK(k)
  BY <1>2, <1>3, <1>6, <1>7, <1>8, <1>10, AgainOK DEF EndedOK
<1> QED BY <1>1, <1>4, <1>11, HandlerMoves

\* The answer of an execution.
LEMMA AnsweredOK ==
    ASSUME NEW h, EndedOK(h), h.kind # "passthrough"
    PROVE  HandlerOK(Respond(h, AnswerOf(h.kind, h.up)))
<1>1. AnswerOf(h.kind, h.up) \in HandlerAnswers
  BY AnswerFits DEF EndedOK
<1> QED BY <1>1, RespondOK DEF EndedOK

\* The request is sent to another account, or answered.
LEMMA FailOverKeeps ==
    ASSUME HandlersInv, FailOver
    PROVE  HandlersInv'
<1>1. hEx.pc = "failover" /\ hEx.pc # "exhaustion" /\ hEx.pc \in Executed
  BY DEF FailOver, Executed
<1>2. EndedOK(hEx) /\ hEx.kind # "passthrough"
  BY <1>1, EndedFrom DEF HandlersInv
<1>3. hEx.kind \in Routed /\ hEx.phase # "failover"
  BY <1>1 DEF HandlersInv, HandlerOK, PhaseOK
<1> DEFINE k(a) == [hEx EXCEPT !.pc = "sending", !.phase = "failover", !.account = a,
                               !.token = TRUE, !.cont = FALSE]
<1>4. \/ \E a \in Resolvable(HNone, FALSE) : SetEx(k(a))
      \/ SetEx(Respond(hEx, AnswerOf(hEx.kind, hEx.up)))
  BY DEF FailOver
<1>5. ASSUME NEW a \in HAccounts PROVE HandlerOK(k(a))
  <2>1. "sending" \in Places /\ "failover" \in Phases /\ a \in Owners
    BY DEF Places, Phases, Owners
  <2>2. k(a) \in Handlers
    BY <1>2, <2>1 DEF EndedOK, Handlers
  <2>3. k(a).pc = "sending" /\ k(a).phase = "failover" /\ k(a).attempt = hEx.attempt
        /\ k(a).sends = hEx.sends /\ k(a).kind = hEx.kind /\ k(a).account = a
    BY <1>2 DEF EndedOK, Handlers
  <2>4. k(a).cont = FALSE
    BY <1>2 DEF EndedOK, Handlers
  <2> HIDE DEF k
  <2>5. Before(hEx.phase) < Before(k(a).phase)
    <3>1. hEx.phase \in Phases
      BY <1>2 DEF EndedOK, Handlers
    <3> QED BY <1>3, <2>3, <3>1, Phased DEF Phases
  <2> QED BY <1>2, <1>3, <2>2, <2>3, <2>4, <2>5, AgainOK
<1> HIDE DEF k
<1>6. CASE \E a \in Resolvable(HNone, FALSE) : SetEx(k(a))
  <2>1. PICK a \in Resolvable(HNone, FALSE) : SetEx(k(a))
    BY <1>6
  <2>2. a \in HAccounts
    BY <2>1, ResolvableFits
  <2> QED BY <1>1, <1>5, <2>1, <2>2, HandlerMoves
<1>7. CASE SetEx(Respond(hEx, AnswerOf(hEx.kind, hEx.up)))
  BY <1>1, <1>2, <1>7, AnsweredOK, HandlerMoves
<1> QED BY <1>4, <1>6, <1>7

\* An account that is not usable does not become usable.
Retires(before, after) == \A a \in HAccounts : before[a] # "usable" => after[a] # "usable"

\* The invariant, from its parts after a step.
LEMMA Assembled ==
    ASSUME HandlerOK(hEx'), SpentOK', hRow' \in [HAccounts -> {"usable", "exhausted", "deactivated"}],
           hSpent' \subseteq HAccounts \ {HNone}, CollectedOf(hStream')
    PROVE  HandlersInv'
<1>1. HandlerOK(hEx)'
  BY DEF HandlerOK, SendsOK, PhaseOK, AnswerOK, Handlers, Owners, Ups
<1> QED BY <1>1 DEF HandlersInv, CollectedOf

\* An account is marked.
LEMMA RowMarked ==
    ASSUME NEW row \in [HAccounts -> {"usable", "exhausted", "deactivated"}], NEW a \in HAccounts,
           NEW v \in {"exhausted", "deactivated"}
    PROVE  /\ [row EXCEPT ![a] = v] \in [HAccounts -> {"usable", "exhausted", "deactivated"}]
           /\ Retires(row, [row EXCEPT ![a] = v])
           /\ [row EXCEPT ![a] = v][a] # "usable"
  BY DEF Retires

\* A 401 is handled.
LEMMA Check401Keeps ==
    ASSUME HandlersInv, NEW refreshed \in BOOLEAN, Check401(refreshed)
    PROVE  HandlersInv'
<1>1. hEx.pc = "check401" /\ hEx.pc # "exhaustion" /\ hEx.pc \in Executed
  BY DEF Check401, Executed
<1>2. EndedOK(hEx) /\ hEx.kind # "passthrough"
  BY <1>1, EndedFrom DEF HandlersInv
<1>3. hEx.phase \in {"first", "refreshed"} /\ (hEx.phase = "refreshed" => IndicatesDeactivated(hEx.up))
  BY <1>1 DEF HandlersInv, HandlerOK, PhaseOK
<1>4. HandlerOK(AfterLost(hEx))
  BY <1>2, AfterLostOK
<1>5. hSpent' = hSpent /\ hStream' = hStream /\ CollectedOf(hStream) /\ hSpent \subseteq HAccounts \ {HNone}
      /\ hRow \in [HAccounts -> {"usable", "exhausted", "deactivated"}]
  BY DEF Check401, HandlersInv
<1>6. CASE IndicatesDeactivated(hEx.up)
  <2>1. hEx' = AfterLost(hEx)
    BY <1>6 DEF Check401
  <2>2. /\ hRow' \in [HAccounts -> {"usable", "exhausted", "deactivated"}]
        /\ Retires(hRow, hRow')
    <3>1. CASE hEx.account \in HAccounts
      <4>1. hRow' = [hRow EXCEPT ![hEx.account] = "deactivated"]
        BY <1>6, <3>1 DEF Check401
      <4> QED BY <1>5, <3>1, <4>1, RowMarked
    <3>2. CASE hEx.account \notin HAccounts
      <4>1. hRow' = hRow
        BY <1>6, <3>2 DEF Check401
      <4> QED BY <1>5, <4>1 DEF Retires
    <3> QED BY <3>1, <3>2
  <2>3. SpentOK'
    BY <1>1, <1>5, <2>2 DEF SpentOK, HandlersInv, Retires
  <2> QED BY <1>4, <1>5, <2>1, <2>2, <2>3, Assembled
<1>7. CASE ~IndicatesDeactivated(hEx.up)
  <2>1. hRow' = hRow
    BY <1>7 DEF Check401
  <2>2. SetEx(hEx')
    BY <1>5, <2>1 DEF SetEx
  <2>3. CASE refreshed /\ hEx.account \in HAccounts /\ hRow[hEx.account] = "usable"
    <3> DEFINE k == [hEx EXCEPT !.pc = "sending", !.phase = "refreshed", !.token = TRUE]
    <3>1. hEx' = k
      BY <1>7, <2>3 DEF Check401
    <3>2. "sending" \in Places /\ "refreshed" \in Phases
      BY DEF Places, Phases
    <3>3. k \in Handlers
      BY <1>2, <3>2 DEF EndedOK, Handlers
    <3>4. k.pc = "sending" /\ k.phase = "refreshed" /\ k.attempt = hEx.attempt /\ k.sends = hEx.sends
          /\ k.kind = hEx.kind /\ k.account = hEx.account
      BY <1>2 DEF EndedOK, Handlers
    <3> HIDE DEF k
    <3>5. Before(hEx.phase) < Before(k.phase)
      BY <1>3, <1>7, <3>4, Phased
    <3>6. HandlerOK(k)
      BY <1>2, <2>3, <3>3, <3>4, <3>5, AgainOK
    <3> QED BY <1>1, <2>2, <3>1, <3>6, HandlerMoves
  <2>4. CASE ~(refreshed /\ hEx.account \in HAccounts /\ hRow[hEx.account] = "usable")
    <3>1. hEx' = AfterLost(hEx)
      BY <1>7, <2>4 DEF Check401
    <3> QED BY <1>1, <1>4, <2>2, <3>1, HandlerMoves
  <2> QED BY <2>3, <2>4
<1> QED BY <1>6, <1>7

\* An exhausted account is retired.
LEMMA CheckExhaustionKeeps ==
    ASSUME HandlersInv, CheckExhaustion
    PROVE  HandlersInv'
<1>1. hEx.pc = "exhaustion" /\ hEx.pc \in Executed /\ "failover" \in Executed
  BY DEF CheckExhaustion, Executed
<1>2. EndedOK(hEx) /\ hEx.kind # "passthrough"
  BY <1>1, EndedFrom DEF HandlersInv
<1>3. hSpent' = hSpent /\ hStream' = hStream /\ CollectedOf(hStream) /\ hSpent \subseteq HAccounts \ {HNone}
      /\ hRow \in [HAccounts -> {"usable", "exhausted", "deactivated"}]
  BY DEF CheckExhaustion, HandlersInv
<1> DEFINE marked == HandleExhausted(hEx) # "none" /\ hEx.account # HNone
           failover == /\ marked /\ hEx.kind \in Routed /\ ~hEx.header /\ hEx.phase # "failover"
                       /\ ~(hEx.cont /\ hEx.fco)
<1>4. /\ hEx' = IF failover THEN To(hEx, "failover") ELSE Respond(hEx, AnswerOf(hEx.kind, hEx.up))
      /\ hRow' = IF marked /\ hEx.account \in HAccounts
                 THEN [hRow EXCEPT ![hEx.account] = IF hRow[hEx.account] = "deactivated"
                                                    THEN hRow[hEx.account] ELSE "exhausted"]
                 ELSE hRow
  BY DEF CheckExhaustion, To
<1>5. HandlerOK(hEx')
  <2>1. CASE failover
    BY <1>1, <1>2, <1>4, <2>1, ExecutedOK
  <2>2. CASE ~failover
    BY <1>2, <1>4, <2>2, AnsweredOK
  <2> QED BY <2>1, <2>2
<1>6. hEx.account \in HAccounts \cup {HNone}
  BY <1>2 DEF EndedOK, Handlers, Owners
<1>7. ExhaustedAccountStatus(hEx.up) # "none" => HandleExhausted(hEx) # "none"
  BY DEF HandleExhausted
<1> HIDE DEF marked, failover
<1>8. CASE marked /\ hEx.account \in HAccounts
  <2>1. PICK v \in {"exhausted", "deactivated"} : hRow' = [hRow EXCEPT ![hEx.account] = v]
    <3>1. CASE hRow[hEx.account] = "deactivated"
      BY <1>4, <1>8, <3>1
    <3>2. CASE hRow[hEx.account] # "deactivated"
      BY <1>4, <1>8, <3>2
    <3> QED BY <3>1, <3>2
  <2>2. /\ hRow' \in [HAccounts -> {"usable", "exhausted", "deactivated"}]
        /\ Retires(hRow, hRow') /\ hRow'[hEx.account] # "usable"
    BY <1>3, <1>8, <2>1, RowMarked
  <2>3. SpentOK'
    BY <1>3, <2>2 DEF SpentOK, HandlersInv, Retires
  <2> QED BY <1>3, <1>5, <2>2, <2>3, Assembled
<1>9. CASE ~(marked /\ hEx.account \in HAccounts)
  <2>1. hRow' = hRow
    BY <1>4, <1>9
  <2>2. \A a \in hSpent : hRow[a] # "usable"
    BY <1>3, <1>6, <1>7, <1>9 DEF SpentOK, HandlersInv, marked
  <2>3. SpentOK'
    BY <1>3, <2>1, <2>2 DEF SpentOK
  <2> QED BY <1>3, <1>5, <2>1, <2>3, Assembled
<1> QED BY <1>8, <1>9

\* Another request retires an account.
LEMMA OtherRequestMarksKeeps ==
    ASSUME HandlersInv, NEW a \in HAccounts, NEW mark \in {"exhausted", "deactivated"},
           OtherRequestMarks(a, mark)
    PROVE  HandlersInv'
<1>1. /\ hEx' = hEx /\ hSpent' = hSpent /\ hStream' = hStream /\ hRow' = [hRow EXCEPT ![a] = mark]
      /\ CollectedOf(hStream) /\ hSpent \subseteq HAccounts \ {HNone} /\ HandlerOK(hEx)
      /\ hRow \in [HAccounts -> {"usable", "exhausted", "deactivated"}]
  BY DEF OtherRequestMarks, HandlersInv
<1>2. /\ hRow' \in [HAccounts -> {"usable", "exhausted", "deactivated"}] /\ Retires(hRow, hRow')
  BY <1>1, RowMarked
<1>3. SpentOK'
  BY <1>1, <1>2 DEF SpentOK, HandlersInv, Retires
<1> QED BY <1>1, <1>2, <1>3, Assembled

\* A stream is collected.
LEMMA CollectStreamKeeps ==
    ASSUME HandlersInv, NEW n \in 1..MaxEvents, NEW events \in [1..n -> StreamEvents], CollectStream(events)
    PROVE  HandlersInv'
<1>1. /\ hEx.pc = "idle" /\ hRow' = hRow /\ hSpent' = hSpent
      /\ hStream' = [events |-> events, collected |-> CollectFromStreamEvents(events)]
      /\ hEx' = [IdleHandler EXCEPT !.kind = "json", !.pc = "collected"]
      /\ hSpent \subseteq HAccounts \ {HNone}
      /\ hRow \in [HAccounts -> {"usable", "exhausted", "deactivated"}]
  BY DEF CollectStream, HandlersInv
<1>2. CollectedOf(hStream')
  <2>1. events \in Seq(StreamEvents)
    <3>1. n \in Nat
      OBVIOUS
    <3> QED BY <3>1
  <2> QED BY <1>1, <2>1 DEF CollectedOf
<1>3. HandlerOK(hEx')
  <2> DEFINE k == [IdleHandler EXCEPT !.kind = "json", !.pc = "collected"]
  <2>1. "json" \in Kinds /\ "json" \in HandlerKinds /\ "collected" \in Places
    BY DEF Kinds, Routed, HandlerKinds, Places
  <2>2. k \in Handlers
    BY <2>1, IdleFits DEF Handlers
  <2>3. k.phase = "first" /\ k.attempt = 0 /\ k.sends = 0 /\ k.account = HNone /\ k.token = FALSE
        /\ k.pc = "collected" /\ k.kind = "json"
    BY IdleFits DEF Handlers
  <2> HIDE DEF k
  <2>4. HandlerOK(k)
    BY <2>1, <2>2, <2>3, FreshOK DEF NotSent
  <2> QED BY <1>1, <2>4 DEF k
<1>4. SpentOK'
  BY <1>1 DEF SpentOK, HandlersInv
<1> QED BY <1>1, <1>2, <1>3, <1>4, Assembled

\* The upstream has answered once more; the execution is tried again, or has ended.
Sent(h, up) == [h EXCEPT !.sends = h.sends + 1, !.up = up]
SentAgain(h) == [h EXCEPT !.attempt = h.attempt + 1, !.up = NoAnswer]
SentLast(h) == [h EXCEPT !.attempt = 0]

\* The upstream has answered.
LEMMA SentFits ==
    ASSUME NEW h \in Handlers, NEW up \in UpAnswers
    PROVE  /\ Sent(h, up) \in Handlers /\ Sent(h, up).sends = h.sends + 1 /\ Sent(h, up).up = up
           /\ Sent(h, up).pc = h.pc /\ Sent(h, up).attempt = h.attempt /\ Sent(h, up).kind = h.kind
           /\ Sent(h, up).phase = h.phase /\ Sent(h, up).account = h.account
           /\ Sent(h, up).token = h.token /\ Sent(h, up).cont = h.cont /\ Sent(h, up).fco = h.fco
<1>1. up \in Ups
  BY DEF Ups
<1>2. h.sends + 1 \in Nat
  BY DEF Handlers
<1>3. Sent(h, up) \in Handlers
  BY <1>1, <1>2 DEF Sent, Handlers
<1> QED BY <1>3 DEF Sent, Handlers

\* The execution is retried.
LEMMA SentAgainFits ==
    ASSUME NEW h \in Handlers
    PROVE  /\ SentAgain(h) \in Handlers /\ SentAgain(h).sends = h.sends
           /\ SentAgain(h).pc = h.pc /\ SentAgain(h).attempt = h.attempt + 1 /\ SentAgain(h).kind = h.kind
           /\ SentAgain(h).phase = h.phase /\ SentAgain(h).account = h.account
           /\ SentAgain(h).token = h.token /\ SentAgain(h).cont = h.cont /\ SentAgain(h).fco = h.fco
<1>1. NoAnswer \in Ups
  BY DEF Ups
<1>2. h.attempt + 1 \in Nat
  BY DEF Handlers
<1>3. SentAgain(h) \in Handlers
  BY <1>1, <1>2 DEF SentAgain, Handlers
<1> QED BY <1>3 DEF SentAgain, Handlers

\* The execution has ended.
LEMMA SentLastFits ==
    ASSUME NEW h \in Handlers
    PROVE  /\ SentLast(h) \in Handlers /\ SentLast(h).sends = h.sends /\ SentLast(h).up = h.up
           /\ SentLast(h).pc = h.pc /\ SentLast(h).attempt = 0 /\ SentLast(h).kind = h.kind
           /\ SentLast(h).phase = h.phase /\ SentLast(h).account = h.account
           /\ SentLast(h).token = h.token /\ SentLast(h).cont = h.cont /\ SentLast(h).fco = h.fco
<1>3. SentLast(h) \in Handlers
  BY DEF SentLast, Handlers
<1> QED BY <1>3 DEF SentLast, Handlers

\* One attempt of an execution.
LEMMA UpstreamAnswersKeeps ==
    ASSUME HandlersInv, NEW up \in UpAnswers, UpstreamAnswers(up)
    PROVE  HandlersInv'
<1> DEFINE retry == ShouldRetry(hEx.kind, up) /\ hEx.attempt < RetryBudget(hEx.kind)
           reported == ExhaustedAccountStatus(up) # "none" /\ hEx.account # HNone
           s == Sent(hEx, up)
<1>1. /\ hEx.pc = "sending" /\ hRow' = hRow /\ hStream' = hStream
      /\ hEx' = IF retry THEN SentAgain(s) ELSE After(SentLast(s))
      /\ hSpent' = IF reported THEN hSpent \cup {hEx.account} ELSE hSpent
  BY DEF UpstreamAnswers, Sent, SentAgain, SentLast
<1>2. /\ CollectedOf(hStream) /\ hSpent \subseteq HAccounts \ {HNone} /\ HandlerOK(hEx)
      /\ hRow \in [HAccounts -> {"usable", "exhausted", "deactivated"}]
      /\ \A a \in hSpent : hRow[a] # "usable"
  BY <1>1 DEF HandlersInv, SpentOK
<1>3. hEx \in Handlers /\ hEx.phase \in Phases /\ hEx.kind \in Kinds
      /\ hEx.attempt \in Nat /\ hEx.sends \in Nat /\ hEx.account \in HAccounts \cup {HNone}
  BY <1>1, <1>2 DEF HandlerOK, PhaseOK, Handlers, Owners
<1>4. Before(hEx.phase) \in 0..3 /\ PerExecution(hEx.kind) \in 1..3
      /\ SendsIn(hEx.kind, Before(hEx.phase)) \in Nat
      /\ SendsIn(hEx.kind, Before(hEx.phase) + 1)
           = SendsIn(hEx.kind, Before(hEx.phase)) + PerExecution(hEx.kind)
  BY <1>3, ExecutionBounds
<1>5. hEx.attempt < PerExecution(hEx.kind)
      /\ hEx.sends <= SendsIn(hEx.kind, Before(hEx.phase)) + hEx.attempt
  BY <1>1, <1>2 DEF HandlerOK, SendsOK
<1>6. /\ hEx.kind \notin Routed => hEx.phase \in {"first", "refreshed"}
      /\ hEx.kind = "passthrough" => hEx.phase = "first" /\ hEx.account = HNone
      /\ hEx.phase \in {"stripped", "failover"} => ~hEx.cont
      /\ hEx.phase = "bridged" => hEx.cont /\ hEx.fco
      /\ hEx.token => hEx.account \in HAccounts
  BY <1>2 DEF HandlerOK, PhaseOK
<1>7. /\ s \in Handlers /\ s.sends = hEx.sends + 1 /\ s.up = up
      /\ s.pc = hEx.pc /\ s.attempt = hEx.attempt /\ s.kind = hEx.kind
      /\ s.phase = hEx.phase /\ s.account = hEx.account
      /\ s.token = hEx.token /\ s.cont = hEx.cont /\ s.fco = hEx.fco
  BY <1>3, SentFits
<1> HIDE DEF s
<1>8. hSpent' \subseteq HAccounts \ {HNone}
  BY <1>1, <1>2, <1>3
<1>9. CASE retry
  <2> DEFINE k == SentAgain(s)
  <2>1. /\ k \in Handlers /\ k.sends = s.sends /\ k.pc = s.pc /\ k.attempt = s.attempt + 1 /\ k.kind = s.kind
        /\ k.phase = s.phase /\ k.account = s.account
        /\ k.token = s.token /\ k.cont = s.cont /\ k.fco = s.fco
    BY <1>7, SentAgainFits
  <2>2. hEx' = k
    BY <1>1, <1>9
  <2> HIDE DEF k
  <2>3. PerExecution(hEx.kind) = RetryBudget(hEx.kind) + 1
    <3>1. hEx.kind # "transcribe"
      BY <1>9 DEF ShouldRetry
    <3> QED BY <3>1 DEF PerExecution
  <2>4. hEx.attempt + 1 < PerExecution(hEx.kind)
    <3>1. RetryBudget(hEx.kind) \in Nat
      BY DEF RetryBudget, kCompactRetryBudget, kStreamRetryBudget
    <3> QED BY <1>3, <1>9, <2>3, <3>1
  <2>5. SendsOK(k)
    <3>1. k.pc = "sending" /\ k.attempt < PerExecution(k.kind)
      BY <1>1, <1>7, <2>1, <2>4
    <3>2. k.sends <= SendsIn(k.kind, Before(k.phase)) + k.attempt
      BY <1>3, <1>4, <1>5, <1>7, <2>1
    <3> QED BY <3>1, <3>2 DEF SendsOK, Executed
  <2>6. PhaseOK(k)
    BY <1>1, <1>3, <1>6, <1>7, <2>1 DEF PhaseOK, Executed
  <2>7. AnswerOK(k)
    BY <1>1, <1>7, <2>1 DEF AnswerOK
  <2>8. HandlerOK(k)
    BY <1>6, <1>7, <2>1, <2>5, <2>6, <2>7 DEF HandlerOK
  <2>9. ExhaustedAccountStatus(up) = "none"
    BY <1>3, <1>9, UpFits
  <2>10. SpentOK'
    BY <1>1, <1>2, <2>9 DEF SpentOK
  <2> QED BY <1>1, <1>2, <1>8, <2>2, <2>8, <2>10, Assembled
<1>10. CASE ~retry
  <2> DEFINE k == SentLast(s)
  <2>1. /\ k \in Handlers /\ k.sends = s.sends /\ k.up = s.up /\ k.attempt = 0 /\ k.kind = s.kind
        /\ k.phase = s.phase /\ k.account = s.account
        /\ k.token = s.token /\ k.cont = s.cont /\ k.fco = s.fco
    BY <1>7, SentLastFits
  <2>2. hEx' = After(k)
    BY <1>1, <1>10
  <2> HIDE DEF k
  <2>3. k.sends <= SendsIn(k.kind, Before(k.phase) + 1)
    BY <1>3, <1>4, <1>5, <1>7, <2>1
  <2>4. EndedOK(k)
    BY <1>3, <1>6, <1>7, <2>1, <2>3 DEF EndedOK
  <2>5. /\ HandlerOK(After(k)) /\ SameBut(k, After(k))
        /\ ExhaustedAccountStatus(k.up) # "none" /\ k.kind # "passthrough" => After(k).pc = "exhaustion"
    BY <1>6, <1>7, <2>1, <2>4, AfterOK
  <2>6. SpentOK'
    <3>1. SUFFICES ASSUME NEW a \in hSpent'
                   PROVE  \/ hRow'[a] # "usable"
                          \/ hEx'.pc = "exhaustion" /\ a = hEx'.account
                             /\ ExhaustedAccountStatus(hEx'.up) # "none"
      BY DEF SpentOK, ExhaustedAccountStatus
    <3>2. CASE a \in hSpent
      BY <1>1, <1>2, <3>2
    <3>3. CASE a \notin hSpent
      <4>1. reported /\ a = hEx.account
        BY <1>1, <3>3
      <4>2. hEx.kind # "passthrough"
        BY <1>6, <4>1
      <4>3. hEx'.pc = "exhaustion" /\ hEx'.account = hEx.account /\ hEx'.up = up
        BY <1>7, <2>1, <2>2, <2>5, <4>1, <4>2 DEF SameBut
      <4> QED BY <4>1, <4>3
    <3> QED BY <3>2, <3>3
  <2> QED BY <1>1, <1>2, <1>8, <2>2, <2>5, <2>6, Assembled
<1> QED BY <1>9, <1>10

\* Before the first request.
LEMMA HandlersStart == HandlersInit => HandlersInv
<1> SUFFICES ASSUME HandlersInit PROVE HandlersInv
  OBVIOUS
<1>1. /\ hRow \in [HAccounts -> {"usable", "exhausted", "deactivated"}]
      /\ hSpent = {} /\ hEx = IdleHandler
      /\ hStream = [events |-> <<>>, collected |-> [kind |-> "none"]]
  BY DEF HandlersInit
<1>2. HandlerOK(IdleHandler)
  <2>1. SendsOK(IdleHandler)
    BY IdleFits DEF SendsOK, Executed
  <2>2. PhaseOK(IdleHandler)
    <3>1. IdleHandler.kind = "none" /\ "none" \notin Routed
      BY DEF IdleHandler, Routed
    <3> QED BY <3>1, IdleFits DEF PhaseOK, Executed
  <2>3. AnswerOK(IdleHandler)
    BY IdleFits DEF AnswerOK
  <2> QED BY <2>1, <2>2, <2>3, IdleFits DEF HandlerOK
<1>3. CollectedOf(hStream)
  <2>1. <<>> \in Seq(StreamEvents) /\ Len(<<>>) = 0
    OBVIOUS
  <2>2. CollectFromStreamEvents(<<>>) = TheScan(<<>>)[0].result
    BY <2>1, CollectIsScan
  <2>3. IsScan(TheScan(<<>>), <<>>, 0)
    BY <2>1, ScanExists DEF TheScan
  <2>4. TheScan(<<>>)[0] = NothingCollected
    BY <2>3 DEF IsScan
  <2>5. NothingCollected.result = [kind |-> "none"]
    BY DEF NothingCollected
  <2> QED BY <1>1, <2>1, <2>2, <2>4, <2>5 DEF CollectedOf
<1> QED BY <1>1, <1>2, <1>3 DEF HandlersInv, SpentOK

\* Every step of a handler.
LEMMA HandlersStep == HandlersInv /\ [HandlersNext]_handlerVars => HandlersInv'
<1> SUFFICES ASSUME HandlersInv, [HandlersNext]_handlerVars PROVE HandlersInv'
  OBVIOUS
<1>1. CASE UNCHANGED handlerVars
  <2>1. hEx' = hEx /\ hRow' = hRow /\ hSpent' = hSpent /\ hStream' = hStream
    BY <1>1 DEF handlerVars
  <2>2. SpentOK'
    BY <2>1 DEF SpentOK, HandlersInv
  <2> QED BY <2>1, <2>2, Assembled DEF HandlersInv
<1>2. CASE \E cont, fco, header \in BOOLEAN, want \in HAccounts \cup {HNone} :
         \/ \E frame \in {"response.create", "binary", "other_type", "not_json", "empty_create"} :
              ReceiveFrame(frame, cont, fco, header, want)
         \/ ReceiveJson(cont, fco, header, want)
         \/ ReceiveCompact(header, want)
         \/ ReceiveMemories(header, want)
         \/ ReceiveTranscribe(header, want)
  <2>1. PICK cont \in BOOLEAN, fco \in BOOLEAN, header \in BOOLEAN, want \in Owners :
         \/ \E frame \in {"response.create", "binary", "other_type", "not_json", "empty_create"} :
              ReceiveFrame(frame, cont, fco, header, want)
         \/ ReceiveJson(cont, fco, header, want)
         \/ ReceiveCompact(header, want)
         \/ ReceiveMemories(header, want)
         \/ ReceiveTranscribe(header, want)
    BY <1>2 DEF Owners
  <2>3. {"json", "compact", "memories", "transcribe"} \subseteq Kinds \ {"passthrough"}
    BY DEF Kinds, Routed
  <2>4. CASE \E frame \in {"response.create", "binary", "other_type", "not_json", "empty_create"} :
              ReceiveFrame(frame, cont, fco, header, want)
    BY <2>4, ReceiveFrameKeeps
  <2>5. CASE ReceiveJson(cont, fco, header, want)
    <3>1. ReceiveUnary("json", 404, cont, fco, header, want)
      BY <2>5 DEF ReceiveJson
    <3> QED BY <2>3, <3>1, ReceiveUnaryKeeps
  <2>6. CASE ReceiveCompact(header, want)
    <3>1. ReceiveUnary("compact", 404, FALSE, FALSE, header, want)
      BY <2>6 DEF ReceiveCompact
    <3>2. PICK refusal \in Nat : refusal = 404
      OBVIOUS
    <3>3. ReceiveUnary("compact", refusal, FALSE, FALSE, header, want)
      BY <3>1, <3>2
    <3> QED BY <2>3, <3>3, ReceiveUnaryKeeps
  <2>7. CASE ReceiveMemories(header, want)
    <3>1. ReceiveUnary("memories", 404, FALSE, FALSE, header, want)
      BY <2>7 DEF ReceiveMemories
    <3>2. PICK refusal \in Nat : refusal = 404
      OBVIOUS
    <3>3. ReceiveUnary("memories", refusal, FALSE, FALSE, header, want)
      BY <3>1, <3>2
    <3> QED BY <2>3, <3>3, ReceiveUnaryKeeps
  <2>8. CASE ReceiveTranscribe(header, want)
    <3>1. PICK refusal \in {400, 404} : ReceiveUnary("transcribe", refusal, FALSE, FALSE, header, want)
      BY <2>8 DEF ReceiveTranscribe
    <3>2. refusal \in Nat
      OBVIOUS
    <3> QED BY <2>3, <3>1, <3>2, ReceiveUnaryKeeps, ZenonT(60)
  <2> QED BY <2>1, <2>4, <2>5, <2>6, <2>7, <2>8
<1>3. CASE ResolveCredentials
  BY <1>3, ResolveCredentialsKeeps
<1>4. CASE RerouteStripped
  BY <1>4, RerouteStrippedKeeps
<1>5. CASE BuildPlan
  BY <1>5, BuildPlanKeeps
<1>6. CASE \E up \in UpAnswers : UpstreamAnswers(up)
  BY <1>6, UpstreamAnswersKeeps
<1>7. CASE \E refreshed \in BOOLEAN : Check401(refreshed)
  BY <1>7, Check401Keeps
<1>8. CASE \E found \in BOOLEAN : RetryBridgedId(found)
  BY <1>8, RetryBridgedIdKeeps
<1>9. CASE RetryLocalContext
  BY <1>9, RetryLocalContextKeeps
<1>10. CASE CheckExhaustion
  BY <1>10, CheckExhaustionKeeps
<1>11. CASE FailOver
  BY <1>11, FailOverKeeps
<1>12. CASE \E a \in HAccounts, mark \in {"exhausted", "deactivated"} : OtherRequestMarks(a, mark)
  BY <1>12, OtherRequestMarksKeeps
<1>13. CASE \E n \in 1..MaxEvents : \E events \in [1..n -> StreamEvents] : CollectStream(events)
  BY <1>13, CollectStreamKeeps
<1> QED BY <1>1, <1>2, <1>3, <1>4, <1>5, <1>6, <1>7, <1>8, <1>9, <1>10, <1>11, <1>12, <1>13
       DEF HandlersNext

\* What was sent by the last execution bounds what was sent.
LEMMA SendsBounded == HandlersInv => SendsAreBounded
<1> SUFFICES ASSUME HandlersInv PROVE SendsAreBounded
  OBVIOUS
<1> DEFINE h == hEx
<1>1. h \in Handlers /\ SendsOK(h) /\ PhaseOK(h)
  BY DEF HandlersInv, HandlerOK
<1>2. h.kind \in Kinds \cup {"none"} /\ h.pc \in Places /\ h.sends \in Nat /\ h.attempt \in Nat
      /\ h.phase \in Phases
  BY <1>1 DEF Handlers, HandlerKinds
<1> HIDE DEF h
<1>3. PerExecution(h.kind) \in 1..3 /\ Before(h.phase) \in 0..3
      /\ SendsIn(h.kind, Before(h.phase)) \in Nat
      /\ SendsIn(h.kind, Before(h.phase) + 1) = SendsIn(h.kind, Before(h.phase)) + PerExecution(h.kind)
  BY <1>2, ExecutionBounds
<1>4. h.sends <= SendsIn(h.kind, Before(h.phase) + 1)
  <2>1. CASE h.pc = "sending"
    BY <1>1, <1>2, <1>3, <2>1 DEF SendsOK
  <2>2. CASE h.pc \in {"idle", "routing", "rerouting", "planning", "collected"}
    <3>1. h.sends = 0
      BY <1>1, <2>2 DEF SendsOK
    <3> QED BY <1>3, <3>1
  <2>3. CASE h.pc \in Executed \cup {"done"}
    BY <1>1, <2>3 DEF SendsOK
  <2> QED BY <1>2, <2>1, <2>2, <2>3 DEF Places, Executed
<1>5. CASE h.kind \in {"compact", "memories"}
  <2>1. PerExecution(h.kind) = 2 /\ Before(h.phase) \in 0..1
    <3>1. h.phase \in {"first", "refreshed"}
      BY <1>1, <1>5 DEF PhaseOK, Routed
    <3> QED BY <1>5, <3>1, Phased DEF PerExecution, RetryBudget, kCompactRetryBudget
  <2>2. h.sends <= 4
    BY <1>2, <1>4, <2>1 DEF SendsIn
  <2> QED BY <1>5, <2>2 DEF SendsAreBounded, kCompactRetryBudget, h
<1>6. CASE h.kind = "transcribe"
  <2>1. PerExecution(h.kind) = 1 /\ Before(h.phase) \in 0..1
    <3>1. h.phase \in {"first", "refreshed"}
      BY <1>1, <1>6 DEF PhaseOK, Routed
    <3> QED BY <1>6, <3>1, Phased DEF PerExecution
  <2>2. h.sends <= 2
    BY <1>2, <1>4, <2>1 DEF SendsIn
  <2> QED BY <1>6, <2>2 DEF SendsAreBounded, h
<1>7. CASE h.kind = "passthrough"
  <2>1. PerExecution(h.kind) = 3 /\ Before(h.phase) = 0
    <3>1. h.phase = "first"
      BY <1>1, <1>7 DEF PhaseOK
    <3> QED BY <1>7, <3>1, Phased DEF PerExecution, RetryBudget, kStreamRetryBudget
  <2>2. h.sends <= 3
    BY <1>2, <1>4, <2>1 DEF SendsIn
  <2> QED BY <1>7, <2>2 DEF SendsAreBounded, kStreamRetryBudget, h
<1>8. CASE h.kind \in {"json", "ws", "none"}
  <2>1. PerExecution(h.kind) = 3
    BY <1>8 DEF PerExecution, RetryBudget, kStreamRetryBudget
  <2>2. h.sends <= 12
    BY <1>2, <1>3, <1>4, <2>1 DEF SendsIn
  <2> QED BY <1>8, <2>2 DEF SendsAreBounded, kStreamRetryBudget, h
<1> QED BY <1>2, <1>5, <1>6, <1>7, <1>8 DEF Kinds, Routed

\* The invariant gives the property.
LEMMA HandlersInvIsSafe == HandlersInv => HandlersSafety
<1> SUFFICES ASSUME HandlersInv PROVE HandlersSafety
  OBVIOUS
<1>1. HandlersTypeOK
  BY DEF HandlersInv, HandlerOK, HandlersTypeOK, Handlers, Owners
<1>2. ReportedAccountIsRetired
  BY DEF HandlersInv, SpentOK, ReportedAccountIsRetired
<1>3. SuccessHasPayload
  <2> SUFFICES ASSUME hEx.pc = "done", hEx.ans.usable
               PROVE  /\ hEx.up.status = 200
                      /\ hEx.up.payload # "empty"
                      /\ hEx.kind = "compact" => hEx.up.payload = "good"
                      /\ hEx.kind = "json" => hEx.up.payload # "cut"
    BY DEF SuccessHasPayload
  <2>1. hEx.up \in UpAnswers /\ hEx.ans = AnswerOf(hEx.kind, hEx.up) /\ hEx.kind \in Kinds
    BY DEF HandlersInv, HandlerOK, AnswerOK, PhaseOK
  <2> QED BY <2>1, AnswerFits
<1>4. SendsAreBounded
  BY SendsBounded
<1>5. CollectedBodyIsTheStreams
  BY CollectedBody DEF HandlersInv
<1> QED BY <1>1, <1>2, <1>3, <1>4, <1>5 DEF HandlersSafety

\* Whatever the upstream answers and other requests retire: when a handler answers,
\* every account reported as exhausted has left routing; a success has a payload the
\* client can use; the upstream was asked a bounded number of times; and what is
\* collected from a stream is what its first decisive event says.
THEOREM HandlersAreSafe == HandlersSpec => []HandlersSafety
<1>1. HandlersSpec => []HandlersInv
  BY HandlersStart, HandlersStep, PTL DEF HandlersSpec
<1> QED BY <1>1, HandlersInvIsSafe, PTL
=============================================================================
