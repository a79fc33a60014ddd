---------------------------- MODULE UsageRefresh ----------------------------
(***************************************************************************)
(* How a logged request leads to a refresh of its account's usage          *)
(* (proxy_request_logger.cpp), and what the refreshes leave in the cache   *)
(* from which the quota headers of later answers are made                  *)
(* (usage_fetcher.cpp, proxy_service_helpers.cpp).                         *)
(*                                                                         *)
(* The threads that log a request read the clock, take the tracker's mutex *)
(* and enqueue the refresh in three steps.  A refresh asks the upstream    *)
(* and caches its answer in two; so do the clients of the codex usage      *)
(* route and the dashboard, which do not go through the tracker.           *)
(*                                                                         *)
(* The upstream's answers about an account are numbered in the order they  *)
(* are given, and 0 is no answer.  Error codes, tokens, scores and latency *)
(* of the log row, which nothing here depends on, are left out.            *)
(***************************************************************************)
EXTENDS Naturals, FiniteSets, FiniteSetsExt

CONSTANTS
    LAccounts,        \* accounts with a chatgpt account id
    NoOne,            \* no account
    LThreads,         \* threads that log requests
    LTasks,           \* refresh tasks the executor can hold
    Threshold,        \* kAutoUsageRefreshRequestThreshold
    MinInterval,      \* kAutoUsageRefreshMinIntervalMs
    MaxNow,           \* bound on the clock
    MaxAnswers        \* bound on the upstream's answers about one account

ASSUME UsageRefreshAssumption ==
    /\ NoOne \notin LAccounts
    /\ IsFiniteSet(LThreads) /\ IsFiniteSet(LTasks)
    /\ {Threshold, MinInterval, MaxNow} \subseteq Nat \ {0}
    /\ MaxAnswers \in Nat

VARIABLES
    lClock,     \* unix_ms_now, from 1
    tracker,    \* usage_refresh_trackers
    logging,    \* where each logging thread is, for which account, and the time it captured
    lTask,      \* refresh tasks queued or running
    visit,      \* a fetch by a client or the dashboard, one per account
    answers,    \* how many answers the upstream has given about each account
    usageCache, \* usage_payload_cache: the number of the answer
    asked,      \* requests since the last refresh began, counted up to Threshold
    begun,      \* times at which a refresh began
    crossed     \* accounts of which a visit overlapped another fetch

trackerVars == <<lClock, tracker, logging, lTask, asked, begun>>
usageVars == <<trackerVars, visit, answers, usageCache, crossed>>

Resting == [pc |-> "idle", account |-> NoOne, now |-> 0]
NoRefresh == [pc |-> "none", account |-> NoOne, got |-> 0]

UsageInit ==
    /\ lClock = 1
    /\ tracker = [a \in LAccounts |-> [pending |-> 0, last |-> 0, in_flight |-> FALSE]]
    /\ logging = [w \in LThreads |-> Resting]
    /\ lTask = [j \in LTasks |-> NoRefresh]
    /\ visit = [a \in LAccounts |-> [pc |-> "none", got |-> 0]]
    /\ answers = [a \in LAccounts |-> 0]
    /\ usageCache = [a \in LAccounts |-> 0]
    /\ asked = [a \in LAccounts |-> 0]
    /\ begun = [a \in LAccounts |-> {}]
    /\ crossed = {}

-----------------------------------------------------------------------------
(* LOGGING A REQUEST *)

(* The account the request was routed to, else the one the answer names,   *)
(* else the one the client names; an id without an account names nobody.   *)
ResolveAccountId(routed, inAnswer, inRequest) ==
    IF routed \in LAccounts THEN routed
    ELSE IF inAnswer \in LAccounts THEN inAnswer
    ELSE IF inRequest \in LAccounts THEN inRequest
    ELSE NoOne

ShouldCount(account, status, responsesRoute) ==
    account # NoOne /\ status > 0 /\ status < 500 /\ responsesRoute

(* The row is written or not; the request counts in both cases.            *)
PersistRequestLog(w, account, status, responsesRoute) ==
    /\ logging[w].pc = "idle"
    /\ ShouldCount(account, status, responsesRoute)
    /\ logging' = [logging EXCEPT ![w] = [pc |-> "counting", account |-> account, now |-> lClock]]
    /\ asked' = [asked EXCEPT ![account] = Min({@ + 1, Threshold})]
    /\ UNCHANGED <<lClock, tracker, lTask, begun, visit, answers, usageCache, crossed>>

Counting(a) == {w \in LThreads : logging[w].pc = "counting" /\ logging[w].account = a}

Counted(t) == [t EXCEPT !.pending = Min({@ + 1, Threshold})]

Due_IgnoresFlight(t, now) ==
    /\ t.pending >= Threshold
    /\ ~(t.last > 0 /\ (now < t.last \/ now - t.last < MinInterval))

Due(t, now) ==
    /\ t.pending >= Threshold
    /\ ~t.in_flight
    /\ ~(t.last > 0 /\ (now < t.last \/ now - t.last < MinInterval))

MarkUsageRefreshDue(w) ==
    LET a == logging[w].account
        t == Counted(tracker[a])
    IN  /\ logging[w].pc = "counting"
        /\ IF Due(t, logging[w].now)
           THEN /\ tracker' = [tracker EXCEPT ![a] =
                       [pending |-> 0, last |-> logging[w].now, in_flight |-> TRUE]]
                /\ logging' = [logging EXCEPT ![w].pc = "due"]
                /\ begun' = [begun EXCEPT ![a] = @ \cup {logging[w].now}]
                /\ asked' = [asked EXCEPT ![a] = Min({Threshold, Cardinality(Counting(a) \ {w})})]
           ELSE /\ tracker' = [tracker EXCEPT ![a] = t]
                /\ logging' = [logging EXCEPT ![w] = Resting]
                /\ UNCHANGED <<begun, asked>>
        /\ UNCHANGED <<lClock, lTask, visit, answers, usageCache, crossed>>

Completed(t, success) ==
    [t EXCEPT !.in_flight = FALSE,
              !.pending = IF success THEN @ ELSE Max({@, Threshold - 1})]

(* enqueue_async_task takes the refresh, or refuses it when the executor   *)
(* is full or stopping.                                                    *)
EnqueueRefresh(w, accepted) ==
    LET a == logging[w].account
    IN  /\ logging[w].pc = "due"
        /\ IF accepted
           THEN /\ \E j \in LTasks :
                     /\ lTask[j].pc = "none"
                     /\ lTask' = [lTask EXCEPT ![j] = [pc |-> "queued", account |-> a, got |-> 0]]
                /\ UNCHANGED tracker
           ELSE /\ tracker' = [tracker EXCEPT ![a] = Completed(@, FALSE)]
                /\ UNCHANGED lTask
        /\ logging' = [logging EXCEPT ![w] = Resting]
        /\ UNCHANGED <<lClock, asked, begun, visit, answers, usageCache, crossed>>

Tick ==
    /\ lClock < MaxNow
    /\ lClock' = lClock + 1
    /\ UNCHANGED <<tracker, logging, lTask, asked, begun, visit, answers, usageCache, crossed>>

-----------------------------------------------------------------------------
(* FETCHING *)

(* The upstream's answer, or none: no connection, a status that is not 2xx,*)
(* or a body that is no JSON object.                                       *)
UpstreamAnswers(a, ok) ==
    IF ok THEN /\ answers[a] < MaxAnswers
               /\ answers' = [answers EXCEPT ![a] = @ + 1]
    ELSE UNCHANGED answers

Got(a, ok) == IF ok THEN answers[a] + 1 ELSE 0

(* A fetch that failed for its token is repeated once with a new one.      *)
TaskFetches(j, ok) ==
    LET a == lTask[j].account
    IN  /\ lTask[j].pc \in {"queued", "again"}
        /\ UpstreamAnswers(a, ok)
        /\ \/ lTask' = [lTask EXCEPT ![j].pc = "fetched", ![j].got = Got(a, ok)]
           \/ ~ok /\ lTask[j].pc = "queued" /\ lTask' = [lTask EXCEPT ![j].pc = "again"]
        /\ crossed' = IF visit[a].pc = "fetched" THEN crossed \cup {a} ELSE crossed
        /\ UNCHANGED <<lClock, tracker, logging, asked, begun, visit, usageCache>>

Cached(a, got) == IF got = 0 THEN usageCache ELSE [usageCache EXCEPT ![a] = got]

TaskCaches(j) ==
    /\ lTask[j].pc = "fetched"
    /\ usageCache' = Cached(lTask[j].account, lTask[j].got)
    /\ lTask' = [lTask EXCEPT ![j].pc = "cached"]
    /\ UNCHANGED <<lClock, tracker, logging, asked, begun, visit, answers, crossed>>

(* The refresh fails without an answer, unless that deactivated the        *)
(* account, and with one that cannot be stored.                            *)
TaskCompletes(j, success) ==
    /\ lTask[j].pc = "cached"
    /\ tracker' = [tracker EXCEPT ![lTask[j].account] = Completed(@, success)]
    /\ lTask' = [lTask EXCEPT ![j] = NoRefresh]
    /\ UNCHANGED <<lClock, logging, asked, begun, visit, answers, usageCache, crossed>>

(* The codex usage route, or a refresh from the dashboard.                 *)
VisitFetches(a, ok) ==
    /\ visit[a].pc = "none"
    /\ UpstreamAnswers(a, ok)
    /\ visit' = [visit EXCEPT ![a] = [pc |-> "fetched", got |-> Got(a, ok)]]
    /\ crossed' = IF \E j \in LTasks : lTask[j].pc = "fetched" /\ lTask[j].account = a
                  THEN crossed \cup {a} ELSE crossed
    /\ UNCHANGED <<trackerVars, usageCache>>

VisitCaches(a) ==
    /\ visit[a].pc = "fetched"
    /\ usageCache' = Cached(a, visit[a].got)
    /\ visit' = [visit EXCEPT ![a] = [pc |-> "none", got |-> 0]]
    /\ UNCHANGED <<trackerVars, answers, crossed>>

UsageNext ==
    \/ \E w \in LThreads :
         \/ \E routed, inAnswer, inRequest \in LAccounts \cup {NoOne}, status \in {0, 200, 429, 502},
               onResponses \in BOOLEAN :
               PersistRequestLog(w, ResolveAccountId(routed, inAnswer, inRequest), status, onResponses)
         \/ MarkUsageRefreshDue(w)
         \/ \E accepted \in BOOLEAN : EnqueueRefresh(w, accepted)
    \/ \E j \in LTasks, ok \in BOOLEAN : TaskFetches(j, ok) \/ TaskCompletes(j, ok)
    \/ \E j \in LTasks : TaskCaches(j)
    \/ \E a \in LAccounts : VisitCaches(a) \/ \E ok \in BOOLEAN : VisitFetches(a, ok)
    \/ Tick

UsageSpec == UsageInit /\ [][UsageNext]_usageVars

-----------------------------------------------------------------------------
(* PROPERTIES *)

UsageTypeOK ==
    /\ lClock \in 1..MaxNow
    /\ tracker \in [LAccounts -> [pending : 0..Threshold, last : 0..MaxNow, in_flight : BOOLEAN]]
    /\ \A w \in LThreads : logging[w].pc \in {"idle", "counting", "due"}
    /\ \A j \in LTasks : lTask[j].pc \in {"none", "queued", "again", "fetched", "cached"}
    /\ usageCache \in [LAccounts -> 0..MaxAnswers]

(* in_flight, which stops every further refresh of the account, is set     *)
(* exactly while one refresh is on its way: a refusal of the executor or a *)
(* failed fetch never leaves it set for good.                              *)
InFlightHasOneRefresh ==
    \A a \in LAccounts :
        Cardinality({w \in LThreads : logging[w].pc = "due" /\ logging[w].account = a})
          + Cardinality({j \in LTasks : lTask[j].pc # "none" /\ lTask[j].account = a})
        = IF tracker[a].in_flight THEN 1 ELSE 0

(* Two refreshes of an account begin at least the interval apart, although *)
(* threads take the mutex in another order than they read the clock.       *)
RefreshesAreSpaced ==
    \A a \in LAccounts : \A s, t \in begun[a] : s < t => t - s >= MinInterval

(* No request is forgotten: those since the last refresh began are counted *)
(* as pending, whatever refreshes failed or were refused meanwhile.        *)
NoRequestIsForgotten ==
    \A a \in LAccounts : tracker[a].pending + Cardinality(Counting(a)) >= asked[a]

(* The tracker keeps the refreshes of an account apart, so only a fetch    *)
(* that does not go through it can put an older answer over a newer one.   *)
OnlyVisitsAgeTheCache ==
    \A a \in LAccounts \ crossed :
        \A j \in LTasks : lTask[j].pc = "fetched" /\ lTask[j].account = a /\ lTask[j].got # 0
                            => usageCache[a] < lTask[j].got

(* The tracker, the tasks and the cache of the usage refreshes agree.      *)
UsageSafety ==
    /\ UsageTypeOK
    /\ InFlightHasOneRefresh
    /\ RefreshesAreSpaced
    /\ NoRequestIsForgotten
    /\ OnlyVisitsAgeTheCache
=============================================================================
